---------------------------- MODULE RemoteCommand ----------------------------
(***************************************************************************)
(* One call of RunCommandWithCredential (internal/ssh/client.go): the      *)
(* caller's goroutine, the keepalive goroutine with the probe it starts,   *)
(* the two readers of the output, the goroutine that waits for the exit    *)
(* status, and the host at the other end, which may fall silent at any     *)
(* moment.  The caller gives the lines of output to recordLog, which       *)
(* inserts each into the table log_entries with the context of the run,    *)
(* and drops whatever error it gets (internal/execution/logger.go).        *)
(***************************************************************************)
EXTENDS Naturals, Sequences

CONSTANTS
  Outputs,  \* what the command may write: per stream, its lines
  Window    \* the lines that fit into the flow-control window of the channel

Streams == {"stdout", "stderr"}
Lines == {"short", "long"}    \* a long line does not fit into the scanner's buffer
Fates == {"row", "dropped"}   \* a line is in the table, or its insert reported an error

ASSUME OutputsAssumption ==
  /\ Outputs \subseteq [Streams -> Seq(Lines)]
  /\ Window \in Nat \ {0}

VARIABLES
  main,       \* where RunCommandWithCredential is
  result,     \* what it returns
  ctx,        \* the caller's context
  conn,       \* the client connection
  host,       \* whether the host still answers
  command,    \* the remote command
  output,     \* all it writes
  unsent,     \* what it has not written yet
  pending,    \* what has arrived and is not read
  reader,     \* the two streamLog goroutines
  waiter,     \* the goroutine in session.Wait
  errCh,      \* what it has put into its channel
  keepalive,  \* the keepalive goroutine
  probe,      \* the goroutine that sends its request
  logged      \* per stream, what became of the lines given to recordLog

peer == <<host, command, output, unsent>>
readers == <<pending, reader, logged>>
watchdog == <<keepalive, probe>>
vars == <<main, result, ctx, conn, peer, readers, waiter, errCh, watchdog>>

Unread == Len(pending["stdout"]) + Len(pending["stderr"])

TypeOK ==
  /\ main \in {"dial", "session", "start", "select", "reap", "wait", "done"}
  /\ result \in {"none", "ok", "error"}
  /\ ctx \in {"live", "cancelled"}
  /\ conn \in {"none", "open", "closed"}
  /\ host \in {"answering", "silent"}
  /\ command \in {"none", "running", "ok", "error"}
  /\ output \in Outputs /\ unsent \in [Streams -> Seq(Lines)]
  /\ pending \in [Streams -> Seq(Lines)] /\ Unread <= Window
  /\ reader \in [Streams -> {"none", "reading", "ended"}]
  /\ waiter \in {"none", "waiting", "ended"}
  /\ errCh \in {"empty", "ok", "error"}
  /\ keepalive \in {"none", "ticking", "probing", "ended"}
  /\ probe \in {"none", "asking", "ok", "error"}
  /\ logged \in [Streams -> Seq(Fates)]

Init ==
  /\ main = "dial" /\ result = "none" /\ ctx = "live" /\ conn = "none"
  /\ host = "answering" /\ command = "none"
  /\ output \in Outputs /\ unsent = output
  /\ pending = [i \in Streams |-> <<>>] /\ logged = [i \in Streams |-> <<>>]
  /\ reader = [i \in Streams |-> "none"]
  /\ waiter = "none" /\ errCh = "empty"
  /\ keepalive = "none" /\ probe = "none"

----------------------------------------------------------------------------
(* The caller's goroutine. *)

\* The deferred calls: session.Close, cancelKeepalive (see KeepaliveOver), client.Close.
Return(answer) ==
  /\ main' = "done" /\ result' = answer
  /\ conn' = IF conn = "none" THEN "none" ELSE "closed"

\* Credential, host key and connection.  The timeout of the dial covers the
\* connection only: a host that falls silent in the handshake keeps the caller here.
Dial ==
  /\ main = "dial"
  /\ \/ host = "answering" /\ main' = "session" /\ conn' = "open" /\ keepalive' = "ticking"
        /\ UNCHANGED result
     \/ Return("error") /\ UNCHANGED keepalive
  /\ UNCHANGED <<ctx, peer, readers, waiter, errCh, probe>>

\* NewSession waits for the host, or for the connection to be closed; it does not
\* look at the context.  The readers start before the command does.
NewSession ==
  /\ main = "session"
  /\ \/ conn = "open" /\ host = "answering" /\ main' = "start"
        /\ reader' = [i \in Streams |-> "reading"] /\ UNCHANGED <<result, conn>>
     \/ (conn = "closed" \/ host = "answering") /\ Return("error") /\ UNCHANGED reader
  /\ UNCHANGED <<ctx, peer, pending, logged, waiter, errCh, watchdog>>

StartCommand ==
  /\ main = "start"
  /\ \/ conn = "open" /\ host = "answering" /\ main' = "select"
        /\ command' = "running" /\ waiter' = "waiting" /\ UNCHANGED <<result, conn>>
     \/ /\ conn = "closed" \/ host = "answering"
        /\ Return("error") /\ UNCHANGED <<command, waiter>>
  /\ UNCHANGED <<ctx, host, output, unsent, readers, errCh, watchdog>>

\* Variant: the context is answered with the signal alone.
CancelledSignals ==
  /\ main = "select" /\ ctx = "cancelled"
  /\ main' = "reap"
  /\ UNCHANGED <<result, ctx, conn, peer, readers, waiter, errCh, watchdog>>

\* The context ends first: SIGTERM, which the host may ignore, and Close.
Cancelled ==
  /\ main = "select" /\ ctx = "cancelled"
  /\ main' = "reap" /\ conn' = "closed"
  /\ UNCHANGED <<result, ctx, peer, readers, waiter, errCh, watchdog>>

Reap ==
  /\ main = "reap" /\ errCh # "empty"
  /\ main' = "wait" /\ result' = "error"
  /\ UNCHANGED <<ctx, conn, peer, readers, waiter, errCh, watchdog>>

\* Variant: the exit status is returned without wg.Wait.
ExitedAtOnce ==
  /\ main = "select" /\ errCh # "empty"
  /\ Return(errCh)
  /\ UNCHANGED <<ctx, peer, readers, waiter, errCh, watchdog>>

\* The exit status comes first; with both ready, select takes either.
Exited ==
  /\ main = "select" /\ errCh # "empty"
  /\ main' = "wait" /\ result' = errCh
  /\ UNCHANGED <<ctx, conn, peer, readers, waiter, errCh, watchdog>>

WaitReaders ==
  /\ main = "wait"
  /\ \A i \in Streams : reader[i] = "ended"
  /\ Return(result)
  /\ UNCHANGED <<ctx, peer, readers, waiter, errCh, watchdog>>

----------------------------------------------------------------------------
(* The goroutines it starts. *)

Ended == command \in {"ok", "error"} \/ conn = "closed"

\* What recordLog makes of one line: the insert may fail at any time, and does so once the
\* context has ended.  Its error is dropped; the row may have been written all the same.
RecordLog(i) ==
  \E fate \in IF ctx = "live" THEN Fates ELSE {"dropped"} :
    logged' = [logged EXCEPT ![i] = Append(@, fate)]

\* A line that does not fit ends the reader; what follows it stays unread.
ReadLine(i) ==
  /\ reader[i] = "reading" /\ pending[i] # <<>>
  /\ \/ /\ Head(pending[i]) = "long"
        /\ reader' = [reader EXCEPT ![i] = "ended"]
        /\ UNCHANGED <<pending, logged>>
     \/ /\ Head(pending[i]) = "short"
        /\ pending' = [pending EXCEPT ![i] = Tail(@)]
        /\ RecordLog(i)
        /\ UNCHANGED reader
  /\ UNCHANGED <<main, result, ctx, conn, peer, waiter, errCh, watchdog>>

ReadEnd(i) ==
  /\ reader[i] = "reading" /\ pending[i] = <<>> /\ Ended
  /\ reader' = [reader EXCEPT ![i] = "ended"]
  /\ UNCHANGED <<main, result, ctx, conn, peer, pending, logged, waiter, errCh, watchdog>>

SessionWait ==
  /\ waiter = "waiting" /\ Ended
  /\ waiter' = "ended"
  /\ errCh' = IF command = "ok" THEN "ok" ELSE "error"
  /\ UNCHANGED <<main, result, ctx, conn, peer, readers, watchdog>>

KeepaliveOver == ctx = "cancelled" \/ main = "done"

Tick ==
  /\ keepalive = "ticking" /\ ~KeepaliveOver
  /\ keepalive' = "probing" /\ probe' = "asking"
  /\ UNCHANGED <<main, result, ctx, conn, peer, readers, waiter, errCh>>

\* Variant: the channel of the probe has no buffer.
ProbeHandsOver ==
  /\ probe = "asking" /\ keepalive = "probing"
  /\ \/ conn = "closed" /\ probe' = "error"
     \/ conn = "open" /\ host = "answering" /\ probe' = "ok"
  /\ UNCHANGED <<main, result, ctx, conn, peer, readers, waiter, errCh, keepalive>>

\* SendRequest returns; its channel has room for the answer, asked for or not.
ProbeReturns ==
  /\ probe = "asking"
  /\ \/ conn = "closed" /\ probe' = "error"
     \/ conn = "open" /\ host = "answering" /\ probe' = "ok"
  /\ UNCHANGED <<main, result, ctx, conn, peer, readers, waiter, errCh, keepalive>>

ProbeAnswered ==
  /\ keepalive = "probing" /\ probe = "ok"
  /\ keepalive' = "ticking" /\ probe' = "none"
  /\ UNCHANGED <<main, result, ctx, conn, peer, readers, waiter, errCh>>

\* An error, or ten seconds without an answer, which may be on its way.
ProbeFails ==
  /\ keepalive = "probing"
  /\ keepalive' = "ended" /\ conn' = "closed"
  /\ UNCHANGED <<main, result, ctx, peer, readers, waiter, errCh, probe>>

KeepaliveStops ==
  /\ keepalive \in {"ticking", "probing"} /\ KeepaliveOver
  /\ keepalive' = "ended"
  /\ UNCHANGED <<main, result, ctx, conn, peer, readers, waiter, errCh, probe>>

----------------------------------------------------------------------------
(* The host, the network and the caller's context. *)

Reachable == conn = "open" /\ host = "answering"

\* Variant: the host ignores the window.
WriteAnyway(i) ==
  /\ command = "running" /\ Reachable
  /\ unsent[i] # <<>>
  /\ unsent' = [unsent EXCEPT ![i] = Tail(@)]
  /\ pending' = [pending EXCEPT ![i] = Append(@, Head(unsent[i]))]
  /\ UNCHANGED <<main, result, ctx, conn, host, command, output, reader, logged, waiter, errCh, watchdog>>

\* Both streams share the window of the channel.
Write(i) ==
  /\ command = "running" /\ Reachable
  /\ unsent[i] # <<>> /\ Unread < Window
  /\ unsent' = [unsent EXCEPT ![i] = Tail(@)]
  /\ pending' = [pending EXCEPT ![i] = Append(@, Head(unsent[i]))]
  /\ UNCHANGED <<main, result, ctx, conn, host, command, output, reader, logged, waiter, errCh, watchdog>>

Exit(status) ==
  /\ command = "running" /\ Reachable
  /\ \A i \in Streams : unsent[i] = <<>>
  /\ command' = status
  /\ UNCHANGED <<main, result, ctx, conn, host, output, unsent, readers, waiter, errCh, watchdog>>

GoSilent ==
  /\ host = "answering"
  /\ host' = "silent"
  /\ UNCHANGED <<main, result, ctx, conn, command, output, unsent, readers, waiter, errCh, watchdog>>

Break ==
  /\ conn = "open"
  /\ conn' = "closed"
  /\ UNCHANGED <<main, result, ctx, peer, readers, waiter, errCh, watchdog>>

CancelContext ==
  /\ ctx = "live" /\ main # "done"
  /\ ctx' = "cancelled"
  /\ UNCHANGED <<main, result, conn, peer, readers, waiter, errCh, watchdog>>

----------------------------------------------------------------------------
Main ==
  \/ Dial \/ NewSession \/ StartCommand
  \/ Cancelled \/ Reap \/ Exited \/ WaitReaders

Keepalive == Tick \/ ProbeAnswered \/ ProbeFails \/ KeepaliveStops

Environment ==
  \/ \E i \in Streams : Write(i)
  \/ \E status \in {"ok", "error"} : Exit(status)
  \/ GoSilent \/ Break \/ CancelContext

Next ==
  \/ Main \/ SessionWait \/ Keepalive \/ ProbeReturns
  \/ \E i \in Streams : ReadLine(i) \/ ReadEnd(i)
  \/ Environment

Spec == Init /\ [][Next]_vars

\* The Go scheduler runs every goroutine that can go on, and the timers of the
\* keepalive fire.  The host, the network and the context owe nothing.
FairSpec ==
  /\ Spec
  /\ WF_vars(Main) /\ WF_vars(SessionWait) /\ WF_vars(Keepalive) /\ WF_vars(ProbeReturns)
  /\ \A i \in Streams : WF_vars(ReadLine(i) \/ ReadEnd(i))

----------------------------------------------------------------------------
(* What the execution service relies on. *)

\* Success means that the command exited with status 0 and that every line of its output
\* has been given to recordLog, up to one that does not fit: the table lacks none but those
\* whose own insert reported an error.  At no time are there more lines than the command
\* wrote.
Readable(i) ==
  CHOOSE n \in 0..Len(output[i]) :
    /\ \A k \in 1..n : output[i][k] = "short"
    /\ n < Len(output[i]) => output[i][n + 1] = "long"

SuccessIsComplete ==
  /\ \A i \in Streams : Len(logged[i]) <= Readable(i)
  /\ main = "done" /\ result = "ok" =>
       command = "ok" /\ \A i \in Streams : Len(logged[i]) = Readable(i)

\* And after the call has returned (wg.Wait) no line is logged any more: none shows up
\* after the outcome of its step or among the lines of the next one.
NoLateLines == main = "done" => UNCHANGED logged

\* All the output of a successful command has been given to the table when its call
\* returns, also when the context ended or inserts failed meanwhile, and nothing is added
\* later: the scanners are waited for (wg.Wait) on every way out.
OutputIsComplete == [][SuccessIsComplete' /\ NoLateLines]_vars

\* Once the command has been started, a cancelled context, a silent host (found by the
\* keepalive), a closed connection and the end of the command each end the call.  Before
\* that only the keepalive watches the host, and it stops with the context: a host that
\* falls silent then ends the call only while the context lives.
CommandReturns ==
  /\ main \in {"select", "reap", "wait"} /\ (ctx = "cancelled" \/ host = "silent" \/ Ended)
       ~> main = "done"
  /\ main \in {"session", "start"} /\ host = "silent" ~> main = "done" \/ ctx = "cancelled"

\* Every goroutine the call has started ends after it.
NothingLeaks ==
  main = "done" ~>
    [](/\ keepalive \in {"none", "ended"} /\ probe # "asking" /\ waiter # "waiting"
       /\ \A i \in Streams : reader[i] # "reading")
=============================================================================
