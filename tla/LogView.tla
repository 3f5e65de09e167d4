------------------------------- MODULE LogView -------------------------------
(***************************************************************************)
(* The log console of the browser (web/app.js): it asks for the log of the *)
(* execution it follows every two seconds and whenever the user wants it   *)
(* to, without waiting for earlier answers, and shows whatever answer      *)
(* comes, while the executors add entries (GetLogsByExecutionID,           *)
(* AddLogEntry in internal/repository/postgres.go).                        *)
(***************************************************************************)
EXTENDS Naturals

CONSTANTS
  Executions,   \* the executions whose log may be opened
  Fetches,      \* bound: the requests in flight
  MaxEntries,   \* bound: the entries of a log
  None          \* no execution

LogViewAssumption == None \notin Executions /\ MaxEntries \in Nat

VARIABLES
  table,       \* how many entries each execution has
  current,     \* currentExecutionID
  interval,    \* logPollInterval: the execution its function asks for
  mode,        \* currentModalFollowMode: "text" is Nodes or Log Output
  output,      \* what the console shows: an execution and how many of its entries
  frame,       \* what the frame of the HTML view shows
  visible,     \* which of the two can be seen
  fetch        \* the requests in flight

view == <<output, frame, visible>>
modal == <<current, interval, mode>>
vars == <<table, modal, view, fetch>>

Nothing == [of |-> None, n |-> 0]
Shown == IF visible = "frame" THEN frame ELSE output
Free == [of |-> None, pc |-> "idle", n |-> 0]

TypeOK ==
  /\ table \in [Executions -> 0..MaxEntries]
  /\ current \in Executions \cup {None} /\ interval \in Executions \cup {None}
  /\ interval # None => current # None
  /\ mode \in {"text", "HTML"}
  /\ output \in [of : Executions \cup {None}, n : 0..MaxEntries]
  /\ frame \in [of : Executions \cup {None}, n : 0..MaxEntries]
  /\ visible \in {"output", "frame"}
  /\ fetch \in [Fetches -> [of : Executions \cup {None},
                            pc : {"idle", "sent", "answered", "failed"}, n : 0..MaxEntries]]
  /\ Shown.of # None => Shown.n <= table[Shown.of]

Init ==
  /\ table = [e \in Executions |-> 0]
  /\ current = None /\ interval = None /\ mode = "text"
  /\ output = Nothing /\ frame = Nothing /\ visible = "output"
  /\ fetch = [f \in Fetches |-> Free]

----------------------------------------------------------------------------
fetchLogsForModal(e) ==
  /\ \E f \in Fetches :
       fetch[f] = Free /\ fetch' = [fetch EXCEPT ![f] = [Free EXCEPT !.of = e, !.pc = "sent"]]
  /\ UNCHANGED <<table, view>>

\* Variant: an interval that is there already is kept.
openLogModalKeeps(e) ==
  /\ fetchLogsForModal(e)
  /\ current' = e
  /\ interval' = IF interval = None THEN e ELSE interval
  /\ UNCHANGED mode

\* From a list, or when a run that was started has been enqueued, whatever is open then.
\* The old contents stay until an answer comes.
openLogModal(e) ==
  /\ fetchLogsForModal(e)
  /\ current' = e /\ interval' = e
  /\ UNCHANGED mode

closeLogModal ==
  /\ current # None
  /\ current' = None /\ interval' = None
  /\ UNCHANGED <<table, mode, view, fetch>>

refreshCurrentLogs ==
  /\ current # None
  /\ fetchLogsForModal(current)
  /\ UNCHANGED modal

onChangeModalFollowMode(m) ==
  /\ current # None /\ m # mode
  /\ mode' = m
  /\ fetchLogsForModal(current)
  /\ UNCHANGED <<current, interval>>

\* The function of the interval asks for its own execution, if that is still the current one.
Poll ==
  /\ interval # None /\ interval = current
  /\ fetchLogsForModal(interval)
  /\ UNCHANGED modal

----------------------------------------------------------------------------
\* GetLogsByExecutionID: one statement, all rows or an error.
handleGetLogs(f) ==
  /\ fetch[f].pc = "sent"
  /\ fetch' = [fetch EXCEPT ![f].pc = "answered", ![f].n = table[fetch[f].of]]
  /\ UNCHANGED <<table, modal, view>>

Fail(f) ==
  /\ fetch[f].pc = "sent"
  /\ fetch' = [fetch EXCEPT ![f].pc = "failed"]
  /\ UNCHANGED <<table, modal, view>>

AddLogEntry(e) ==
  /\ table[e] < MaxEntries
  /\ table' = [table EXCEPT ![e] = @ + 1]
  /\ UNCHANGED <<modal, view, fetch>>

\* An empty log is a message in the console, in any mode.
Render(entries) ==
  IF mode = "HTML" /\ entries.n > 0
  THEN visible' = "frame" /\ frame' = entries /\ UNCHANGED output
  ELSE visible' = "output" /\ output' = entries /\ UNCHANGED frame

\* Whatever is open by now, the answer is shown.  An error becomes the text of the
\* console, which the frame may hide.
Receive(f) ==
  /\ fetch[f].pc \in {"answered", "failed"}
  /\ IF fetch[f].pc = "answered"
     THEN Render([of |-> fetch[f].of, n |-> fetch[f].n])
     ELSE output' = Nothing /\ UNCHANGED <<frame, visible>>
  /\ fetch' = [fetch EXCEPT ![f] = Free]
  /\ UNCHANGED <<table, modal>>

----------------------------------------------------------------------------
User ==
  \/ \E e \in Executions : openLogModal(e)
  \/ closeLogModal \/ refreshCurrentLogs
  \/ \E m \in {"text", "HTML"} : onChangeModalFollowMode(m)

Next ==
  \/ User \/ Poll
  \/ \E f \in Fetches : handleGetLogs(f) \/ Fail(f) \/ Receive(f)
  \/ \E e \in Executions : AddLogEntry(e)

Spec == Init /\ [][Next]_vars

\* The interval fires, answers arrive, and requests that are made again and again do not
\* all fail for ever.  Users and executors owe nothing.
Fairness ==
  /\ WF_vars(Poll)
  /\ SF_vars(\E f \in Fetches : handleGetLogs(f))
  /\ \A f \in Fetches : WF_vars(Receive(f))

----------------------------------------------------------------------------
(* What somebody who follows an execution relies on. *)

\* Overlapping requests, late answers and errors do no lasting harm: a console that stays
\* on an execution shows its whole log again and again, also of one it was opened for
\* while it showed another.
FollowCatchesUp ==
  \A e \in Executions :
    <>[](current = e) => []<>(Shown = [of |-> e, n |-> table[e]])
=============================================================================
