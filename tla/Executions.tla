----------------------------- MODULE Executions -----------------------------
(***************************************************************************)
(* An execution from the call that enqueues it to the record it leaves.    *)
(*                                                                         *)
(* A producer (internal/queue/enqueue.go) writes one row of the table      *)
(* executions and, in a transaction of its own, one River task for every   *)
(* matched target.  The executor processes (cmd/executor) claim the tasks; *)
(* each claimed task is a run of ExecuteTarget (internal/execution/        *)
(* service.go), which reads the execution row, writes it back whole, runs  *)
(* the steps and writes the row again from the copy it holds.  The tasks   *)
(* of one execution share that single row, and no transaction or lock      *)
(* covers a read and the write that follows it.                            *)
(*                                                                         *)
(* River itself (claiming, retrying, rescuing) is an external library and  *)
(* is modelled from the configuration this repository gives it.            *)
(***************************************************************************)
EXTENDS Integers, FiniteSets

CONSTANTS
  Executions,       \* the execution ids (uuids) producers will draw
  Targets,          \* the targets in the inventory
  Executors,        \* the cmd/executor processes
  MaxWorkers,       \* concurrent runs of one executor (100 in NewWorker)
  MaxAttempts,      \* attempts River gives a task (its default, 25)
  DatabaseMayFail,  \* whether a statement may fail while its context is live
  NoTask            \* what an idle worker slot holds

ASSUME BoundsAssumption ==
  /\ MaxWorkers \in Nat \ {0}
  /\ MaxAttempts \in Nat \ {0}
  /\ DatabaseMayFail \in BOOLEAN
  /\ IsFiniteSet(Targets)
  /\ NoTask \notin Executions \X Targets

VARIABLES
  execution,  \* the table executions: one row per id, or NoRow
  enqueue,    \* per id: how far its producer is, and the targets it matched
  task,       \* the River table: one task per execution and target
  run,        \* what each worker slot of each executor is doing
  executor,   \* each executor process: up, stopping, stopped or crashed
  \* History: how many runs of each execution succeeded and failed, the executions
  \* two of whose runs overlapped, those a run of which missed its final write.
  oks, errs, overlapped, lost

history == <<oks, errs, overlapped, lost>>
vars == <<execution, enqueue, task, run, executor, history>>

Slots == Executors \X (1..MaxWorkers)
Tasks == Executions \X Targets

----------------------------------------------------------------------------
(* The state. *)

Row == [status : {"none", "queued", "running", "succeeded", "failed"},
        total : Nat, succeeded : Nat, failed : Nat]

NoRow == [status |-> "none", total |-> 0, succeeded |-> 0, failed |-> 0]

Enqueue == [step : {"new", "created", "accepted", "rejected"},
            targets : SUBSET Targets]

Task == [state : {"none", "available", "running", "retryable", "completed",
                  "discarded"},
         attempt : 0..MaxAttempts, rescued : BOOLEAN]

\* "steps" is the point where the job and the target are loaded; "record",
\* "reread" and "fail" lie between the outcome and the write that records it;
\* "ok" and "err" are the two ways Work returns to River.
Points == {"read", "start", "load", "steps", "record", "reread", "fail", "ok", "err"}

Run == [pc : Points \cup {"idle"}, task : Tasks \cup {NoTask},
        ctx : {"none", "live", "cancelled"}, rec : Row]

NoRun == [pc |-> "idle", task |-> NoTask, ctx |-> "none", rec |-> NoRow]

TypeOK ==
  /\ execution \in [Executions -> Row]
  /\ enqueue \in [Executions -> Enqueue]
  /\ task \in [Tasks -> Task]
  /\ run \in [Slots -> Run]
  /\ executor \in [Executors -> {"up", "stopping", "stopped", "crashed"}]
  /\ oks \in [Executions -> Nat] /\ errs \in [Executions -> Nat]
  /\ overlapped \in SUBSET Executions /\ lost \in SUBSET Executions

Init ==
  /\ execution = [e \in Executions |-> NoRow]
  /\ enqueue = [e \in Executions |-> [step |-> "new", targets |-> {}]]
  /\ task = [k \in Tasks |-> [state |-> "none", attempt |-> 0, rescued |-> FALSE]]
  /\ run = [s \in Slots |-> NoRun]
  /\ executor = [x \in Executors |-> "up"]
  /\ oks = [e \in Executions |-> 0] /\ errs = [e \in Executions |-> 0]
  /\ overlapped = {} /\ lost = {}

Busy(s) == run[s].pc # "idle"
Of(s) == run[s].task[1]          \* the execution of the task a busy slot runs
Works(s, e) == Busy(s) /\ Of(s) = e
SomeExecutorUp == \E x \in Executors : executor[x] = "up"

----------------------------------------------------------------------------
(* EnqueueExecutionWithOptions, from the inventory's answer on. *)

\* Variant: the row is created as if the job had been started already.
CreateExecutionRunning(e, matched) ==
  /\ enqueue[e].step = "new"
  /\ matched # {}
  /\ execution' = [execution EXCEPT ![e] = [status |-> "running",
        total |-> Cardinality(matched), succeeded |-> 0, failed |-> 0]]
  /\ enqueue' = [enqueue EXCEPT ![e] = [step |-> "created", targets |-> matched]]
  /\ UNCHANGED <<task, run, executor, history>>

\* CreateExecution commits the row on its own, before the transaction begins.
CreateExecution(e, matched) ==
  /\ enqueue[e].step = "new"
  /\ matched # {}
  /\ execution' = [execution EXCEPT ![e] = [status |-> "queued",
        total |-> Cardinality(matched), succeeded |-> 0, failed |-> 0]]
  /\ enqueue' = [enqueue EXCEPT ![e] = [step |-> "created", targets |-> matched]]
  /\ UNCHANGED <<task, run, executor, history>>

\* InsertManyTx and Commit: every task becomes visible at once.  The caller is
\* told so, unless the acknowledgement of the commit does not reach it.
InsertTasks(e, answer) ==
  /\ enqueue[e].step = "created"
  /\ enqueue' = [enqueue EXCEPT ![e].step = answer]
  /\ task' = [k \in Tasks |->
                IF k[1] = e /\ k[2] \in enqueue[e].targets
                  THEN [task[k] EXCEPT !.state = "available"] ELSE task[k]]
  /\ UNCHANGED <<execution, run, executor, history>>

\* Begin, InsertManyTx or Commit fails, or the process ends: the transaction is
\* rolled back and the committed row stays.
AbandonEnqueue(e) ==
  /\ enqueue[e].step = "created"
  /\ enqueue' = [enqueue EXCEPT ![e].step = "rejected"]
  /\ UNCHANGED <<execution, task, run, executor, history>>

----------------------------------------------------------------------------
(* River hands a task to a worker slot, and takes the result back. *)

Claim(s, k) ==
  /\ executor[s[1]] = "up"
  /\ ~Busy(s)
  /\ task[k].state = "available"
  /\ task' = [task EXCEPT ![k].state = "running", ![k].attempt = @ + 1]
  /\ run' = [run EXCEPT ![s] = [pc |-> "read", task |-> k, ctx |-> "live", rec |-> NoRow]]
  /\ overlapped' = overlapped \cup {e \in {k[1]} : \E r \in Slots : Works(r, e)}
  /\ UNCHANGED <<execution, enqueue, executor, oks, errs, lost>>

\* Variant: the attempts of a task are not limited.
NeverDiscard(k) == "retryable"

AfterError(k) == IF task[k].attempt < MaxAttempts THEN "retryable" ELSE "discarded"

\* Work has returned.  River moves the task only if it is still running; when
\* that statement fails the task stays running until it is rescued.
Finish(s) ==
  /\ run[s].pc \in {"ok", "err"}
  /\ LET k == run[s].task
     IN \/ /\ task[k].state = "running"
           /\ task' = [task EXCEPT ![k].state =
                         IF run[s].pc = "ok" THEN "completed" ELSE AfterError(k)]
        \/ /\ task[k].state # "running" \/ DatabaseMayFail
           /\ UNCHANGED task
  /\ run' = [run EXCEPT ![s] = NoRun]
  /\ UNCHANGED <<execution, enqueue, executor, history>>

\* Variant: a task is rescued only when no worker holds it any more.
RescueUnheld(k) ==
  /\ SomeExecutorUp
  /\ task[k].state = "running"
  /\ \A s \in Slots : run[s].task # k
  /\ task' = [task EXCEPT ![k].state = AfterError(k), ![k].rescued = TRUE]
  /\ UNCHANGED <<execution, enqueue, run, executor, history>>

\* Variant: a rescued task is retried whatever its attempts.
RescueForRetry(k) ==
  /\ SomeExecutorUp
  /\ task[k].state = "running"
  /\ \A s \in Slots : run[s].task = k => run[s].ctx # "live"
  /\ task' = [task EXCEPT ![k].state = "retryable", ![k].rescued = TRUE]
  /\ UNCHANGED <<execution, enqueue, run, executor, history>>

\* An hour after the claim, long after the run's own one-minute timeout, River
\* takes a task that is still running away from its worker.
Rescue(k) ==
  /\ SomeExecutorUp
  /\ task[k].state = "running"
  /\ \A s \in Slots : run[s].task = k => run[s].ctx # "live"
  /\ task' = [task EXCEPT ![k].state = AfterError(k), ![k].rescued = TRUE]
  /\ UNCHANGED <<execution, enqueue, run, executor, history>>

\* Variant: a discarded task comes back.
RetryDiscarded(k) ==
  /\ SomeExecutorUp
  /\ task[k].state \in {"retryable", "discarded"}
  /\ task' = [task EXCEPT ![k].state = "available"]
  /\ UNCHANGED <<execution, enqueue, run, executor, history>>

Retry(k) ==
  /\ SomeExecutorUp
  /\ task[k].state = "retryable"
  /\ task' = [task EXCEPT ![k].state = "available"]
  /\ UNCHANGED <<execution, enqueue, run, executor, history>>

----------------------------------------------------------------------------
(* ExecuteTarget, one action for every database call it makes.  A call fails *)
(* once the context is cancelled, and its error is dropped.                  *)

Reaches(s) == run[s].ctx = "live"
Fails(s) == run[s].ctx # "live" \/ DatabaseMayFail
At(s, pc) == run[s].pc = pc
Goto(s, pc) == run' = [run EXCEPT ![s].pc = pc]
Hold(s, pc, row) == run' = [run EXCEPT ![s].pc = pc, ![s].rec = row]
Lose(s) == lost' = lost \cup {Of(s)}   \* no final write

\* What the three writes make of the copy they start from.
Copy(row, status, succeeded, failed) ==
  [status |-> status, total |-> row.total, succeeded |-> succeeded, failed |-> failed]
Started(row) == Copy(row, "running", row.succeeded, row.failed)
Succeeded(row) == Copy(row, "succeeded", row.succeeded + 1, row.failed)
Failed(row) == Copy(row, "failed", row.succeeded, row.failed + 1)

\* Variant: a target is counted as soon as its run starts.
ReadAndCount(s) ==
  /\ At(s, "read")
  /\ \/ Reaches(s) /\ Hold(s, "start", [Succeeded(execution[Of(s)]) EXCEPT !.status = "running"])
     \/ Fails(s) /\ Goto(s, "load")
  /\ UNCHANGED <<execution, enqueue, task, executor, history>>

ReadExecution(s) ==
  /\ At(s, "read")
  /\ \/ Reaches(s) /\ Hold(s, "start", Started(execution[Of(s)]))
     \/ Fails(s) /\ Goto(s, "load")
  /\ UNCHANGED <<execution, enqueue, task, executor, history>>

\* Variant: the statement leaves one column out.
UpdateWithoutFailed(s) ==
  execution' = [execution EXCEPT ![Of(s)].status = run[s].rec.status,
                                 ![Of(s)].succeeded = run[s].rec.succeeded]

\* UpdateExecution replaces the whole row by the caller's copy.
UpdateExecution(s) == execution' = [execution EXCEPT ![Of(s)] = run[s].rec]

WriteRunning(s) ==
  /\ At(s, "start")
  /\ \/ Reaches(s) /\ UpdateExecution(s)
     \/ Fails(s) /\ UNCHANGED execution
  /\ Goto(s, "load")
  /\ UNCHANGED <<enqueue, task, executor, history>>

\* Variant: an early return without markExecutionFailed.
LoadOrReturn(s) ==
  /\ At(s, "load")
  /\ (Reaches(s) /\ Goto(s, "steps")) \/ Goto(s, "err")
  /\ UNCHANGED <<execution, enqueue, task, executor, history>>

\* LoadJob and GetTargetByID.  Either may be gone since the task was inserted.
LoadJobAndTarget(s) ==
  /\ At(s, "load")
  /\ (Reaches(s) /\ Goto(s, "steps")) \/ Goto(s, "reread")
  /\ UNCHANGED <<execution, enqueue, task, executor, history>>

\* ExecuteTargetOnNode succeeds.  A copy step does not look at the context, so a
\* cancelled run may still get here; without a record there is nothing to write.
StepsSucceed(s) ==
  /\ At(s, "steps")
  /\ \/ run[s].rec # NoRow /\ Hold(s, "record", Succeeded(run[s].rec)) /\ UNCHANGED lost
     \/ run[s].rec = NoRow /\ Goto(s, "ok") /\ Lose(s)
  /\ oks' = [oks EXCEPT ![Of(s)] = @ + 1]
  /\ UNCHANGED <<execution, enqueue, task, executor, errs, overlapped>>

\* Variant: the error of a step is returned without markExecutionFailed.
StepsFailUnmarked(s) ==
  /\ At(s, "steps")
  /\ Goto(s, "err")
  /\ UNCHANGED <<execution, enqueue, task, executor, history>>

StepsFail(s) ==
  /\ At(s, "steps")
  /\ Goto(s, "reread")
  /\ UNCHANGED <<execution, enqueue, task, executor, history>>

\* The write that records an outcome, or its loss.
FinalWrite(s) ==
  \/ Reaches(s) /\ UpdateExecution(s) /\ UNCHANGED lost
  \/ Fails(s) /\ Lose(s) /\ UNCHANGED execution

WriteSucceeded(s) ==
  /\ At(s, "record")
  /\ FinalWrite(s)
  /\ Goto(s, "ok")
  /\ UNCHANGED <<enqueue, task, executor, oks, errs, overlapped>>

\* markExecutionFailed reads the row afresh, with the context of the run.
RereadExecution(s) ==
  /\ At(s, "reread")
  /\ \/ Reaches(s) /\ Hold(s, "fail", Failed(execution[Of(s)])) /\ UNCHANGED lost
     \/ Fails(s) /\ Goto(s, "err") /\ Lose(s)
  /\ errs' = [errs EXCEPT ![Of(s)] = @ + 1]
  /\ UNCHANGED <<execution, enqueue, task, executor, oks, overlapped>>

WriteFailed(s) ==
  /\ At(s, "fail")
  /\ FinalWrite(s)
  /\ Goto(s, "err")
  /\ UNCHANGED <<enqueue, task, executor, oks, errs, overlapped>>

----------------------------------------------------------------------------
(* The executor process. *)

\* Variant: the task is handed back while its run is still going on.
TimeoutHandsBack(s) ==
  /\ Busy(s) /\ run[s].ctx = "live"
  /\ run' = [run EXCEPT ![s].ctx = "cancelled"]
  /\ task' = [task EXCEPT ![run[s].task].state = AfterError(run[s].task)]
  /\ UNCHANGED <<execution, enqueue, executor, history>>

\* River gives every run a deadline of one minute.
JobTimeout(s) ==
  /\ Busy(s) /\ run[s].ctx = "live"
  /\ run' = [run EXCEPT ![s].ctx = "cancelled"]
  /\ UNCHANGED <<execution, enqueue, task, executor, history>>

\* The context given to worker.Start is the one the signal cancels: no more
\* claims, and the context of every run is cancelled with it.  (Stopping an idle
\* executor is left out: it only pauses the claims.)
SigTerm(x) ==
  /\ executor[x] = "up"
  /\ \E s \in Slots : s[1] = x /\ Busy(s)
  /\ executor' = [executor EXCEPT ![x] = "stopping"]
  /\ run' = [s \in Slots |-> IF s[1] = x /\ Busy(s)
                              THEN [run[s] EXCEPT !.ctx = "cancelled"] ELSE run[s]]
  /\ UNCHANGED <<execution, enqueue, task, history>>

\* worker.Stop returns when every run has returned.
Stopped(x) ==
  /\ executor[x] = "stopping"
  /\ \A s \in Slots : s[1] = x => ~Busy(s)
  /\ executor' = [executor EXCEPT ![x] = "stopped"]
  /\ UNCHANGED <<execution, enqueue, task, run, history>>

\* The process dies with whatever its slots were doing.
Crash(x) ==
  /\ executor[x] \in {"up", "stopping"}
  /\ \E s \in Slots : s[1] = x /\ Busy(s)
  /\ executor' = [executor EXCEPT ![x] = "crashed"]
  /\ run' = [s \in Slots |-> IF s[1] = x THEN NoRun ELSE run[s]]
  /\ lost' = lost \cup {e \in Executions : \E s \in Slots :
                         s[1] = x /\ Works(s, e) /\ run[s].pc \notin {"ok", "err"}}
  /\ UNCHANGED <<execution, enqueue, task, oks, errs, overlapped>>

StartExecutor(x) ==
  /\ executor[x] \in {"stopped", "crashed"}
  /\ executor' = [executor EXCEPT ![x] = "up"]
  /\ UNCHANGED <<execution, enqueue, task, run, history>>

----------------------------------------------------------------------------
Producer(e) ==
  \/ \E matched \in SUBSET Targets : CreateExecution(e, matched)
  \/ \E answer \in {"accepted", "rejected"} : InsertTasks(e, answer)
  \/ AbandonEnqueue(e)

ExecuteTarget(s) ==
  \/ ReadExecution(s)  \/ WriteRunning(s)    \/ LoadJobAndTarget(s)
  \/ StepsSucceed(s)   \/ StepsFail(s)       \/ WriteSucceeded(s)
  \/ RereadExecution(s) \/ WriteFailed(s)    \/ Finish(s)

Executor(x) == SigTerm(x) \/ Stopped(x) \/ Crash(x) \/ StartExecutor(x)

Next ==
  \/ \E e \in Executions : Producer(e)
  \/ \E s \in Slots, k \in Tasks : Claim(s, k)
  \/ \E k \in Tasks : Rescue(k) \/ Retry(k)
  \/ \E s \in Slots : ExecuteTarget(s) \/ JobTimeout(s)
  \/ \E x \in Executors : Executor(x)

Spec == Init /\ [][Next]_vars

\* Started executors poll the queue and River's maintenance runs in them; between
\* two steps of the job a run goes on until it returns; a stopped or crashed
\* executor is started again.  Nothing obliges a producer to finish, a context to
\* expire or a process to stop.
QueueFairness ==
  /\ \A k \in Tasks : /\ WF_vars(\E s \in Slots : Claim(s, k))
                      /\ WF_vars(Rescue(k)) /\ WF_vars(Retry(k))
  /\ \A s \in Slots : WF_vars(~At(s, "steps") /\ ExecuteTarget(s))
  /\ \A x \in Executors : WF_vars(Stopped(x)) /\ WF_vars(StartExecutor(x))

\* Jobs of command steps, on hosts that answer the dial and the session request:
\* RunCommandWithCredential closes its connection when the context of the run
\* ends, so the steps end (RemoteCommand says what happens on other hosts).
FairSpec ==
  /\ Spec /\ QueueFairness
  /\ \A s \in Slots : WF_vars(StepsSucceed(s) \/ StepsFail(s))

\* Jobs with a file-copy or a script step: CopyFileWithCredential never looks at
\* the context and waits as long as the remote host keeps the session open without
\* ending the transfer.  All that is certain is that the context expires, and that
\* a supervisor kills a process that does not stop.
HangingSpec ==
  /\ Spec /\ QueueFairness
  /\ \A s \in Slots : WF_vars(JobTimeout(s))
  /\ \A x \in Executors : WF_vars(executor[x] = "stopping" /\ Crash(x))

----------------------------------------------------------------------------
(* What the record of an execution can be trusted for. *)

\* The counters never claim more than happened: whatever stale copies are written
\* back over the row, it never counts an outcome no run had, and a final status
\* comes with at least one outcome of its kind.
CountersAreOutcomes ==
  \A e \in Executions :
    LET row == execution[e]
    IN /\ row.succeeded <= oks[e]
       /\ row.failed <= errs[e]
       /\ row.status = "succeeded" => row.succeeded > 0
       /\ row.status = "failed" => row.failed > 0

\* InsertManyTx and the commit: a caller that was given an execution id finds one
\* task for every target the row counts, whatever the runs wrote into the row
\* since; and an execution has all of its tasks or none.
AcceptedHasAllTasks ==
  \A e \in Executions :
    LET inserted == {t \in Targets : task[<<e, t>>].state # "none"}
    IN /\ inserted \in {{}, enqueue[e].targets}
       /\ enqueue[e].step = "accepted" => inserted # {}
       /\ enqueue[e].step # "new" => execution[e].total = Cardinality(enqueue[e].targets)

\* The row is exact: in its total always, and, when no two runs of an execution ever
\* overlapped and none lost its final write (one target, or a fleet served one target
\* at a time), in its outcomes between runs.  ExecuteTarget and markExecutionFailed
\* count every outcome once, retries included; overlap is the only other thing that
\* makes the row wrong.
SequentialRecordsExact ==
  /\ AcceptedHasAllTasks
  /\ \A e \in Executions :
       \/ e \in overlapped \cup lost
       \/ \E s \in Slots : Works(s, e) /\ ~At(s, "ok") /\ ~At(s, "err")
       \/ execution[e].succeeded = oks[e] /\ execution[e].failed = errs[e]

\* A row says "running" only while some run of the execution still has its final
\* write ahead of it, or after a final write was lost: the status is stuck only
\* when a cancelled context, a failing database or a crash swallowed that write.
RunningHasOwner ==
  \A e \in Executions :
    execution[e].status = "running" =>
      \/ e \in lost
      \/ \E s \in Slots : /\ Works(s, e)
                          /\ run[s].pc \in {"load", "steps", "record", "reread", "fail"}

\* An execution whose tasks were never inserted is never picked up: it stays
\* "queued" with empty counters, which is how an orphan row is recognised.
OrphanStaysQueued ==
  \A e \in Executions :
    (\A t \in Targets : task[<<e, t>>].state = "none") =>
      /\ execution[e].status \in {"none", "queued"}
      /\ execution[e].succeeded + execution[e].failed = 0
      /\ \A s \in Slots : ~Works(s, e)

\* Two slots run the same task only after River has rescued it from one of them.
SoleRunUnlessRescued ==
  \A r, s \in Slots :
    r # s /\ Busy(r) /\ run[r].task = run[s].task => task[run[s].task].rescued

\* The record of a finished execution is final: once every task is completed or
\* discarded and no run is left, nothing changes the row any more.
TaskEnded(k) == task[k].state \in {"completed", "discarded"}
Inserted(e) == {t \in enqueue[e].targets : task[<<e, t>>].state # "none"}
Ended(e) ==
  /\ Inserted(e) # {}
  /\ \A t \in Inserted(e) : TaskEnded(<<e, t>>)
  /\ \A s \in Slots : ~Works(s, e)

EndedRecordIsFinal ==
  [][\A e \in Executions : Ended(e) => Ended(e)' /\ execution'[e] = execution[e]]_vars

\* Every task that was committed is completed or given up in the end, through
\* retries, crashes, restarts, timeouts and rescues.
EveryTaskEnds ==
  \A k \in Tasks : task[k].state # "none" ~> TaskEnded(k)

\* Every execution whose tasks were committed ends, and then its row shows a final
\* status unless one of its runs lost its final write.
EveryExecutionSettles ==
  \A e \in Executions :
    enqueue[e].step = "accepted" ~>
      Ended(e) /\ (execution[e].status \in {"succeeded", "failed"} \/ e \in lost)

\* The queue and the executors deliver the committed tasks the way TaskDelivery
\* promises: together, each at least once and at most MaxAttempts times, until it
\* ends, and never again after that.
Delivered == [k \in Tasks |->
  [state |-> CASE task[k].state \in {"available", "retryable"} -> "waiting"
               [] task[k].state = "running" -> "out"
               [] task[k].state = "completed" -> "done"
               [] task[k].state = "discarded" -> "given up"
               [] OTHER -> "none",
   attempt |-> task[k].attempt]]

Delivery == INSTANCE TaskDelivery WITH delivery <- Delivered

DeliversTasks == Delivery!FairSpec

\* cmd/executor/main.go:66 announces a graceful shutdown.  If it were one, an
\* executor that stopped on SIGTERM would have recorded the outcome of its runs.
GracefulShutdown ==
  [][\A x \in Executors : Stopped(x) => \A e \in Executions :
        execution[e].status = "running" => \E s \in Slots : Works(s, e)]_vars
=============================================================================
