-------------------------- MODULE ExecutionsProofs --------------------------
(***************************************************************************)
(* Theorems about Executions, for any number of executions, targets,       *)
(* executors, slots and attempts.                                          *)
(***************************************************************************)
EXTENDS Executions, FiniteSetTheorems, TLAPS

\* A busy slot holds a task, and a task that can still be claimed has an attempt
\* left: without the second part Claim could count past MaxAttempts.
BusyHasTask == \A s \in Slots : Busy(s) => run[s].task \in Tasks
AttemptLeft ==
  \A k \in Tasks :
    task[k].state \in {"none", "available", "retryable"} => task[k].attempt < MaxAttempts

\* Until its producer commits, an execution has no task; a producer that is about
\* to insert them has matched at least one target.
NotInserted ==
  \A e \in Executions :
    /\ enqueue[e].step \in {"new", "created"} =>
         \A t \in Targets : task[<<e, t>>].state = "none"
    /\ enqueue[e].step = "created" => enqueue[e].targets # {}

TypeInv == TypeOK /\ BusyHasTask /\ AttemptLeft /\ NotInserted

----------------------------------------------------------------------------
\* Of a busy slot is an execution.
LEMMA OfExecution ==
  ASSUME BusyHasTask, NEW s \in Slots, Busy(s)
  PROVE  Of(s) \in Executions
BY DEF BusyHasTask, Of, Tasks

\* The cardinality CreateExecution stores is a natural number.
LEMMA MatchedCount ==
  ASSUME NEW matched \in SUBSET Targets
  PROVE  Cardinality(matched) \in Nat
BY BoundsAssumption, FS_Subset, FS_CardinalityType

LEMMA TypeInit == Init => TypeInv
BY BoundsAssumption
   DEF Init, TypeInv, TypeOK, BusyHasTask, AttemptLeft, NotInserted, Busy, Row, NoRow, Enqueue, Task,
       Run, NoRun, Points, Tasks

LEMMA TypeProducer ==
  ASSUME TypeInv, NEW e \in Executions, Producer(e)
  PROVE  TypeInv'
<1> USE DEF TypeInv, TypeOK, BusyHasTask, AttemptLeft, NotInserted, Busy, history
<1>1. ASSUME NEW matched \in SUBSET Targets, CreateExecution(e, matched)
      PROVE  TypeInv'
  <2>1. Cardinality(matched) \in Nat
    BY MatchedCount
  <2>2. execution' \in [Executions -> Row]
    BY <1>1, <2>1 DEF CreateExecution, Row
  <2>3. enqueue' \in [Executions -> Enqueue]
    BY <1>1 DEF CreateExecution, Enqueue
  <2> QED BY <1>1, <2>2, <2>3 DEF CreateExecution
<1>2. ASSUME NEW answer \in {"accepted", "rejected"}, InsertTasks(e, answer)
      PROVE  TypeInv'
  <2>1. enqueue' \in [Executions -> Enqueue]
    BY <1>2 DEF InsertTasks, Enqueue
  <2>2. \A k \in Tasks : k[1] = e => task[k].state = "none"
    BY <1>2 DEF InsertTasks, Tasks
  <2>3. task' \in [Tasks -> Task]
    BY <1>2 DEF InsertTasks, Task
  <2>4. AttemptLeft'
    BY <1>2, <2>2 DEF InsertTasks, Task
  <2>5. NotInserted'
    BY <1>2 DEF InsertTasks, Tasks, Enqueue
  <2> QED BY <1>2, <2>1, <2>3, <2>4, <2>5 DEF InsertTasks
<1>3. CASE AbandonEnqueue(e)
  BY <1>3 DEF AbandonEnqueue, Enqueue
<1> QED BY <1>1, <1>2, <1>3 DEF Producer

\* River's own steps: claiming, rescuing and retrying a task.
LEMMA TypeQueue ==
  ASSUME TypeInv, NEW k \in Tasks,
         Rescue(k) \/ Retry(k) \/ \E s \in Slots : Claim(s, k)
  PROVE  TypeInv'
<1> USE DEF TypeInv, TypeOK, BusyHasTask, AttemptLeft, NotInserted, Busy, history
<1>1. k[1] \in Executions
  BY DEF Tasks
<1>2. ASSUME NEW s \in Slots, Claim(s, k)
      PROVE  TypeInv'
  <2>1. task' \in [Tasks -> Task]
    BY <1>2, BoundsAssumption DEF Claim, Task
  <2>2. run' \in [Slots -> Run]
    BY <1>2 DEF Claim, Run, Points, NoRow, Row
  <2>3. overlapped' \in SUBSET Executions
    BY <1>1, <1>2 DEF Claim
  <2>4. NotInserted'
    BY <1>2 DEF Claim, Tasks, Task
  <2> QED BY <1>2, <2>1, <2>2, <2>3, <2>4 DEF Claim, Task
<1>3. CASE Rescue(k)
  <2>0. AfterError(k) \in {"retryable", "discarded"}
    BY DEF AfterError
  <2>1. task' \in [Tasks -> Task]
    BY <1>3, <2>0 DEF Rescue, Task
  <2>2. NotInserted'
    BY <1>3, <2>0 DEF Rescue, Tasks, Task
  <2> QED BY <1>3, <2>1, <2>2, BoundsAssumption DEF Rescue, AfterError, Task
<1>4. CASE Retry(k)
  <2>1. task' \in [Tasks -> Task]
    BY <1>4 DEF Retry, Task
  <2>2. NotInserted'
    BY <1>4 DEF Retry, Tasks, Task
  <2> QED BY <1>4, <2>1, <2>2 DEF Retry, Task
<1> QED BY <1>2, <1>3, <1>4

\* Moving a busy run to another point, or giving it another copy of the row,
\* keeps the table of runs well formed.
LEMMA TypeGoto ==
  ASSUME TypeInv, NEW s \in Slots, Busy(s), NEW pc \in Points, NEW row \in Row,
         Goto(s, pc) \/ Hold(s, pc, row)
  PROVE  run' \in [Slots -> Run] /\ BusyHasTask'
BY DEF TypeInv, TypeOK, BusyHasTask, Busy, Goto, Hold, Run

\* The copies that are written back are rows.
LEMMA TypeCopies ==
  ASSUME NEW row \in Row
  PROVE  Started(row) \in Row /\ Succeeded(row) \in Row /\ Failed(row) \in Row
BY DEF Row, Started, Succeeded, Failed, Copy

\* What every step of ExecuteTarget finds: a busy slot, its execution, its row and
\* the copy it holds.
LEMMA TypeOfRun ==
  ASSUME TypeInv, NEW s \in Slots, run[s].pc \in Points
  PROVE  /\ Busy(s)
         /\ run[s].task \in Tasks
         /\ Of(s) \in Executions
         /\ run[s].rec \in Row
         /\ execution[Of(s)] \in Row
<1>1. Busy(s)
  BY DEF Busy, Points
<1> QED BY <1>1, OfExecution DEF TypeInv, TypeOK, BusyHasTask, Run

\* The reads, the steps and the writes of ExecuteTarget.
LEMMA TypeExecuteTarget ==
  ASSUME TypeInv, NEW s \in Slots, ExecuteTarget(s)
  PROVE  TypeInv'
<1>0. run[s].pc \in Points
  BY DEF ExecuteTarget, ReadExecution, WriteRunning, LoadJobAndTarget, StepsSucceed,
         StepsFail, WriteSucceeded, RereadExecution, WriteFailed, Finish, At, Points
<1>1. /\ Busy(s)
      /\ run[s].task \in Tasks
      /\ Of(s) \in Executions
      /\ run[s].rec \in Row
      /\ execution[Of(s)] \in Row
  BY <1>0, TypeOfRun
<1>2. CASE Finish(s)
  <2> USE DEF TypeInv, TypeOK
  <2>1. task' \in [Tasks -> Task]
    BY <1>1, <1>2 DEF Finish, AfterError, Task
  <2>2. run' \in [Slots -> Run] /\ BusyHasTask'
    BY <1>2 DEF Finish, Run, NoRun, NoRow, Row, BusyHasTask, Busy
  <2>3. AttemptLeft'
    BY <1>1, <1>2 DEF Finish, AfterError, AttemptLeft, Task
  <2>4. NotInserted'
    BY <1>1, <1>2 DEF Finish, AfterError, NotInserted, Tasks, Task
  <2> QED BY <1>2, <2>1, <2>2, <2>3, <2>4 DEF Finish, history
<1>3. ASSUME execution' \in [Executions -> Row],
             run' \in [Slots -> Run] /\ BusyHasTask',
             oks' \in [Executions -> Nat] /\ errs' \in [Executions -> Nat],
             lost' \in SUBSET Executions,
             UNCHANGED <<enqueue, task, executor, overlapped>>
      PROVE  TypeInv'
  BY <1>3 DEF TypeInv, TypeOK, AttemptLeft, NotInserted
<1>4. UpdateExecution(s) => execution' \in [Executions -> Row]
  BY <1>1 DEF UpdateExecution, TypeInv, TypeOK
<1>5. Lose(s) => lost' \in SUBSET Executions
  BY <1>1 DEF Lose, TypeInv, TypeOK
<1>6. ASSUME NEW pc \in Points, NEW row \in Row, Goto(s, pc) \/ Hold(s, pc, row)
      PROVE  run' \in [Slots -> Run] /\ BusyHasTask'
  BY <1>1, <1>6, TypeGoto
<1>7. /\ oks \in [Executions -> Nat] /\ errs \in [Executions -> Nat]
      /\ lost \in SUBSET Executions
      /\ execution \in [Executions -> Row]
  BY DEF TypeInv, TypeOK
<1>8. CASE ReadExecution(s)
  BY <1>1, <1>3, <1>6, <1>7, <1>8, TypeCopies DEF ReadExecution, Points, history
<1>9. CASE WriteRunning(s)
  BY <1>1, <1>3, <1>4, <1>6, <1>7, <1>9 DEF WriteRunning, Points, history
<1>10. CASE LoadJobAndTarget(s)
  BY <1>1, <1>3, <1>6, <1>7, <1>10 DEF LoadJobAndTarget, Points, history
<1>11. CASE StepsSucceed(s)
  <2>1. oks' \in [Executions -> Nat]
    BY <1>1, <1>7, <1>11 DEF StepsSucceed
  <2> QED BY <1>1, <1>3, <1>5, <1>6, <1>7, <1>11, <2>1, TypeCopies DEF StepsSucceed, Points
<1>12. CASE StepsFail(s)
  BY <1>1, <1>3, <1>6, <1>7, <1>12 DEF StepsFail, Points, history
<1>13. CASE WriteSucceeded(s)
  BY <1>1, <1>3, <1>4, <1>5, <1>6, <1>7, <1>13 DEF WriteSucceeded, FinalWrite, Points
<1>14. CASE RereadExecution(s)
  <2>1. errs' \in [Executions -> Nat]
    BY <1>1, <1>7, <1>14 DEF RereadExecution
  <2> QED BY <1>1, <1>3, <1>5, <1>6, <1>7, <1>14, <2>1, TypeCopies
          DEF RereadExecution, Points
<1>15. CASE WriteFailed(s)
  BY <1>1, <1>3, <1>4, <1>5, <1>6, <1>7, <1>15 DEF WriteFailed, FinalWrite, Points
<1> QED BY <1>2, <1>8, <1>9, <1>10, <1>11, <1>12, <1>13, <1>14, <1>15 DEF ExecuteTarget

\* Timeouts, and what happens to the executor processes.
LEMMA TypeProcess ==
  ASSUME TypeInv,
         \/ \E s \in Slots : JobTimeout(s)
         \/ \E x \in Executors : Executor(x)
  PROVE  TypeInv'
<1> USE DEF TypeInv, TypeOK, BusyHasTask, AttemptLeft, NotInserted, Busy, history
<1>1. ASSUME NEW s \in Slots, JobTimeout(s)
      PROVE  TypeInv'
  BY <1>1 DEF JobTimeout, Run
<1>2. ASSUME NEW x \in Executors, SigTerm(x)
      PROVE  TypeInv'
  BY <1>2 DEF SigTerm, Run
<1>3. ASSUME NEW x \in Executors, Stopped(x) \/ StartExecutor(x)
      PROVE  TypeInv'
  BY <1>3 DEF Stopped, StartExecutor
<1>4. ASSUME NEW x \in Executors, Crash(x)
      PROVE  TypeInv'
  <2>1. lost' \in SUBSET Executions
    BY <1>4 DEF Crash
  <2>2. run' \in [Slots -> Run]
    BY <1>4 DEF Crash, Run, NoRun, NoRow, Row
  <2> QED BY <1>4, <2>1, <2>2 DEF Crash, NoRun
<1> QED BY <1>1, <1>2, <1>3, <1>4 DEF Executor

LEMMA TypeStep == TypeInv /\ [Next]_vars => TypeInv'
<1> SUFFICES ASSUME TypeInv, [Next]_vars
             PROVE  TypeInv'
  OBVIOUS
<1>1. CASE UNCHANGED vars
  BY <1>1 DEF vars, history, TypeInv, TypeOK, BusyHasTask, AttemptLeft, NotInserted, Busy
<1>2. CASE Next
  BY <1>2, TypeProducer, TypeQueue, TypeExecuteTarget, TypeProcess DEF Next
<1> QED BY <1>1, <1>2

LEMMA TypeInvariant == Spec => []TypeInv
BY TypeInit, TypeStep, PTL DEF Spec

\* Every variable keeps its type; in particular no task is ever given more than
\* MaxAttempts attempts, however its runs end and however often it is rescued.
THEOREM TypeCorrect == Spec => []TypeOK
<1>1. TypeInv => TypeOK
  BY DEF TypeInv
<1> QED BY <1>1, TypeInvariant, PTL

----------------------------------------------------------------------------
(* The status "running" always has an owner, or the loss of a final write.   *)

\* The points between the write of "running" and the final write.
Owning == {"load", "steps", "record", "reread", "fail"}
Owns(s, e) == Works(s, e) /\ run[s].pc \in Owning
HasOwner(e) == e \in lost \/ \E s \in Slots : Owns(s, e)

\* RunningHasOwner is not inductive alone: a run that holds a copy marked
\* "running" will write it later, and the copies of the final writes carry a final
\* status.
CopiesMarked ==
  \A s \in Slots :
    /\ run[s].pc = "start" => run[s].rec.status = "running"
    /\ run[s].pc = "record" => run[s].rec.status = "succeeded"
    /\ run[s].pc = "fail" => run[s].rec.status = "failed"

OwnerInv == TypeInv /\ CopiesMarked /\ RunningHasOwner

LEMMA RunningHasOwnerDef ==
  RunningHasOwner <=>
    \A e \in Executions : execution[e].status = "running" => HasOwner(e)
BY DEF RunningHasOwner, HasOwner, Owns, Owning

\* A step of one run changes its own point, and maybe its own copy; it keeps its
\* task and leaves every other run alone.
LEMMA RunEffect ==
  ASSUME TypeInv, NEW s \in Slots, NEW pc, NEW row, Goto(s, pc) \/ Hold(s, pc, row)
  PROVE  /\ run'[s].pc = pc
         /\ run'[s].task = run[s].task
         /\ Goto(s, pc) => run'[s].rec = run[s].rec
         /\ Hold(s, pc, row) => run'[s].rec = row
         /\ \A r \in Slots : r # s => run'[r] = run[r]
BY DEF TypeInv, TypeOK, Run, Goto, Hold

LEMMA CopiesMarkedStep == TypeInv /\ CopiesMarked /\ [Next]_vars => CopiesMarked'
<1> SUFFICES ASSUME TypeInv, CopiesMarked, [Next]_vars
             PROVE  CopiesMarked'
  OBVIOUS
<1> USE DEF CopiesMarked
<1>0. run \in [Slots -> Run]
  BY DEF TypeInv, TypeOK
<1>1. CASE UNCHANGED vars
  BY <1>1 DEF vars
<1>2. ASSUME NEW e \in Executions, Producer(e)
      PROVE  CopiesMarked'
  BY <1>2 DEF Producer, CreateExecution, InsertTasks, AbandonEnqueue
<1>3. ASSUME NEW k \in Tasks, Rescue(k) \/ Retry(k)
      PROVE  CopiesMarked'
  BY <1>3 DEF Rescue, Retry
<1>4. ASSUME NEW s \in Slots, NEW k \in Tasks, Claim(s, k)
      PROVE  CopiesMarked'
  BY <1>0, <1>4 DEF Claim
<1>5. ASSUME NEW s \in Slots, ExecuteTarget(s)
      PROVE  CopiesMarked'
  <2>a. ASSUME NEW pc \in Points \ {"start", "record", "fail"}, Goto(s, pc)
        PROVE  CopiesMarked'
    <3>1. run'[s].pc = pc /\ \A r \in Slots : r # s => run'[r] = run[r]
      BY <2>a, RunEffect
    <3> QED BY <3>1
  <2>b. ASSUME NEW pc, NEW row, Hold(s, pc, row),
               \/ pc = "start" /\ row.status = "running"
               \/ pc = "record" /\ row.status = "succeeded"
               \/ pc = "fail" /\ row.status = "failed"
        PROVE  CopiesMarked'
    <3>1. /\ run'[s].pc = pc /\ run'[s].rec = row
          /\ \A r \in Slots : r # s => run'[r] = run[r]
      BY <2>b, RunEffect
    <3> QED BY <2>b, <3>1
  <2>c. \A row : /\ Started(row).status = "running"
                 /\ Succeeded(row).status = "succeeded"
                 /\ Failed(row).status = "failed"
    BY DEF Started, Succeeded, Failed, Copy
  <2> HIDE DEF CopiesMarked
  <2>1. CASE ReadExecution(s)
    BY <2>1, <2>a, <2>b, <2>c DEF ReadExecution, Points
  <2>2. CASE StepsSucceed(s)
    BY <2>2, <2>a, <2>b, <2>c DEF StepsSucceed, Points
  <2>3. CASE RereadExecution(s)
    BY <2>3, <2>a, <2>b, <2>c DEF RereadExecution, Points
  <2>4. CASE WriteRunning(s) \/ LoadJobAndTarget(s) \/ StepsFail(s)
    BY <2>4, <2>a DEF WriteRunning, LoadJobAndTarget, StepsFail, Points
  <2>5. CASE WriteSucceeded(s) \/ WriteFailed(s)
    BY <2>5, <2>a DEF WriteSucceeded, WriteFailed, Points
  <2>6. CASE Finish(s)
    BY <1>0, <2>6 DEF Finish, NoRun, CopiesMarked
  <2> QED BY <1>5, <2>1, <2>2, <2>3, <2>4, <2>5, <2>6 DEF ExecuteTarget
<1>6. ASSUME NEW s \in Slots, JobTimeout(s)
      PROVE  CopiesMarked'
  BY <1>0, <1>6 DEF JobTimeout
<1>7. ASSUME NEW x \in Executors, Executor(x)
      PROVE  CopiesMarked'
  <2>1. CASE SigTerm(x)
    BY <1>0, <2>1 DEF SigTerm
  <2>2. CASE Crash(x)
    BY <1>0, <2>2 DEF Crash, NoRun
  <2>3. CASE Stopped(x) \/ StartExecutor(x)
    BY <2>3 DEF Stopped, StartExecutor
  <2> QED BY <1>7, <2>1, <2>2, <2>3 DEF Executor
<1> QED BY <1>1, <1>2, <1>3, <1>4, <1>5, <1>6, <1>7 DEF Next

\* A step that leaves the rows alone and takes no owner away keeps the property.
LEMMA OwnerKept ==
  ASSUME RunningHasOwner, execution' = execution,
         \A e \in Executions : HasOwner(e) => HasOwner(e)'
  PROVE  RunningHasOwner'
BY DEF RunningHasOwner, HasOwner, Owns, Owning

LEMMA OwnerStep == OwnerInv /\ [Next]_vars => RunningHasOwner'
<1> SUFFICES ASSUME OwnerInv, [Next]_vars
             PROVE  RunningHasOwner'
  OBVIOUS
<1>0. /\ run \in [Slots -> Run]
      /\ execution \in [Executions -> Row]
      /\ \A e \in Executions : execution[e].status = "running" => HasOwner(e)
      /\ RunningHasOwner
  BY RunningHasOwnerDef DEF OwnerInv, TypeInv, TypeOK
<1> USE DEF HasOwner, Owns, Works, Busy, Of
<1>1. CASE UNCHANGED vars
  BY <1>0, <1>1 DEF vars, history, RunningHasOwner
<1>2. ASSUME NEW e \in Executions, Producer(e)
      PROVE  RunningHasOwner'
  BY <1>0, <1>2 DEF Producer, CreateExecution, InsertTasks, AbandonEnqueue, history,
                    RunningHasOwner
<1>3. ASSUME NEW k \in Tasks, Rescue(k) \/ Retry(k)
      PROVE  RunningHasOwner'
  BY <1>0, <1>3 DEF Rescue, Retry, history, RunningHasOwner
<1>4. ASSUME NEW s \in Slots, NEW k \in Tasks, Claim(s, k)
      PROVE  RunningHasOwner'
  BY <1>0, <1>4, OwnerKept DEF Claim, Owning
<1>5. ASSUME NEW s \in Slots, ExecuteTarget(s)
      PROVE  RunningHasOwner'
  <2>0. /\ run[s].pc \in Points => Of(s) \in Executions
        /\ TypeInv
    BY TypeOfRun DEF OwnerInv
  \* The run stays an owner, or stays none, or leaves an execution that lost a write.
  <2>a. ASSUME NEW pc, NEW row, Goto(s, pc) \/ Hold(s, pc, row), lost \subseteq lost',
               \/ pc \in Owning
               \/ run[s].pc \notin Owning
               \/ Of(s) \in lost'
        PROVE  \A e \in Executions : HasOwner(e) => HasOwner(e)'
    <3>1. /\ run'[s].pc = pc
          /\ run'[s].task = run[s].task
          /\ \A r \in Slots : r # s => run'[r] = run[r]
      BY <2>0, <2>a, RunEffect
    <3> QED BY <2>a, <3>1 DEF Owning
  <2>1. CASE ReadExecution(s)
    <3>1. \A e \in Executions : HasOwner(e) => HasOwner(e)'
      BY <2>1, <2>a DEF ReadExecution, At, Owning, history
    <3> HIDE DEF HasOwner
    <3> QED BY <1>0, <2>1, <3>1, OwnerKept DEF ReadExecution
  <2>2. CASE WriteRunning(s)
    <3>0. /\ run'[s].pc = "load"
          /\ run'[s].task = run[s].task
          /\ run[s].pc = "start"
      BY <2>0, <2>2, RunEffect DEF WriteRunning, At
    <3>1. HasOwner(Of(s))'
      BY <2>0, <3>0 DEF Owning
    <3>2. \A e \in Executions : HasOwner(e) => HasOwner(e)'
      BY <2>2, <2>a DEF WriteRunning, At, Owning, history
    <3>3. \A e \in Executions : e # Of(s) => execution'[e] = execution[e]
      BY <1>0, <2>2 DEF WriteRunning, UpdateExecution
    <3>4. Of(s)' = Of(s)
      BY <3>0
    <3>5. \A e \in Executions : execution'[e].status = "running" => HasOwner(e)'
      <4> HIDE DEF HasOwner
      <4> SUFFICES ASSUME NEW e \in Executions, execution'[e].status = "running"
                   PROVE  HasOwner(e)'
        OBVIOUS
      <4>1. CASE e = Of(s)
        <5>1. CASE e \in lost'
          BY <5>1 DEF HasOwner
        <5>2. CASE e \notin lost'
          BY <3>0, <4>1 DEF HasOwner, Owning
        <5> QED BY <5>1, <5>2
      <4>2. CASE e # Of(s)
        BY <1>0, <3>2, <3>3, <4>2
      <4> QED BY <4>1, <4>2
    <3> QED BY <3>5 DEF RunningHasOwner, Owning
  <2>3. CASE LoadJobAndTarget(s) \/ StepsFail(s)
    <3>1. \A e \in Executions : HasOwner(e) => HasOwner(e)'
      BY <2>3, <2>a DEF LoadJobAndTarget, StepsFail, At, Owning, history
    <3> HIDE DEF HasOwner
    <3> QED BY <1>0, <2>3, <3>1, OwnerKept DEF LoadJobAndTarget, StepsFail
  <2>4. CASE StepsSucceed(s)
    <3>1. \A e \in Executions : HasOwner(e) => HasOwner(e)'
      BY <2>4, <2>a DEF StepsSucceed, Lose, Owning
    <3> HIDE DEF HasOwner
    <3> QED BY <1>0, <2>4, <3>1, OwnerKept DEF StepsSucceed
  <2>5. CASE RereadExecution(s)
    <3>1. \A e \in Executions : HasOwner(e) => HasOwner(e)'
      BY <2>5, <2>a DEF RereadExecution, Lose, Owning
    <3> HIDE DEF HasOwner
    <3> QED BY <1>0, <2>5, <3>1, OwnerKept DEF RereadExecution
  <2>6. CASE WriteSucceeded(s) \/ WriteFailed(s)
    <3>1. /\ run[s].rec.status \in {"succeeded", "failed"}
          /\ Of(s) \in Executions
          /\ \E pc \in {"ok", "err"} : Goto(s, pc)
          /\ FinalWrite(s)
      BY <2>0, <2>6 DEF WriteSucceeded, WriteFailed, At, OwnerInv, CopiesMarked, Points
    <3>2. CASE Lose(s) /\ UNCHANGED execution
      <4>1. \A e \in Executions : HasOwner(e) => HasOwner(e)'
        BY <2>a, <3>1, <3>2 DEF Lose
      <4> HIDE DEF HasOwner
      <4> QED BY <1>0, <3>2, <4>1, OwnerKept
    <3>3. CASE UpdateExecution(s) /\ UNCHANGED lost
      <4>1. execution'[Of(s)].status # "running"
        BY <1>0, <3>1, <3>3 DEF UpdateExecution
      <4>2. \A e \in Executions : e # Of(s) => execution'[e] = execution[e]
        BY <1>0, <3>3 DEF UpdateExecution
      <4>3. \A r \in Slots : r # s => run'[r] = run[r]
        BY <2>0, <3>1, RunEffect
      <4>4. \A e \in Executions : e # Of(s) /\ HasOwner(e) => HasOwner(e)'
        BY <3>3, <4>3
      <4>5. \A e \in Executions : execution'[e].status = "running" => HasOwner(e)'
        <5> HIDE DEF HasOwner
        <5> QED BY <1>0, <4>1, <4>2, <4>4
      <4> QED BY <4>5 DEF RunningHasOwner, Owning
    <3> QED BY <3>1, <3>2, <3>3 DEF FinalWrite
  <2>7. CASE Finish(s)
    BY <1>0, <2>7, OwnerKept DEF Finish, NoRun, Owning, history
  <2> QED BY <1>5, <2>1, <2>2, <2>3, <2>4, <2>5, <2>6, <2>7 DEF ExecuteTarget
<1>6. ASSUME NEW s \in Slots, JobTimeout(s)
      PROVE  RunningHasOwner'
  BY <1>0, <1>6, OwnerKept DEF JobTimeout, Owning, history
<1>7. ASSUME NEW x \in Executors, Executor(x)
      PROVE  RunningHasOwner'
  <2>1. CASE SigTerm(x)
    BY <1>0, <2>1, OwnerKept DEF SigTerm, Owning, history
  <2>2. CASE Crash(x)
    BY <1>0, <2>2, OwnerKept DEF Crash, NoRun, Owning
  <2>3. CASE Stopped(x) \/ StartExecutor(x)
    BY <1>0, <2>3 DEF Stopped, StartExecutor, history, RunningHasOwner
  <2> QED BY <1>7, <2>1, <2>2, <2>3 DEF Executor
<1> QED BY <1>1, <1>2, <1>3, <1>4, <1>5, <1>6, <1>7 DEF Next

\* A row says "running" only while a run still has its final write ahead of it, or
\* after a final write was lost: no interleaving of runs alone leaves it stuck.
THEOREM RunningOwned == Spec => []RunningHasOwner
<1>1. Init => OwnerInv
  <2>1. Init => CopiesMarked /\ RunningHasOwner
    BY DEF Init, CopiesMarked, RunningHasOwner, NoRun, NoRow
  <2> QED BY <2>1, TypeInit DEF OwnerInv
<1>2. OwnerInv /\ [Next]_vars => OwnerInv'
  BY TypeStep, CopiesMarkedStep, OwnerStep DEF OwnerInv
<1>3. OwnerInv => RunningHasOwner
  BY DEF OwnerInv
<1> QED BY <1>1, <1>2, <1>3, PTL DEF Spec

-----------------------------------------------------------------------------
(* The row of an execution: what its counters and its status can be trusted for.   *)

\* A row whose counters are covered by that many successes and failures.
Backed(row, succeeded, failed) ==
  /\ row.succeeded <= succeeded
  /\ row.failed <= failed
  /\ row.status = "succeeded" => row.succeeded > 0
  /\ row.status = "failed" => row.failed > 0

RowsBacked == \A e \in Executions : Backed(execution[e], oks[e], errs[e])

\* Not inductive without the copies: each will be written over the row some day.
CopiesBacked ==
  \A s \in Slots : Busy(s) => Backed(run[s].rec, oks[Of(s)], errs[Of(s)])

CountInv == TypeInv /\ RowsBacked /\ CopiesBacked

LEMMA CountersAreBacked == CountersAreOutcomes <=> RowsBacked
BY DEF CountersAreOutcomes, RowsBacked, Backed

\* What was backed stays backed when outcomes are added.
LEMMA BackedKept ==
  ASSUME NEW row \in Row, NEW m \in Nat, NEW n \in Nat, NEW mm \in Nat, NEW nn \in Nat,
         Backed(row, m, n), m <= mm, n <= nn
  PROVE  Backed(row, mm, nn)
BY DEF Backed, Row

\* The copies that are written back, against the outcomes they are written for.
LEMMA BackedCopies ==
  ASSUME NEW row \in Row, NEW m \in Nat, NEW n \in Nat, Backed(row, m, n)
  PROVE  /\ Backed(Started(row), m, n)
         /\ Backed(Succeeded(row), m + 1, n)
         /\ Backed(Failed(row), m, n + 1)
BY DEF Backed, Row, Started, Succeeded, Failed, Copy

\* Outcomes are only ever added.
Grows == \A e \in Executions : oks[e] <= oks'[e] /\ errs[e] <= errs'[e]

LEMMA NoGrowth == TypeInv /\ UNCHANGED <<oks, errs>> => Grows
BY DEF TypeInv, TypeOK, Grows

\* A step that keeps the rows and the copies, and may empty slots.
LEMMA CountKept ==
  ASSUME TypeInv, TypeInv', CountInv, Grows,
         \A e \in Executions : execution'[e] = execution[e],
         \A s \in Slots : Busy(s)' =>
            /\ Busy(s) /\ Of(s)' = Of(s)
            /\ run'[s].rec = run[s].rec
  PROVE  CountInv'
<1>1. \A e \in Executions :
        /\ execution[e] \in Row
        /\ oks[e] \in Nat /\ errs[e] \in Nat /\ oks'[e] \in Nat /\ errs'[e] \in Nat
  BY DEF TypeInv, TypeOK
<1>2. RowsBacked'
  BY <1>1, BackedKept DEF RowsBacked, CountInv, Grows
<1>3. ASSUME NEW s \in Slots, Busy(s)'
      PROVE  Backed(run'[s].rec, oks'[Of(s)'], errs'[Of(s)'])
  <2>1. /\ Busy(s) /\ Of(s)' = Of(s) /\ run'[s].rec = run[s].rec
    BY <1>3
  <2>2. Of(s) \in Executions /\ run[s].rec \in Row
    BY <2>1, OfExecution DEF TypeInv, TypeOK, Run
  <2>3. Backed(run[s].rec, oks[Of(s)], errs[Of(s)])
    BY <2>1 DEF CountInv, CopiesBacked
  <2> QED BY <1>1, <2>1, <2>2, <2>3, BackedKept DEF Grows
<1> QED BY <1>2, <1>3 DEF CountInv, CopiesBacked

\* A step of one run that leaves it with a backed copy, and the row as it was or
\* replaced by the copy the run held.
LEMMA CountRun ==
  ASSUME TypeInv, TypeInv', CountInv, Grows,
         NEW s \in Slots, Busy(s), Busy(s)', Of(s)' = Of(s),
         \A r \in Slots : r # s => run'[r] = run[r],
         Backed(run'[s].rec, oks'[Of(s)], errs'[Of(s)]),
         UpdateExecution(s) \/ UNCHANGED execution
  PROVE  CountInv'
<1>1. /\ \A e \in Executions :
           /\ execution[e] \in Row
           /\ oks[e] \in Nat /\ errs[e] \in Nat /\ oks'[e] \in Nat /\ errs'[e] \in Nat
      /\ \A r \in Slots : run[r].rec \in Row /\ (Busy(r) => Of(r) \in Executions)
  BY OfExecution DEF TypeInv, TypeOK, Run
<1>2. \A e \in Executions : \/ execution'[e] = execution[e]
                            \/ e = Of(s) /\ execution'[e] = run[s].rec
  BY DEF UpdateExecution, TypeInv, TypeOK
<1>3. /\ \A e \in Executions : Backed(execution[e], oks[e], errs[e])
      /\ Backed(run[s].rec, oks[Of(s)], errs[Of(s)])
  BY DEF CountInv, RowsBacked, CopiesBacked
<1>4. RowsBacked'
  <2> SUFFICES ASSUME NEW e \in Executions
               PROVE  Backed(execution'[e], oks'[e], errs'[e])
    BY DEF RowsBacked
  <2>1. CASE execution'[e] = execution[e]
    BY <1>1, <1>3, <2>1, BackedKept DEF Grows
  <2>2. CASE e = Of(s) /\ execution'[e] = run[s].rec
    BY <1>1, <1>3, <2>2, BackedKept DEF Grows
  <2> QED BY <1>2, <2>1, <2>2
<1>5. ASSUME NEW r \in Slots, Busy(r)'
      PROVE  Backed(run'[r].rec, oks'[Of(r)'], errs'[Of(r)'])
  <2>1. CASE r = s
    BY <2>1
  <2>2. CASE r # s
    <3>1. Busy(r) /\ Of(r)' = Of(r) /\ run'[r].rec = run[r].rec
      BY <1>5, <2>2 DEF Busy, Of
    <3>2. Backed(run[r].rec, oks[Of(r)], errs[Of(r)])
      BY <3>1 DEF CountInv, CopiesBacked
    <3> QED BY <1>1, <3>1, <3>2, BackedKept DEF Grows
  <2> QED BY <2>1, <2>2
<1> QED BY <1>4, <1>5 DEF CountInv, CopiesBacked

\* The steps of a run: each write and each outcome keeps the counters backed.
LEMMA CountExecuteTarget ==
  ASSUME TypeInv, TypeInv', CountInv, NEW s \in Slots, ExecuteTarget(s)
  PROVE  CountInv'
<1>0. run[s].pc \in Points
  BY DEF ExecuteTarget, ReadExecution, WriteRunning, LoadJobAndTarget, StepsSucceed,
         StepsFail, WriteSucceeded, RereadExecution, WriteFailed, Finish, At, Points
<1>1. /\ Busy(s)
      /\ Of(s) \in Executions
      /\ run[s].rec \in Row
      /\ execution[Of(s)] \in Row
      /\ oks[Of(s)] \in Nat /\ errs[Of(s)] \in Nat
      /\ Backed(run[s].rec, oks[Of(s)], errs[Of(s)])
      /\ Backed(execution[Of(s)], oks[Of(s)], errs[Of(s)])
  BY <1>0, TypeOfRun DEF TypeInv, TypeOK, CountInv, RowsBacked, CopiesBacked
<1>2. ASSUME NEW pc \in Points, NEW row,
             \/ Goto(s, pc) /\ row = run[s].rec
             \/ Hold(s, pc, row),
             Grows, Backed(row, oks'[Of(s)], errs'[Of(s)]),
             UpdateExecution(s) \/ UNCHANGED execution
      PROVE  CountInv'
  <2>1. /\ run'[s].pc = pc /\ run'[s].task = run[s].task /\ run'[s].rec = row
        /\ \A r \in Slots : r # s => run'[r] = run[r]
    BY <1>2, RunEffect
  <2>2. Busy(s)' /\ Of(s)' = Of(s)
    BY <2>1 DEF Busy, Of, Points
  <2> QED BY <1>1, <1>2, <2>1, <2>2, CountRun
<1>3. CASE ReadExecution(s)
  BY <1>1, <1>2, <1>3, NoGrowth, BackedCopies DEF ReadExecution, Points, history
<1>4. CASE WriteRunning(s)
  BY <1>1, <1>2, <1>4, NoGrowth DEF WriteRunning, Points, history
<1>5. CASE LoadJobAndTarget(s) \/ StepsFail(s)
  BY <1>1, <1>2, <1>5, NoGrowth DEF LoadJobAndTarget, StepsFail, Points, history
<1>6. CASE StepsSucceed(s)
  <2>1. Grows /\ oks'[Of(s)] = oks[Of(s)] + 1 /\ errs' = errs
    BY <1>1, <1>6 DEF StepsSucceed, Grows, TypeInv, TypeOK
  <2>2. CASE Hold(s, "record", Succeeded(run[s].rec))
    <3>1. Backed(Succeeded(run[s].rec), oks'[Of(s)], errs'[Of(s)])
      BY <1>1, <2>1, BackedCopies
    <3> QED BY <1>2, <1>6, <2>1, <2>2, <3>1 DEF StepsSucceed, Points
  <2>3. CASE Goto(s, "ok")
    <3>1. Backed(run[s].rec, oks'[Of(s)], errs'[Of(s)])
      BY <1>1, <2>1, BackedKept
    <3> QED BY <1>2, <1>6, <2>1, <2>3, <3>1 DEF StepsSucceed, Points
  <2> QED BY <1>6, <2>2, <2>3 DEF StepsSucceed
<1>7. CASE RereadExecution(s)
  <2>1. Grows /\ errs'[Of(s)] = errs[Of(s)] + 1 /\ oks' = oks
    BY <1>1, <1>7 DEF RereadExecution, Grows, TypeInv, TypeOK
  <2>2. CASE Hold(s, "fail", Failed(execution[Of(s)]))
    <3>1. Backed(Failed(execution[Of(s)]), oks'[Of(s)], errs'[Of(s)])
      BY <1>1, <2>1, BackedCopies
    <3> QED BY <1>2, <1>7, <2>1, <2>2, <3>1 DEF RereadExecution, Points
  <2>3. CASE Goto(s, "err")
    <3>1. Backed(run[s].rec, oks'[Of(s)], errs'[Of(s)])
      BY <1>1, <2>1, BackedKept
    <3> QED BY <1>2, <1>7, <2>1, <2>3, <3>1 DEF RereadExecution, Points
  <2> QED BY <1>7, <2>2, <2>3 DEF RereadExecution
<1>8. CASE WriteSucceeded(s) \/ WriteFailed(s)
  BY <1>1, <1>2, <1>8, NoGrowth DEF WriteSucceeded, WriteFailed, FinalWrite, Points
<1>9. CASE Finish(s)
  <2>1. \A r \in Slots : Busy(r)' => run'[r] = run[r] /\ Busy(r)
    BY <1>9 DEF Finish, Busy, NoRun, TypeInv, TypeOK
  <2>2. UNCHANGED execution /\ Grows
    BY <1>9, NoGrowth DEF Finish, history
  <2> QED BY <2>1, <2>2, CountKept DEF Of
<1> QED BY <1>3, <1>4, <1>5, <1>6, <1>7, <1>8, <1>9 DEF ExecuteTarget

LEMMA CountStep == CountInv /\ TypeInv' /\ [Next]_vars => CountInv'
<1> SUFFICES ASSUME CountInv, TypeInv, TypeInv', [Next]_vars
             PROVE  CountInv'
  BY DEF CountInv
<1>1. CASE UNCHANGED vars
  BY <1>1 DEF vars, history, CountInv, RowsBacked, CopiesBacked, Busy, Of
<1>2. ASSUME NEW e \in Executions, Producer(e)
      PROVE  CountInv'
  <2>1. UNCHANGED <<run, oks, errs>>
    BY <1>2 DEF Producer, CreateExecution, InsertTasks, AbandonEnqueue, history
  <2>2. ASSUME NEW matched, CreateExecution(e, matched)
        PROVE  RowsBacked'
    BY <2>1, <2>2 DEF CreateExecution, CountInv, RowsBacked, Backed, TypeInv, TypeOK
  <2>3. RowsBacked'
    BY <1>2, <2>1, <2>2 DEF Producer, InsertTasks, AbandonEnqueue, CountInv, RowsBacked
  <2> QED BY <2>1, <2>3 DEF CountInv, CopiesBacked, Busy, Of
<1>3. ASSUME NEW k \in Tasks, Rescue(k) \/ Retry(k)
      PROVE  CountInv'
  BY <1>3, CountKept, NoGrowth DEF Rescue, Retry, history, Busy, Of
<1>4. ASSUME NEW s \in Slots, NEW k \in Tasks, Claim(s, k)
      PROVE  CountInv'
  <2>1. /\ run'[s].rec = NoRow /\ run'[s].task = k /\ Busy(s)'
        /\ \A r \in Slots : r # s => run'[r] = run[r]
        /\ UNCHANGED <<execution, oks, errs>>
    BY <1>4 DEF Claim, Busy, TypeInv, TypeOK
  <2>2. \A r \in Slots : Busy(r)' => Backed(run'[r].rec, oks'[Of(r)'], errs'[Of(r)'])
    <3>1. Backed(NoRow, oks[k[1]], errs[k[1]])
      BY DEF Backed, NoRow, Tasks, TypeInv, TypeOK
    <3> QED BY <2>1, <3>1 DEF CountInv, CopiesBacked, Busy, Of
  <2> QED BY <2>1, <2>2 DEF CountInv, RowsBacked, CopiesBacked
<1>5. ASSUME NEW s \in Slots, ExecuteTarget(s)
      PROVE  CountInv'
  BY <1>5, CountExecuteTarget
<1>6. ASSUME NEW s \in Slots, JobTimeout(s)
      PROVE  CountInv'
  <2>1. \A r \in Slots : /\ run'[r].pc = run[r].pc /\ run'[r].task = run[r].task
                         /\ run'[r].rec = run[r].rec
    BY <1>6 DEF JobTimeout, TypeInv, TypeOK, Run
  <2> QED BY <1>6, <2>1, CountKept, NoGrowth DEF JobTimeout, history, Busy, Of
<1>7. ASSUME NEW x \in Executors, Executor(x)
      PROVE  CountInv'
  <2>1. CASE SigTerm(x)
    <3>1. \A r \in Slots : /\ run'[r].pc = run[r].pc /\ run'[r].task = run[r].task
                           /\ run'[r].rec = run[r].rec
      BY <2>1 DEF SigTerm, TypeInv, TypeOK, Run
    <3> QED BY <2>1, <3>1, CountKept, NoGrowth DEF SigTerm, history, Busy, Of
  <2>2. CASE Crash(x)
    <3>1. \A r \in Slots : Busy(r)' => run'[r] = run[r] /\ Busy(r)
      BY <2>2 DEF Crash, NoRun, Busy
    <3> QED BY <2>2, <3>1, CountKept, NoGrowth DEF Crash, Of
  <2>3. CASE Stopped(x) \/ StartExecutor(x)
    BY <2>3, CountKept, NoGrowth DEF Stopped, StartExecutor, history, Busy, Of
  <2> QED BY <1>7, <2>1, <2>2, <2>3 DEF Executor
<1> QED BY <1>1, <1>2, <1>3, <1>4, <1>5, <1>6, <1>7 DEF Next

\* The counters of a row never claim an outcome no run of the execution had, and a
\* final status comes with an outcome of its kind, whatever stale copies the runs of
\* ExecuteTarget write over each other.
THEOREM CountersBacked == Spec => []CountersAreOutcomes
<1>1. Init => CountInv
  <2>1. Init => RowsBacked /\ CopiesBacked
    BY DEF Init, RowsBacked, CopiesBacked, Backed, NoRow, NoRun, Busy
  <2> QED BY <2>1, TypeInit DEF CountInv
<1>2. CountInv /\ [Next]_vars => CountInv'
  BY TypeStep, CountStep DEF CountInv
<1>3. CountInv => CountersAreOutcomes
  BY CountersAreBacked DEF CountInv
<1> QED BY <1>1, <1>2, <1>3, PTL DEF Spec

----------------------------------------------------------------------------
(* Only a claimed task is run, and only a run or a producer writes the row.  *)

BusyClaimed == \A s \in Slots : Busy(s) => task[run[s].task].state # "none"

\* No step takes a task out of the queue's table.
LEMMA TaskStays ==
  ASSUME TypeInv, [Next]_vars, NEW k \in Tasks, task[k].state # "none"
  PROVE  task'[k].state # "none"
<1>0. task \in [Tasks -> Task]
  BY DEF TypeInv, TypeOK
<1>1. \A j \in Tasks : AfterError(j) # "none"
  BY DEF AfterError
<1>2. CASE UNCHANGED task
  BY <1>2
<1>3. ASSUME NEW e \in Executions, Producer(e)
      PROVE  task'[k].state # "none"
  <2>1. CASE \E answer \in {"accepted", "rejected"} : InsertTasks(e, answer)
    <3>1. task'[k] = task[k] \/ task'[k] = [task[k] EXCEPT !.state = "available"]
      BY <2>1 DEF InsertTasks
    <3> QED BY <1>0, <3>1 DEF Task
  <2>2. CASE ~\E answer \in {"accepted", "rejected"} : InsertTasks(e, answer)
    BY <1>2, <1>3, <2>2 DEF Producer, CreateExecution, AbandonEnqueue
  <2> QED BY <2>1, <2>2
<1>4. ASSUME NEW j \in Tasks, Rescue(j) \/ Retry(j) \/ \E s \in Slots : Claim(s, j)
      PROVE  task'[k].state # "none"
  BY <1>0, <1>1, <1>4 DEF Rescue, Retry, Claim, Task
<1>5. ASSUME NEW s \in Slots, Finish(s)
      PROVE  task'[k].state # "none"
  <2>1. CASE UNCHANGED task
    BY <2>1
  <2>2. ASSUME NEW state, state # "none",
               task' = [task EXCEPT ![run[s].task].state = state]
        PROVE  task'[k].state # "none"
    BY <1>0, <2>2 DEF Task
  <2>3. run[s].task \in Tasks
    BY <1>5, TypeOfRun DEF Finish, Points
  <2> QED BY <1>1, <1>5, <2>1, <2>2, <2>3 DEF Finish
<1>6. ASSUME NEW s \in Slots, ExecuteTarget(s), ~Finish(s)
      PROVE  UNCHANGED task
  BY <1>6 DEF ExecuteTarget, ReadExecution, WriteRunning, LoadJobAndTarget, StepsSucceed,
              StepsFail, WriteSucceeded, RereadExecution, WriteFailed
<1>7. ASSUME NEW s \in Slots, JobTimeout(s)
      PROVE  UNCHANGED task
  BY <1>7 DEF JobTimeout
<1>8. ASSUME NEW x \in Executors, Executor(x)
      PROVE  UNCHANGED task
  BY <1>8 DEF Executor, SigTerm, Stopped, Crash, StartExecutor
<1>9. CASE UNCHANGED vars
  BY <1>2, <1>9 DEF vars
<1>10. ASSUME NEW s \in Slots, ExecuteTarget(s)
       PROVE  task'[k].state # "none"
  BY <1>2, <1>5, <1>6, <1>10
<1>11. ASSUME NEW s \in Slots, JobTimeout(s)
       PROVE  task'[k].state # "none"
  BY <1>2, <1>7, <1>11
<1>12. ASSUME NEW x \in Executors, Executor(x)
       PROVE  task'[k].state # "none"
  BY <1>2, <1>8, <1>12
<1> QED BY <1>3, <1>4, <1>9, <1>10, <1>11, <1>12 DEF Next

\* A slot that is busy after a step held the same task before it, or claims one.
LEMMA SlotStays ==
  ASSUME TypeInv, [Next]_vars, NEW s \in Slots, Busy(s)'
  PROVE  \/ Busy(s) /\ run'[s].task = run[s].task
         \/ \E k \in Tasks : Claim(s, k)
<1>0. run \in [Slots -> Run]
  BY DEF TypeInv, TypeOK
<1>2. ASSUME NEW e \in Executions, Producer(e)
      PROVE  UNCHANGED run
  BY <1>2 DEF Producer, CreateExecution, InsertTasks, AbandonEnqueue
<1>3. ASSUME NEW k \in Tasks, Rescue(k) \/ Retry(k)
      PROVE  UNCHANGED run
  BY <1>3 DEF Rescue, Retry
<1>4. ASSUME NEW r \in Slots, NEW k \in Tasks, Claim(r, k), r # s
      PROVE  run'[s] = run[s]
  BY <1>0, <1>4 DEF Claim
<1>5. ASSUME NEW r \in Slots, ExecuteTarget(r)
      PROVE  Busy(s) /\ run'[s].task = run[s].task
  <2>0. run[r].pc \in Points
    BY <1>5 DEF ExecuteTarget, ReadExecution, WriteRunning, LoadJobAndTarget, StepsSucceed,
           StepsFail, WriteSucceeded, RereadExecution, WriteFailed, Finish, At, Points
  <2>1. CASE Finish(r)
    BY <1>0, <2>1 DEF Finish, NoRun, Busy
  <2>2. CASE ~Finish(r)
    <3>1. \E pc, row : Goto(r, pc) \/ Hold(r, pc, row)
      BY <1>5, <2>2 DEF ExecuteTarget, ReadExecution, WriteRunning, LoadJobAndTarget,
           StepsSucceed, StepsFail, WriteSucceeded, RereadExecution, WriteFailed
    <3>2. run'[r].task = run[r].task /\ (r # s => run'[s] = run[s])
      BY <3>1, RunEffect
    <3> QED BY <2>0, <3>2 DEF Busy, Points
  <2> QED BY <2>1, <2>2
<1>6. ASSUME NEW r \in Slots, JobTimeout(r)
      PROVE  Busy(s) /\ run'[s].task = run[s].task
  BY <1>0, <1>6 DEF JobTimeout, Busy, Run
<1>7. ASSUME NEW x \in Executors, Executor(x)
      PROVE  Busy(s) /\ run'[s].task = run[s].task
  <2>1. CASE SigTerm(x)
    BY <1>0, <2>1 DEF SigTerm, Busy, Run
  <2>2. CASE Crash(x)
    BY <2>2 DEF Crash, NoRun, Busy
  <2>3. CASE Stopped(x) \/ StartExecutor(x)
    BY <2>3 DEF Stopped, StartExecutor, Busy
  <2> QED BY <1>7, <2>1, <2>2, <2>3 DEF Executor
<1> DEFINE Goal == \/ Busy(s) /\ run'[s].task = run[s].task
                   \/ \E k \in Tasks : Claim(s, k)
<1>8. ASSUME run'[s] = run[s]
      PROVE  Goal
  BY <1>8 DEF Busy
<1>9. ASSUME UNCHANGED vars
      PROVE  Goal
  BY <1>8, <1>9 DEF vars
<1>10. ASSUME NEW e \in Executions, Producer(e)
       PROVE  Goal
  BY <1>2, <1>8, <1>10
<1>11. ASSUME NEW k \in Tasks, Rescue(k) \/ Retry(k)
       PROVE  Goal
  BY <1>3, <1>8, <1>11
<1>12. ASSUME NEW r \in Slots, NEW k \in Tasks, Claim(r, k)
       PROVE  Goal
  <2>1. CASE r = s
    BY <1>12, <2>1
  <2>2. CASE r # s
    BY <1>4, <1>8, <1>12, <2>2
  <2> QED BY <2>1, <2>2
<1>13. (\E r \in Slots : ExecuteTarget(r) \/ JobTimeout(r)) => Goal
  BY <1>5, <1>6
<1>14. (\E x \in Executors : Executor(x)) => Goal
  BY <1>7
<1> HIDE DEF Goal
<1>15. Goal
  BY <1>9, <1>10, <1>11, <1>12, <1>13, <1>14 DEF Next
<1> QED BY <1>15 DEF Goal

LEMMA BusyClaimedStep ==
  TypeInv /\ BusyClaimed /\ [Next]_vars => BusyClaimed'
<1> SUFFICES ASSUME TypeInv, BusyClaimed, [Next]_vars, NEW s \in Slots, Busy(s)'
             PROVE  task'[run'[s].task].state # "none"
  BY DEF BusyClaimed
<1>1. CASE Busy(s) /\ run'[s].task = run[s].task
  <2>1. run[s].task \in Tasks
    BY <1>1 DEF TypeInv, BusyHasTask
  <2> QED BY <1>1, <2>1, TaskStays DEF BusyClaimed
<1>2. ASSUME NEW k \in Tasks, Claim(s, k)
      PROVE  task'[run'[s].task].state # "none"
  BY <1>2 DEF Claim, TypeInv, TypeOK, Task
<1> QED BY <1>1, <1>2, SlotStays

\* A row changes only when it is created, or under a run of its execution.
LEMMA RowWriters ==
  ASSUME TypeInv, [Next]_vars, NEW e \in Executions, execution'[e] # execution[e]
  PROVE  \/ \E matched \in SUBSET Targets : CreateExecution(e, matched)
         \/ \E s \in Slots : Works(s, e)
<1>0. execution \in [Executions -> Row]
  BY DEF TypeInv, TypeOK
<1>1. ASSUME NEW d \in Executions, NEW matched \in SUBSET Targets, CreateExecution(d, matched)
      PROVE  d = e
  BY <1>0, <1>1 DEF CreateExecution
<1>2. ASSUME NEW d \in Executions, Producer(d)
      PROVE  \E matched \in SUBSET Targets : CreateExecution(e, matched)
  BY <1>1, <1>2 DEF Producer, InsertTasks, AbandonEnqueue
<1>3. ASSUME NEW s \in Slots, ExecuteTarget(s)
      PROVE  Works(s, e)
  <2>1. run[s].pc \in Points /\ UpdateExecution(s)
    BY <1>3 DEF ExecuteTarget, ReadExecution, WriteRunning, LoadJobAndTarget, StepsSucceed,
         StepsFail, WriteSucceeded, RereadExecution, WriteFailed, Finish, FinalWrite, At, Points
  <2>2. Busy(s) /\ Of(s) = e
    BY <1>0, <2>1, TypeOfRun DEF UpdateExecution
  <2> QED BY <2>2 DEF Works
<1>4. ASSUME \/ \E k \in Tasks : Rescue(k) \/ Retry(k) \/ \E s \in Slots : Claim(s, k)
             \/ \E s \in Slots : JobTimeout(s)
             \/ \E x \in Executors : Executor(x)
      PROVE  UNCHANGED execution
  BY <1>4 DEF Rescue, Retry, Claim, JobTimeout, Executor, SigTerm, Stopped, Crash, StartExecutor
<1> QED BY <1>2, <1>3, <1>4 DEF Next, vars

OrphanInv == TypeInv /\ BusyClaimed /\ OrphanStaysQueued

\* An execution whose tasks were never inserted stays queued with empty counters,
\* whatever becomes of the executions whose tasks were: EnqueueExecutionWithOptions
\* that fails between CreateExecution and the commit leaves nothing else behind.
THEOREM OrphansQueued == Spec => []OrphanStaysQueued
<1>1. Init => OrphanInv
  <2>1. Init => BusyClaimed /\ OrphanStaysQueued
    BY DEF Init, BusyClaimed, OrphanStaysQueued, Works, Busy, NoRun, NoRow
  <2> QED BY <2>1, TypeInit DEF OrphanInv
<1>2. OrphanInv /\ [Next]_vars => OrphanInv'
  <2> SUFFICES ASSUME OrphanInv, [Next]_vars
               PROVE  OrphanInv'
    OBVIOUS
  <2>0. TypeInv /\ BusyClaimed /\ TypeInv' /\ BusyClaimed'
    BY TypeStep, BusyClaimedStep DEF OrphanInv
  <2>1. ASSUME NEW e \in Executions, \A t \in Targets : task'[<<e, t>>].state = "none"
        PROVE  /\ execution'[e].status \in {"none", "queued"}
               /\ execution'[e].succeeded + execution'[e].failed = 0
               /\ \A s \in Slots : ~Works(s, e)'
    <3>1. \A t \in Targets : task[<<e, t>>].state = "none"
      BY <2>0, <2>1, TaskStays DEF Tasks
    <3>2. \A s \in Slots : ~Works(s, e) /\ ~Works(s, e)'
      <4>1. \A s \in Slots : Busy(s) => run[s].task \in Tasks
        BY <2>0 DEF TypeInv, BusyHasTask
      <4>2. \A s \in Slots : Busy(s)' => run'[s].task \in Tasks
        BY <2>0 DEF TypeInv, BusyHasTask
      <4> QED BY <2>0, <2>1, <3>1, <4>1, <4>2 DEF BusyClaimed, Works, Of, Tasks
    <3>3. CASE execution'[e] = execution[e]
      BY <3>1, <3>2, <3>3 DEF OrphanInv, OrphanStaysQueued
    <3>4. ASSUME NEW matched \in SUBSET Targets, CreateExecution(e, matched)
          PROVE  /\ execution'[e].status = "queued"
                 /\ execution'[e].succeeded = 0 /\ execution'[e].failed = 0
      BY <2>0, <3>4 DEF CreateExecution, TypeInv, TypeOK
    <3> QED BY <2>0, <3>2, <3>3, <3>4, RowWriters
  <2>2. OrphanStaysQueued'
    BY <2>1 DEF OrphanStaysQueued
  <2> QED BY <2>0, <2>2 DEF OrphanInv
<1>3. OrphanInv => OrphanStaysQueued
  BY DEF OrphanInv
<1> QED BY <1>1, <1>2, <1>3, PTL DEF Spec

----------------------------------------------------------------------------
(* One task, one run, unless River has taken the task away.                  *)

\* What an idle slot holds is nothing.
IdleHasNone == \A s \in Slots : ~Busy(s) => run[s] = NoRun

\* A task that is being run is running in the queue, too, until it is rescued.
HeldIsRunning ==
  \A s \in Slots :
    Busy(s) => task[run[s].task].rescued \/ task[run[s].task].state = "running"

\* Who changes a task: its producer, a claim, the end of its run, or River.
LEMMA TaskWriters ==
  ASSUME TypeInv, [Next]_vars, NEW k \in Tasks, task'[k] # task[k]
  PROVE  \/ /\ k[2] \in enqueue[k[1]].targets
            /\ \E answer \in {"accepted", "rejected"} : InsertTasks(k[1], answer)
         \/ \E s \in Slots : Claim(s, k)
         \/ \E s \in Slots : Finish(s) /\ run[s].task = k /\ task[k].state = "running"
         \/ Rescue(k) \/ Retry(k)
<1>0. task \in [Tasks -> Task]
  BY DEF TypeInv, TypeOK
<1>1. ASSUME NEW e \in Executions, Producer(e)
      PROVE  /\ k[2] \in enqueue[k[1]].targets
             /\ \E answer \in {"accepted", "rejected"} : InsertTasks(k[1], answer)
  <2>1. PICK answer \in {"accepted", "rejected"} : InsertTasks(e, answer)
    BY <1>1 DEF Producer, CreateExecution, AbandonEnqueue
  <2>2. k[1] = e /\ k[2] \in enqueue[e].targets
    BY <2>1 DEF InsertTasks
  <2> QED BY <2>1, <2>2
<1>2. ASSUME NEW s \in Slots, ExecuteTarget(s)
      PROVE  Finish(s) /\ run[s].task = k /\ task[k].state = "running"
  <2>1. Finish(s)
    BY <1>2 DEF ExecuteTarget, ReadExecution, WriteRunning, LoadJobAndTarget, StepsSucceed,
                StepsFail, WriteSucceeded, RereadExecution, WriteFailed
  <2> QED BY <1>0, <2>1 DEF Finish
<1>3. ASSUME NEW j \in Tasks, Rescue(j) \/ Retry(j) \/ \E s \in Slots : Claim(s, j)
      PROVE  j = k
  BY <1>0, <1>3 DEF Rescue, Retry, Claim
<1>4. ASSUME \/ \E s \in Slots : JobTimeout(s)
             \/ \E x \in Executors : Executor(x)
             \/ UNCHANGED vars
      PROVE  UNCHANGED task
  BY <1>4 DEF JobTimeout, Executor, SigTerm, Stopped, Crash, StartExecutor, vars
<1> QED BY <1>1, <1>2, <1>3, <1>4 DEF Next

\* A task that was rescued stays marked.
LEMMA RescuedStays ==
  ASSUME TypeInv, [Next]_vars, NEW k \in Tasks, task[k].rescued
  PROVE  task'[k].rescued
<1>0. task \in [Tasks -> Task]
  BY DEF TypeInv, TypeOK
<1>1. CASE task'[k] = task[k]
  BY <1>1
<1>2. ASSUME NEW answer, InsertTasks(k[1], answer)
      PROVE  task'[k].rescued
  <2>1. task'[k] = task[k] \/ task'[k] = [task[k] EXCEPT !.state = "available"]
    BY <1>2 DEF InsertTasks
  <2> QED BY <1>0, <2>1 DEF Task
<1>3. ASSUME NEW s \in Slots, Claim(s, k)
      PROVE  task'[k].rescued
  BY <1>0, <1>3 DEF Claim, Task
<1>4. ASSUME NEW s \in Slots, Finish(s), run[s].task = k
      PROVE  task'[k].rescued
  <2>1. task' = task \/ \E state : task' = [task EXCEPT ![k].state = state]
    BY <1>4 DEF Finish
  <2> QED BY <1>0, <2>1 DEF Task
<1>5. CASE Rescue(k) \/ Retry(k)
  BY <1>0, <1>5 DEF Rescue, Retry, Task
<1> QED BY <1>1, <1>2, <1>3, <1>4, <1>5, TaskWriters

LEMMA IdleStep == TypeInv /\ IdleHasNone /\ [Next]_vars => IdleHasNone'
<1> SUFFICES ASSUME TypeInv, IdleHasNone, [Next]_vars, NEW s \in Slots, ~Busy(s)'
             PROVE  run'[s] = NoRun
  BY DEF IdleHasNone
<1>0. run \in [Slots -> Run]
  BY DEF TypeInv, TypeOK
<1>1. CASE run'[s] = run[s]
  BY <1>1 DEF IdleHasNone, Busy
<1>2. ASSUME NEW e \in Executions, Producer(e)
      PROVE  run' = run
  BY <1>2 DEF Producer, CreateExecution, InsertTasks, AbandonEnqueue
<1>3. ASSUME NEW k \in Tasks, Rescue(k) \/ Retry(k)
      PROVE  run' = run
  BY <1>3 DEF Rescue, Retry
<1>4. ASSUME NEW r \in Slots, NEW k \in Tasks, Claim(r, k)
      PROVE  run'[s] = run[s]
  BY <1>0, <1>4 DEF Claim, Busy
<1>5. ASSUME NEW r \in Slots, ExecuteTarget(r)
      PROVE  run'[s] = NoRun \/ run'[s] = run[s]
  <2>1. CASE Finish(r)
    BY <1>0, <2>1 DEF Finish
  <2>2. CASE ~Finish(r)
    <3>1. PICK pc \in Points : \E row : Goto(r, pc) \/ Hold(r, pc, row)
      BY <1>5, <2>2 DEF ExecuteTarget, ReadExecution, WriteRunning, LoadJobAndTarget,
           StepsSucceed, StepsFail, WriteSucceeded, RereadExecution, WriteFailed, Points
    <3>2. run'[r].pc = pc /\ (r # s => run'[s] = run[s])
      BY <3>1, RunEffect
    <3> QED BY <3>2 DEF Busy, Points
  <2> QED BY <2>1, <2>2
<1>6. ASSUME NEW r \in Slots, JobTimeout(r)
      PROVE  run'[s] = run[s]
  BY <1>0, <1>6 DEF JobTimeout, Busy, Run
<1>7. ASSUME NEW x \in Executors, Executor(x)
      PROVE  run'[s] = NoRun \/ run'[s] = run[s]
  BY <1>0, <1>7 DEF Executor, SigTerm, Stopped, Crash, StartExecutor, Busy, Run
<1>8. UNCHANGED vars => run' = run
  BY DEF vars
<1> QED BY <1>1, <1>2, <1>3, <1>4, <1>5, <1>6, <1>7, <1>8 DEF Next

SoleInv == TypeInv /\ IdleHasNone /\ HeldIsRunning /\ SoleRunUnlessRescued

LEMMA SoleStep == SoleInv /\ [Next]_vars => SoleInv'
<1> SUFFICES ASSUME SoleInv, [Next]_vars
             PROVE  SoleInv'
  OBVIOUS
<1>1. TypeInv /\ TypeInv' /\ IdleHasNone'
  BY TypeStep, IdleStep DEF SoleInv
<1>2. /\ \A s \in Slots : Busy(s) => run[s].task \in Tasks
      /\ \A s \in Slots : Busy(s)' => run'[s].task \in Tasks
      /\ task \in [Tasks -> Task] /\ task' \in [Tasks -> Task] /\ run \in [Slots -> Run]
  BY <1>1 DEF TypeInv, TypeOK, BusyHasTask
<1>3. SoleRunUnlessRescued'
  <2> SUFFICES ASSUME NEW r \in Slots, NEW s \in Slots, r # s, Busy(r)',
                      run'[r].task = run'[s].task
               PROVE  task'[run'[s].task].rescued
    BY DEF SoleRunUnlessRescued
  <2>1. PICK k \in Tasks : k = run'[r].task /\ k = run'[s].task
    BY <1>2
  <2>2. Busy(s)'
    BY <1>1, <2>1, BoundsAssumption DEF IdleHasNone, NoRun, Tasks
  <2>3. ASSUME NEW p \in Slots, NEW q \in Slots, p # q, {p, q} = {r, s},
               Busy(p), run[p].task = k, NEW j \in Tasks, Claim(q, j)
        PROVE  task[k].rescued
    <3>1. j = k
      BY <1>2, <2>1, <2>3 DEF Claim
    <3> QED BY <1>2, <2>3, <3>1 DEF Claim, SoleInv, HeldIsRunning
  <2>4. ASSUME NEW i \in Tasks, NEW j \in Tasks, Claim(r, i), Claim(s, j)
        PROVE  FALSE
    BY <1>2, <2>2, <2>4 DEF Claim, Busy
  <2>5. ASSUME Busy(r), Busy(s), run[r].task = k, run[s].task = k
        PROVE  task[k].rescued
    BY <2>5 DEF SoleInv, SoleRunUnlessRescued
  <2>6. task[k].rescued
    <3>1. (Busy(r) /\ run[r].task = k) \/ \E j \in Tasks : Claim(r, j)
      BY <1>1, <2>1, SlotStays
    <3>2. (Busy(s) /\ run[s].task = k) \/ \E j \in Tasks : Claim(s, j)
      BY <1>1, <2>1, <2>2, SlotStays
    <3> QED BY <2>3, <2>4, <2>5, <3>1, <3>2
  <2> QED BY <1>1, <2>1, <2>6, RescuedStays
<1>4. HeldIsRunning'
  <2> SUFFICES ASSUME NEW s \in Slots, Busy(s)', NEW k \in Tasks, k = run'[s].task,
                      ~task'[k].rescued
               PROVE  task'[k].state = "running"
    BY <1>2 DEF HeldIsRunning
  <2>1. ASSUME NEW j \in Tasks, Claim(s, j)
        PROVE  task'[k].state = "running"
    BY <1>2, <2>1 DEF Claim, Task
  <2>2. CASE Busy(s) /\ run[s].task = k
    <3>1. task[k].state = "running" /\ ~task[k].rescued
      BY <1>1, <2>2, RescuedStays DEF SoleInv, HeldIsRunning
    <3>2. ASSUME NEW r \in Slots, Finish(r), run[r].task = k
          PROVE  FALSE
      <4>1. r # s
        BY <1>2, <3>2 DEF Finish, Busy, NoRun
      <4>2. Busy(r)
        BY <3>2 DEF Finish, Busy
      <4> QED BY <2>2, <3>1, <3>2, <4>1, <4>2 DEF SoleInv, SoleRunUnlessRescued
    <3>3. ASSUME NEW answer, InsertTasks(k[1], answer)
          PROVE  FALSE
      BY <1>1, <3>1, <3>3 DEF InsertTasks, TypeInv, NotInserted, Tasks
    <3>4. Rescue(k) => task'[k].rescued
      BY <1>2 DEF Rescue, Task
    <3>5. task'[k] = task[k]
      BY <1>1, <3>1, <3>2, <3>3, <3>4, TaskWriters DEF Claim, Retry
    <3> QED BY <3>1, <3>5
  <2> QED BY <1>1, <2>1, <2>2, SlotStays
<1> QED BY <1>1, <1>3, <1>4 DEF SoleInv

\* Two slots run the same task only after River has rescued it from one of them: as long
\* as it is not rescued it is "running" in the queue, so nobody can claim it.
THEOREM RunsAreSole == Spec => []SoleRunUnlessRescued
<1>1. Init => SoleInv
  <2>1. Init => IdleHasNone /\ HeldIsRunning /\ SoleRunUnlessRescued
    BY DEF Init, IdleHasNone, HeldIsRunning, SoleRunUnlessRescued, Busy, NoRun
  <2> QED BY <2>1, TypeInit DEF SoleInv
<1>2. SoleInv => SoleRunUnlessRescued
  BY DEF SoleInv
<1> QED BY <1>1, <1>2, SoleStep, PTL DEF Spec

----------------------------------------------------------------------------
(* All of its tasks or none, and a record that is final.                     *)

\* The tasks there are belong to targets their execution has matched; once it has one
\* it has them all, and a caller that was given the id finds them.
TasksMatched ==
  \A e \in Executions :
    /\ \A t \in Targets : task[<<e, t>>].state # "none" => t \in enqueue[e].targets
    /\ (\E t \in Targets : task[<<e, t>>].state # "none") \/ enqueue[e].step = "accepted" =>
         /\ enqueue[e].targets # {}
         /\ \A t \in enqueue[e].targets : task[<<e, t>>].state # "none"

\* The copies in flight have the total of the row.
TotalsAgree ==
  \A s \in Slots :
    Busy(s) /\ run[s].rec # NoRow => run[s].rec.total = execution[Of(s)].total

TotalIsMatched ==
  \A e \in Executions :
    enqueue[e].step # "new" => execution[e].total = Cardinality(enqueue[e].targets)

\* A producer moves an enqueue, and leaves it alone once its tasks are there.
LEMMA EnqueueWriters ==
  ASSUME TypeInv, [Next]_vars, NEW e \in Executions, enqueue'[e] # enqueue[e]
  PROVE  \/ \E matched \in SUBSET Targets : CreateExecution(e, matched)
         \/ \E answer \in {"accepted", "rejected"} : InsertTasks(e, answer)
         \/ AbandonEnqueue(e)
<1>0. enqueue \in [Executions -> Enqueue]
  BY DEF TypeInv, TypeOK
<1>1. ASSUME NEW d \in Executions, Producer(d)
      PROVE  d = e
  BY <1>0, <1>1 DEF Producer, CreateExecution, InsertTasks, AbandonEnqueue
<1>2. ASSUME NEW s \in Slots, ExecuteTarget(s)
      PROVE  UNCHANGED enqueue
  BY <1>2 DEF ExecuteTarget, ReadExecution, WriteRunning, LoadJobAndTarget, StepsSucceed,
              StepsFail, WriteSucceeded, RereadExecution, WriteFailed, Finish
<1>3. ASSUME \/ \E k \in Tasks : Rescue(k) \/ Retry(k) \/ \E s \in Slots : Claim(s, k)
             \/ \E s \in Slots : JobTimeout(s)
             \/ \E x \in Executors : Executor(x)
             \/ UNCHANGED vars
      PROVE  UNCHANGED enqueue
  BY <1>3 DEF Rescue, Retry, Claim, JobTimeout, Executor, SigTerm, Stopped, Crash, StartExecutor, vars
<1> QED BY <1>1, <1>2, <1>3 DEF Next, Producer

LEMMA MatchedStep == TypeInv /\ TasksMatched /\ [Next]_vars => TasksMatched'
<1> SUFFICES ASSUME TypeInv, TasksMatched, [Next]_vars, NEW e \in Executions
             PROVE  /\ \A t \in Targets : task'[<<e, t>>].state # "none" => t \in enqueue'[e].targets
                    /\ (\E t \in Targets : task'[<<e, t>>].state # "none") \/ enqueue'[e].step = "accepted" =>
                         /\ enqueue'[e].targets # {}
                         /\ \A t \in enqueue'[e].targets : task'[<<e, t>>].state # "none"
  BY DEF TasksMatched
<1>0. /\ task \in [Tasks -> Task] /\ enqueue \in [Executions -> Enqueue]
      /\ \A t \in Targets : <<e, t>> \in Tasks
      /\ enqueue[e].targets \subseteq Targets
  BY DEF TypeInv, TypeOK, Tasks, Enqueue
<1>1. ASSUME NEW answer \in {"accepted", "rejected"}, InsertTasks(e, answer)
      PROVE  /\ enqueue'[e].targets = enqueue[e].targets /\ enqueue[e].targets # {}
             /\ \A t \in Targets : task'[<<e, t>>].state # "none" <=> t \in enqueue[e].targets
  <2>1. enqueue[e].targets # {} /\ \A t \in Targets : task[<<e, t>>].state = "none"
    BY <1>1 DEF InsertTasks, TypeInv, NotInserted
  <2>2. ASSUME NEW t \in Targets
        PROVE  task'[<<e, t>>].state # "none" <=> t \in enqueue[e].targets
    <3>1. task'[<<e, t>>] = IF t \in enqueue[e].targets
                            THEN [task[<<e, t>>] EXCEPT !.state = "available"] ELSE task[<<e, t>>]
      BY <1>0, <1>1 DEF InsertTasks
    <3> QED BY <1>0, <2>1, <3>1 DEF Task
  <2> QED BY <1>0, <1>1, <2>1, <2>2 DEF InsertTasks, Enqueue
<1>2. ASSUME ~\E answer \in {"accepted", "rejected"} : InsertTasks(e, answer)
      PROVE  \A t \in Targets : task'[<<e, t>>].state # "none" <=> task[<<e, t>>].state # "none"
  <2> SUFFICES ASSUME NEW t \in Targets, task[<<e, t>>].state = "none", task'[<<e, t>>] # task[<<e, t>>]
               PROVE  FALSE
    BY <1>0, TaskStays
  <2> QED BY <1>0, <1>2, TaskWriters DEF Claim, Rescue, Retry
<1>3. CASE \E answer \in {"accepted", "rejected"} : InsertTasks(e, answer)
  BY <1>0, <1>1, <1>3
<1>4. CASE ~\E answer \in {"accepted", "rejected"} : InsertTasks(e, answer)
  <2>1. CASE enqueue'[e] = enqueue[e]
    BY <1>0, <1>2, <1>4, <2>1 DEF TasksMatched
  <2>2. CASE enqueue'[e] # enqueue[e]
    <3>1. \A t \in Targets : task[<<e, t>>].state = "none"
      BY <1>4, <2>2, EnqueueWriters DEF CreateExecution, AbandonEnqueue, TypeInv, NotInserted
    <3>2. enqueue'[e].step # "accepted"
      BY <1>0, <1>4, <2>2, EnqueueWriters DEF CreateExecution, AbandonEnqueue, Enqueue
    <3> QED BY <1>2, <1>4, <3>1, <3>2
  <2> QED BY <2>1, <2>2
<1> QED BY <1>3, <1>4

FinalInv == TypeInv /\ TasksMatched

\* Once every task of an execution is completed or discarded and no run is left, nothing
\* changes the row any more: a task that has ended is not claimed, retried or rescued, and
\* the execution gets no other task.
THEOREM RecordsAreFinal == Spec => EndedRecordIsFinal
<1>1. FinalInv /\ [Next]_vars =>
        \A e \in Executions : Ended(e) => Ended(e)' /\ execution'[e] = execution[e]
  <2> SUFFICES ASSUME FinalInv, [Next]_vars, NEW e \in Executions, Ended(e)
               PROVE  Ended(e)' /\ execution'[e] = execution[e]
    OBVIOUS
  <2>0. /\ TypeInv /\ TasksMatched /\ TypeInv'
        /\ task \in [Tasks -> Task] /\ enqueue \in [Executions -> Enqueue]
        /\ \A t \in Targets : <<e, t>> \in Tasks
        /\ enqueue[e].targets \subseteq Targets
    BY TypeStep DEF FinalInv, TypeInv, TypeOK, Tasks, Enqueue
  <2>1. PICK u \in Inserted(e) : u \in Targets /\ task[<<e, u>>].state # "none"
    BY <2>0 DEF Ended, Inserted
  <2>2. enqueue'[e] = enqueue[e] /\ enqueue[e].step \notin {"new", "created"}
    <3>1. enqueue[e].step \notin {"new", "created"}
      BY <2>0, <2>1 DEF TypeInv, NotInserted
    <3> QED BY <2>0, <3>1, EnqueueWriters DEF CreateExecution, InsertTasks, AbandonEnqueue
  <2>3. \A t \in Inserted(e) : task[<<e, t>>].state \in {"completed", "discarded"} /\ t \in Targets
    BY <2>0 DEF Ended, TaskEnded, Inserted
  <2>4. \A s \in Slots : Busy(s) => run[s].task[1] # e
    BY DEF Ended, Works, Of
  <2>5. ASSUME NEW t \in Targets
        PROVE  task'[<<e, t>>] = task[<<e, t>>]
    <3>1. task[<<e, t>>].state \in {"none", "completed", "discarded"}
      BY <2>0, <2>3 DEF TasksMatched, Inserted
    <3>2. <<e, t>> \in Tasks /\ <<e, t>>[1] = e
      BY <2>0
    <3> QED BY <2>0, <2>2, <3>1, <3>2, TaskWriters DEF InsertTasks, Claim, Finish, Rescue, Retry
  <2>6. Inserted(e)' = Inserted(e)
    BY <2>0, <2>2, <2>5 DEF Inserted
  <2>7. \A s \in Slots : ~Works(s, e)'
    <3> SUFFICES ASSUME NEW s \in Slots, Busy(s)', run'[s].task[1] = e
                 PROVE  FALSE
      BY DEF Works, Of
    <3>1. run'[s].task \in Tasks
      BY <2>0 DEF TypeInv, BusyHasTask
    <3>2. PICK t \in Targets : run'[s].task = <<e, t>>
      BY <3>1 DEF Tasks
    <3>3. ASSUME NEW k \in Tasks, Claim(s, k)
          PROVE  FALSE
      <4>1. k = <<e, t>>
        BY <2>0, <3>2, <3>3 DEF Claim, TypeInv, TypeOK
      <4> QED BY <2>0, <2>5, <3>3, <4>1 DEF Claim, Task
    <3> QED BY <2>0, <2>4, <3>3, SlotStays
  <2>8. Ended(e)'
    BY <2>0, <2>1, <2>3, <2>5, <2>6, <2>7 DEF Ended, TaskEnded
  <2>9. execution'[e] = execution[e]
    BY <2>0, <2>2, <2>4, RowWriters DEF CreateExecution, Works, Of
  <2> QED BY <2>8, <2>9
<1>2. Init => FinalInv
  <2>1. Init => TasksMatched
    <3> SUFFICES ASSUME Init, NEW e \in Executions
                 PROVE  /\ \A t \in Targets : task[<<e, t>>].state = "none"
                        /\ enqueue[e].step = "new"
      BY DEF TasksMatched
    <3>1. \A t \in Targets : <<e, t>> \in Tasks
      BY DEF Tasks
    <3> QED BY <3>1 DEF Init
  <2> QED BY <2>1, TypeInit DEF FinalInv
<1>3. FinalInv /\ [Next]_vars => FinalInv'
  BY TypeStep, MatchedStep DEF FinalInv
<1> QED BY <1>1, <1>2, <1>3, PTL DEF Spec, EndedRecordIsFinal

\* Which row a copy will be written over, and what it says of its total.
TotalInv == TypeInv /\ BusyClaimed /\ TasksMatched /\ TotalsAgree /\ TotalIsMatched

\* The total of a row does not change once it is created.
LEMMA TotalKept ==
  ASSUME TypeInv, BusyClaimed, TotalsAgree, CopiesMarked, [Next]_vars,
         NEW e \in Executions, enqueue[e].step # "new"
  PROVE  execution'[e].total = execution[e].total
<1>0. /\ execution \in [Executions -> Row] /\ run \in [Slots -> Run]
  BY DEF TypeInv, TypeOK
<1>1. ASSUME NEW d \in Executions, Producer(d)
      PROVE  execution'[e] = execution[e]
  BY <1>0, <1>1 DEF Producer, CreateExecution, InsertTasks, AbandonEnqueue
<1>2. ASSUME NEW s \in Slots, ExecuteTarget(s)
      PROVE  execution'[e].total = execution[e].total
  <2>1. UNCHANGED execution \/ (UpdateExecution(s) /\ run[s].pc \in {"start", "record", "fail"})
    BY <1>2 DEF ExecuteTarget, ReadExecution, WriteRunning, LoadJobAndTarget, StepsSucceed,
         StepsFail, WriteSucceeded, RereadExecution, WriteFailed, Finish, FinalWrite, At
  <2>2. CASE UpdateExecution(s) /\ run[s].pc \in {"start", "record", "fail"}
    <3>1. run[s].pc \in Points /\ run[s].rec # NoRow
      BY <2>2 DEF CopiesMarked, NoRow, Points
    <3>2. Busy(s) /\ run[s].rec.total = execution[Of(s)].total
      BY <3>1, TypeOfRun DEF TotalsAgree
    <3> QED BY <1>0, <2>2, <3>2 DEF UpdateExecution
  <2> QED BY <2>1, <2>2
<1>3. ASSUME \/ \E k \in Tasks : Rescue(k) \/ Retry(k) \/ \E s \in Slots : Claim(s, k)
             \/ \E s \in Slots : JobTimeout(s)
             \/ \E x \in Executors : Executor(x)
             \/ UNCHANGED vars
      PROVE  UNCHANGED execution
  BY <1>3 DEF Rescue, Retry, Claim, JobTimeout, Executor, SigTerm, Stopped, Crash, StartExecutor, vars
<1> QED BY <1>1, <1>2, <1>3 DEF Next

\* What a run holds after a step: nothing, what it held, or what it made of its copy or of
\* the row it has just read.
LEMMA CopyWriters ==
  ASSUME TypeInv, [Next]_vars, NEW s \in Slots, Busy(s)'
  PROVE  \/ run'[s].rec = NoRow
         \/ Busy(s) /\ run'[s].rec = run[s].rec
         \/ Busy(s) /\ ReadExecution(s) /\ run'[s].rec = Started(execution[Of(s)])
         \/ Busy(s) /\ RereadExecution(s) /\ run'[s].rec = Failed(execution[Of(s)])
         \/ /\ Busy(s) /\ StepsSucceed(s) /\ run[s].rec # NoRow
            /\ run'[s].rec = Succeeded(run[s].rec)
<1>0. run \in [Slots -> Run]
  BY DEF TypeInv, TypeOK
<1>1. CASE run'[s] = run[s]
  BY <1>1 DEF Busy
<1>2. ASSUME NEW k \in Tasks, Claim(s, k)
      PROVE  run'[s].rec = NoRow
  BY <1>0, <1>2 DEF Claim
<1>3. ASSUME NEW r \in Slots, NEW k \in Tasks, Claim(r, k), r # s
      PROVE  run'[s] = run[s]
  BY <1>0, <1>3 DEF Claim
<1>4. ASSUME NEW r \in Slots, ExecuteTarget(r), r # s
      PROVE  run'[s] = run[s]
  <2>1. CASE Finish(r)
    BY <1>0, <1>4, <2>1 DEF Finish
  <2>2. CASE ~Finish(r)
    <3>1. PICK pc, row : Goto(r, pc) \/ Hold(r, pc, row)
      BY <1>4, <2>2 DEF ExecuteTarget, ReadExecution, WriteRunning, LoadJobAndTarget,
           StepsSucceed, StepsFail, WriteSucceeded, RereadExecution, WriteFailed
    <3> QED BY <1>4, <3>1, RunEffect
  <2> QED BY <2>1, <2>2
<1>5. ASSUME ExecuteTarget(s)
      PROVE  \/ run'[s].rec = NoRow
             \/ Busy(s) /\ run'[s].rec = run[s].rec
             \/ Busy(s) /\ ReadExecution(s) /\ run'[s].rec = Started(execution[Of(s)])
             \/ Busy(s) /\ RereadExecution(s) /\ run'[s].rec = Failed(execution[Of(s)])
             \/ /\ Busy(s) /\ StepsSucceed(s) /\ run[s].rec # NoRow
                /\ run'[s].rec = Succeeded(run[s].rec)
  <2>1. Busy(s)
    BY <1>5 DEF ExecuteTarget, ReadExecution, WriteRunning, LoadJobAndTarget, StepsSucceed,
         StepsFail, WriteSucceeded, RereadExecution, WriteFailed, Finish, At, Busy
  <2>2. CASE Finish(s)
    BY <1>0, <2>2 DEF Finish, NoRun
  <2>3. CASE \E pc : Goto(s, pc)
    BY <2>1, <2>3, RunEffect
  <2>4. CASE ReadExecution(s)
    BY <2>1, <2>3, <2>4, RunEffect DEF ReadExecution
  <2>5. CASE RereadExecution(s)
    BY <2>1, <2>3, <2>5, RunEffect DEF RereadExecution
  <2>6. CASE StepsSucceed(s)
    BY <2>1, <2>3, <2>6, RunEffect DEF StepsSucceed
  <2>7. CASE WriteRunning(s) \/ LoadJobAndTarget(s) \/ StepsFail(s) \/ WriteSucceeded(s) \/ WriteFailed(s)
    BY <2>3, <2>7 DEF WriteRunning, LoadJobAndTarget, StepsFail, WriteSucceeded, WriteFailed
  <2> QED BY <1>5, <2>2, <2>4, <2>5, <2>6, <2>7 DEF ExecuteTarget
<1>6. ASSUME NEW r \in Slots, JobTimeout(r)
      PROVE  Busy(s) /\ run'[s].rec = run[s].rec
  BY <1>0, <1>6 DEF JobTimeout, Busy, Run
<1>7. ASSUME NEW x \in Executors, Executor(x)
      PROVE  Busy(s) /\ run'[s].rec = run[s].rec
  <2>1. CASE SigTerm(x)
    BY <1>0, <2>1 DEF SigTerm, Busy, Run
  <2>2. CASE Crash(x)
    BY <2>2 DEF Crash, NoRun, Busy
  <2>3. CASE Stopped(x) \/ StartExecutor(x)
    BY <2>3 DEF Stopped, StartExecutor, Busy
  <2> QED BY <1>7, <2>1, <2>2, <2>3 DEF Executor
<1>8. (\E e \in Executions : Producer(e)) \/ (\E k \in Tasks : Rescue(k) \/ Retry(k)) \/ UNCHANGED vars
        => UNCHANGED run
  BY DEF Producer, CreateExecution, InsertTasks, AbandonEnqueue, Rescue, Retry, vars
<1>9. (\E r \in Slots, k \in Tasks : Claim(r, k)) => run'[s].rec = NoRow \/ run'[s] = run[s]
  BY <1>2, <1>3
<1>10. (\E r \in Slots : JobTimeout(r)) \/ (\E x \in Executors : Executor(x))
         => Busy(s) /\ run'[s].rec = run[s].rec
  BY <1>6, <1>7
<1>11. CASE \E r \in Slots : ExecuteTarget(r)
  <2>1. PICK r \in Slots : ExecuteTarget(r)
    BY <1>11
  <2>2. CASE r = s
    BY <1>5, <2>1, <2>2
  <2>3. CASE r # s
    BY <1>1, <1>4, <2>1, <2>3
  <2> QED BY <2>2, <2>3
<1>12. CASE ~\E r \in Slots : ExecuteTarget(r)
  <2>1. run'[s].rec = NoRow \/ run'[s] = run[s] \/ (Busy(s) /\ run'[s].rec = run[s].rec)
    BY <1>8, <1>9, <1>10, <1>12 DEF Next
  <2> QED BY <1>1, <2>1
<1> QED BY <1>11, <1>12

LEMMA TotalsStep ==
  TypeInv /\ CopiesMarked /\ TotalInv /\ [Next]_vars => TotalsAgree' /\ TotalIsMatched'
<1> SUFFICES ASSUME TypeInv, CopiesMarked, TotalInv, [Next]_vars
             PROVE  TotalsAgree' /\ TotalIsMatched'
  OBVIOUS
<1>0. /\ BusyClaimed /\ TotalsAgree /\ TotalIsMatched
      /\ execution \in [Executions -> Row] /\ enqueue \in [Executions -> Enqueue]
  BY DEF TotalInv, TypeInv, TypeOK
<1>1. TotalsAgree'
  <2> SUFFICES ASSUME NEW s \in Slots, Busy(s)', run'[s].rec # NoRow
               PROVE  run'[s].rec.total = execution'[Of(s)'].total
    BY DEF TotalsAgree
  <2>1. Busy(s) /\ run'[s].task = run[s].task
    BY CopyWriters, SlotStays DEF Claim, TypeInv, TypeOK
  <2>2. /\ Of(s)' = Of(s) /\ Of(s) \in Executions /\ enqueue[Of(s)].step # "new"
    <3>1. run[s].task \in Tasks /\ task[run[s].task].state # "none"
      BY <1>0, <2>1 DEF BusyClaimed, TypeInv, BusyHasTask
    <3> QED BY <2>1, <3>1 DEF Of, Tasks, TypeInv, NotInserted
  <2>3. execution'[Of(s)].total = execution[Of(s)].total
    BY <1>0, <2>2, TotalKept
  <2>4. run[s].rec # NoRow => run[s].rec.total = execution[Of(s)].total
    BY <1>0, <2>1 DEF TotalsAgree
  <2>5. \A row : /\ Started(row).total = row.total /\ Succeeded(row).total = row.total
                 /\ Failed(row).total = row.total
    BY DEF Started, Succeeded, Failed, Copy
  <2> QED BY <2>2, <2>3, <2>4, <2>5, CopyWriters
<1>2. TotalIsMatched'
  <2> SUFFICES ASSUME NEW e \in Executions, enqueue'[e].step # "new"
               PROVE  execution'[e].total = Cardinality(enqueue'[e].targets)
    BY DEF TotalIsMatched
  <2>1. ASSUME NEW matched \in SUBSET Targets, CreateExecution(e, matched)
        PROVE  execution'[e].total = Cardinality(enqueue'[e].targets)
    BY <1>0, <2>1 DEF CreateExecution
  <2>2. CASE ~\E matched \in SUBSET Targets : CreateExecution(e, matched)
    <3>1. enqueue[e].step # "new" /\ enqueue'[e].targets = enqueue[e].targets
      BY <1>0, <2>2, EnqueueWriters DEF InsertTasks, AbandonEnqueue, Enqueue
    <3> QED BY <1>0, <3>1, TotalKept DEF TotalIsMatched
  <2> QED BY <2>1, <2>2
<1> QED BY <1>1, <1>2

----------------------------------------------------------------------------
(* Where no run overlapped another and none lost its final write.            *)

Counts(row, e) == row.succeeded = oks[e] /\ row.failed = errs[e]

\* A run between an outcome and the write that records it, and one whose copy will be
\* what the row becomes.
Recording(s) == run[s].pc \in {"record", "fail"}
Holding(s) == Recording(s) \/ (run[s].pc \in {"start", "load", "steps"} /\ run[s].rec # NoRow)

\* There is one run at most; the row counts every outcome but the one it is about to
\* record, and its copy counts that one, too.
Sequential(e) ==
  /\ \A r, s \in Slots : Works(r, e) /\ Works(s, e) => r = s
  /\ (\A s \in Slots : Works(s, e) => ~Recording(s)) => Counts(execution[e], e)
  /\ \A s \in Slots : Works(s, e) /\ Holding(s) => Counts(run[s].rec, e)

SequentialInv == \A e \in Executions : e \in overlapped \cup lost \/ Sequential(e)

\* A step aside: no run of the execution moves, but one that is not recording may end.
LEMMA SequentialKept ==
  ASSUME NEW e \in Executions, Sequential(e),
         UNCHANGED <<execution[e], oks[e], errs[e]>>,
         \A s \in Slots : Works(s, e)' => /\ Works(s, e)
                                          /\ run'[s].pc = run[s].pc /\ run'[s].rec = run[s].rec,
         \A s \in Slots : Works(s, e) /\ Recording(s) => Works(s, e)'
  PROVE  Sequential(e)'
<1>1. \A r, s \in Slots : Works(r, e)' /\ Works(s, e)' => r = s
  BY DEF Sequential
<1>2. (\A s \in Slots : Works(s, e)' => ~Recording(s)') => Counts(execution[e], e)'
  <2> SUFFICES ASSUME \A s \in Slots : Works(s, e)' => ~Recording(s)'
               PROVE  Counts(execution[e], e)'
    OBVIOUS
  <2>1. \A s \in Slots : Works(s, e) => ~Recording(s)
    BY DEF Recording
  <2> QED BY <2>1 DEF Sequential, Counts
<1>3. \A s \in Slots : Works(s, e)' /\ Holding(s)' => Counts(run[s].rec, e)'
  <2> SUFFICES ASSUME NEW s \in Slots, Works(s, e)', Holding(s)'
               PROVE  Counts(run[s].rec, e)'
    OBVIOUS
  <2>1. Works(s, e) /\ Holding(s)
    BY DEF Holding, Recording
  <2> QED BY <2>1 DEF Sequential, Counts
<1> QED BY <1>1, <1>2, <1>3 DEF Sequential

\* A step of the only run.
LEMMA SequentialOne ==
  ASSUME TypeInv, NEW s \in Slots, Busy(s), Sequential(Of(s)),
         NEW pc \in Points, NEW row, Goto(s, pc) \/ Hold(s, pc, row),
         pc \notin {"record", "fail"} => Counts(execution[Of(s)], Of(s))',
         Holding(s)' => Counts(run[s].rec, Of(s))'
  PROVE  Sequential(Of(s))'

<1>1. /\ run'[s].pc = pc /\ run'[s].task = run[s].task
      /\ \A r \in Slots : r # s => run'[r] = run[r]
  BY RunEffect
<1>2. \A r \in Slots : Works(r, Of(s)) <=> r = s
  BY DEF Sequential, Works
<1>3. Of(s)' = Of(s)
  BY <1>1 DEF Of
<1>4. PICK d : d = Of(s)
  OBVIOUS
<1>5. \A r \in Slots : Works(r, d)' <=> r = s
  <2> SUFFICES ASSUME NEW r \in Slots
               PROVE  Works(r, d)' <=> r = s
    OBVIOUS
  <2>1. CASE r = s
    BY <1>1, <1>4, <2>1 DEF Works, Busy, Of, Points
  <2>2. CASE r # s
    BY <1>1, <1>2, <1>4, <2>2 DEF Works, Busy, Of
  <2> QED BY <2>1, <2>2
<1>6. (~Recording(s)') => Counts(execution[d], d)'
  BY <1>1, <1>3, <1>4 DEF Recording, Counts
<1>7. Holding(s)' => Counts(run[s].rec, d)'
  BY <1>1, <1>3, <1>4 DEF Counts
<1>8. Sequential(d)'
  BY <1>5, <1>6, <1>7 DEF Sequential
<1> QED BY <1>3, <1>4, <1>8

\* What a run of an execution that is not its own leaves alone.
LEMMA OtherRuns ==
  ASSUME TypeInv, NEW s \in Slots, ExecuteTarget(s), NEW e \in Executions, e # Of(s)
  PROVE  /\ UNCHANGED <<execution[e], oks[e], errs[e]>>
         /\ e \in lost' \cup overlapped' <=> e \in lost \cup overlapped
         /\ \A r \in Slots : Works(r, e)' <=> Works(r, e)
         /\ \A r \in Slots : Works(r, e) => run'[r] = run[r]
<1>0. /\ execution \in [Executions -> Row] /\ run \in [Slots -> Run]
      /\ oks \in [Executions -> Nat] /\ errs \in [Executions -> Nat]
  BY DEF TypeInv, TypeOK
<1>1. run[s].pc \in Points
  BY DEF ExecuteTarget, ReadExecution, WriteRunning, LoadJobAndTarget, StepsSucceed,
         StepsFail, WriteSucceeded, RereadExecution, WriteFailed, Finish, At, Points
<1>2. Busy(s) /\ Of(s) \in Executions
  BY <1>1, TypeOfRun
<1>3. UNCHANGED <<execution[e], oks[e], errs[e]>>
  BY <1>0, <1>2 DEF ExecuteTarget, ReadExecution, WriteRunning, LoadJobAndTarget, StepsSucceed,
         StepsFail, WriteSucceeded, RereadExecution, WriteFailed, Finish, FinalWrite,
         UpdateExecution, history
<1>4. e \in lost' \cup overlapped' <=> e \in lost \cup overlapped
  BY DEF ExecuteTarget, ReadExecution, WriteRunning, LoadJobAndTarget, StepsSucceed,
         StepsFail, WriteSucceeded, RereadExecution, WriteFailed, Finish, FinalWrite,
         Lose, history
<1>5. /\ \A r \in Slots : r # s => run'[r] = run[r]
      /\ ~Busy(s)' \/ run'[s].task = run[s].task
  <2>1. CASE Finish(s)
    BY <1>0, <2>1 DEF Finish, NoRun, Busy
  <2>2. CASE ~Finish(s)
    <3>1. PICK pc, row : Goto(s, pc) \/ Hold(s, pc, row)
      BY <2>2 DEF ExecuteTarget, ReadExecution, WriteRunning, LoadJobAndTarget,
           StepsSucceed, StepsFail, WriteSucceeded, RereadExecution, WriteFailed
    <3> QED BY <3>1, RunEffect
  <2> QED BY <2>1, <2>2
<1>6. ASSUME NEW r \in Slots
      PROVE  (Works(r, e)' <=> Works(r, e)) /\ (Works(r, e) => run'[r] = run[r])
  <2>1. CASE r = s
    BY <1>2, <1>5, <2>1 DEF Works, Of
  <2>2. CASE r # s
    BY <1>5, <2>2 DEF Works, Busy, Of
  <2> QED BY <2>1, <2>2
<1> QED BY <1>3, <1>4, <1>6

\* A run that has not read the row has no copy.
NothingRead == \A s \in Slots : run[s].pc = "read" => run[s].rec = NoRow

LEMMA NothingReadStep == TypeInv /\ NothingRead /\ [Next]_vars => NothingRead'
<1> SUFFICES ASSUME TypeInv, NothingRead, [Next]_vars, NEW s \in Slots, run'[s].pc = "read"
             PROVE  run'[s].rec = NoRow
  BY DEF NothingRead
<1>0. run \in [Slots -> Run]
  BY DEF TypeInv, TypeOK
<1>1. CASE run'[s] = run[s]
  BY <1>1 DEF NothingRead
<1>2. ASSUME NEW r \in Slots, NEW k \in Tasks, Claim(r, k)
      PROVE  run'[s].rec = NoRow \/ run'[s] = run[s]
  BY <1>0, <1>2 DEF Claim
<1>3. ASSUME NEW r \in Slots, ExecuteTarget(r)
      PROVE  run'[s].rec = NoRow \/ run'[s] = run[s]
  <2>1. CASE Finish(r)
    BY <1>0, <2>1 DEF Finish, NoRun
  <2>2. CASE ~Finish(r)
    <3>1. PICK pc, row : pc # "read" /\ (Goto(r, pc) \/ Hold(r, pc, row))
      BY <1>3, <2>2 DEF ExecuteTarget, ReadExecution, WriteRunning, LoadJobAndTarget,
           StepsSucceed, StepsFail, WriteSucceeded, RereadExecution, WriteFailed
    <3> QED BY <3>1, RunEffect
  <2> QED BY <2>1, <2>2
<1>4. ASSUME NEW r \in Slots, JobTimeout(r)
      PROVE  run'[s].pc = run[s].pc /\ run'[s].rec = run[s].rec
  BY <1>0, <1>4 DEF JobTimeout, Run
<1>5. ASSUME NEW x \in Executors, Executor(x)
      PROVE  run'[s].rec = NoRow \/ (run'[s].pc = run[s].pc /\ run'[s].rec = run[s].rec)
  BY <1>0, <1>5 DEF Executor, SigTerm, Stopped, Crash, StartExecutor, NoRun, Run
<1>6. (\E e \in Executions : Producer(e)) \/ (\E k \in Tasks : Rescue(k) \/ Retry(k)) \/ UNCHANGED vars
        => UNCHANGED run
  BY DEF Producer, CreateExecution, InsertTasks, AbandonEnqueue, Rescue, Retry, vars
<1> QED BY <1>1, <1>2, <1>3, <1>4, <1>5, <1>6 DEF Next, NothingRead

\* The run that is alone: each of its steps counts what it should.
LEMMA SequentialRun ==
  ASSUME TypeInv, CopiesMarked, NothingRead, NEW s \in Slots, ExecuteTarget(s),
         NEW e \in Executions, e = Of(s), Sequential(e), e \notin lost'
  PROVE  Sequential(e)'
<1>0. /\ execution \in [Executions -> Row] /\ run \in [Slots -> Run]
      /\ oks \in [Executions -> Nat] /\ errs \in [Executions -> Nat]
  BY DEF TypeInv, TypeOK
<1>1. run[s].pc \in Points
  BY DEF ExecuteTarget, ReadExecution, WriteRunning, LoadJobAndTarget, StepsSucceed,
         StepsFail, WriteSucceeded, RereadExecution, WriteFailed, Finish, At, Points
<1>2. e = Of(s)
  OBVIOUS
<1>3. Busy(s) /\ Works(s, e)
  BY <1>1, TypeOfRun DEF Works
<1>4. /\ \A r \in Slots : Works(r, e) => r = s
      /\ ~Recording(s) => Counts(execution[e], e)
      /\ Holding(s) => Counts(run[s].rec, e)
  BY <1>2, <1>3 DEF Sequential
<1>5. ASSUME NEW pc \in Points, NEW row, Goto(s, pc) \/ Hold(s, pc, row)
      PROVE  /\ Of(s)' = e /\ run'[s].pc = pc
             /\ Goto(s, pc) => run'[s].rec = run[s].rec
             /\ Hold(s, pc, row) => run'[s].rec = row
  BY <1>2, <1>5, RunEffect DEF Of
<1>6. ASSUME NEW pc \in Points, NEW row, Goto(s, pc) \/ Hold(s, pc, row),
             pc \notin {"record", "fail"} =>
               execution'[e].succeeded = oks'[e] /\ execution'[e].failed = errs'[e],
             \/ pc \in {"record", "fail"}
             \/ pc \in {"start", "load", "steps"} /\ run'[s].rec # NoRow
             => run'[s].rec.succeeded = oks'[e] /\ run'[s].rec.failed = errs'[e]
      PROVE  Sequential(e)'
  <2>1. Of(s)' = e /\ run'[s].pc = pc
    BY <1>5, <1>6
  <2>2. pc \notin {"record", "fail"} => Counts(execution[Of(s)], Of(s))'
    BY <1>6, <2>1 DEF Counts
  <2>3. Holding(s)' => Counts(run[s].rec, Of(s))'
    BY <1>6, <2>1 DEF Counts, Holding, Recording
  <2>4. Sequential(Of(s))'
    BY <1>2, <1>3, <1>6, <2>2, <2>3, SequentialOne
  <2>5. PICK d : d = Of(s)'
    OBVIOUS
  <2>6. Sequential(d)'
    BY <2>4, <2>5
  <2> QED BY <2>1, <2>5, <2>6
<1>7. CASE ReadExecution(s)
  <2>1. Counts(execution[e], e) /\ UNCHANGED <<execution, oks, errs>> /\ run[s].rec = NoRow
    BY <1>4, <1>7 DEF ReadExecution, At, Recording, history, NothingRead
  <2>2. CASE Hold(s, "start", Started(execution[e]))
    <3>1. run'[s].rec = Started(execution[e])
      BY <1>5, <2>2 DEF Points
    <3>2. run'[s].rec.succeeded = oks'[e] /\ run'[s].rec.failed = errs'[e]
      BY <2>1, <3>1 DEF Started, Copy, Counts
    <3> QED BY <1>6, <2>1, <2>2, <3>2 DEF Points, Counts
  <2>3. CASE Goto(s, "load")
    <3>1. run'[s].rec = NoRow
      BY <1>5, <2>1, <2>3 DEF Points
    <3> QED BY <1>6, <2>1, <2>3, <3>1 DEF Points, Counts
  <2>4. Hold(s, "start", Started(execution[e])) \/ Goto(s, "load")
    BY <1>2, <1>7 DEF ReadExecution
  <2> QED BY <2>2, <2>3, <2>4
<1>8. CASE WriteRunning(s)
  <2>1. /\ Counts(execution[e], e) /\ Counts(run[s].rec, e) /\ UNCHANGED <<oks, errs>>
        /\ Goto(s, "load")
    <3>1. run[s].pc = "start" /\ run[s].rec # NoRow
      BY <1>8 DEF WriteRunning, At, CopiesMarked, NoRow
    <3> QED BY <1>4, <1>8, <3>1 DEF WriteRunning, Recording, Holding, history
  <2>2. execution'[e] = execution[e] \/ execution'[e] = run[s].rec
    BY <1>0, <1>2, <1>8 DEF WriteRunning, UpdateExecution
  <2>3. run'[s].rec = run[s].rec
    BY <1>5, <2>1 DEF Points
  <2> QED BY <1>6, <2>1, <2>2, <2>3 DEF Points, Counts
<1>9. CASE LoadJobAndTarget(s)
  <2>1. Counts(execution[e], e) /\ UNCHANGED <<execution, oks, errs>>
    BY <1>4, <1>9 DEF LoadJobAndTarget, At, Recording, history
  <2>2. CASE Goto(s, "steps")
    <3>1. run'[s].rec = run[s].rec /\ (run[s].rec # NoRow => Counts(run[s].rec, e))
      BY <1>4, <1>5, <1>9, <2>2 DEF LoadJobAndTarget, At, Holding, Points
    <3> QED BY <1>6, <2>1, <2>2, <3>1 DEF Points, Counts
  <2>3. CASE Goto(s, "reread")
    BY <1>6, <2>1, <2>3 DEF Points, Counts
  <2> QED BY <1>9, <2>2, <2>3 DEF LoadJobAndTarget
<1>10. CASE StepsSucceed(s)
  <2>1. run[s].rec # NoRow /\ Hold(s, "record", Succeeded(run[s].rec))
    BY <1>2, <1>10 DEF StepsSucceed, Lose
  <2>2. Counts(run[s].rec, e)
    BY <1>4, <1>10, <2>1 DEF StepsSucceed, At, Holding
  <2>3. oks'[e] = oks[e] + 1 /\ errs'[e] = errs[e]
    BY <1>0, <1>2, <1>10 DEF StepsSucceed
  <2>4. run'[s].rec = Succeeded(run[s].rec)
    BY <1>5, <2>1 DEF Points
  <2>5. run'[s].rec.succeeded = oks'[e] /\ run'[s].rec.failed = errs'[e]
    BY <2>2, <2>3, <2>4 DEF Succeeded, Copy, Counts
  <2> QED BY <1>6, <2>1, <2>5 DEF Points
<1>11. CASE StepsFail(s)
  BY <1>4, <1>6, <1>11 DEF StepsFail, At, Recording, Points, Counts, history
<1>12. CASE RereadExecution(s)
  <2>1. Counts(execution[e], e)
    BY <1>4, <1>12 DEF RereadExecution, At, Recording
  <2>2. Hold(s, "fail", Failed(execution[e]))
    BY <1>2, <1>12 DEF RereadExecution, Lose
  <2>3. errs'[e] = errs[e] + 1 /\ oks'[e] = oks[e]
    BY <1>0, <1>2, <1>12 DEF RereadExecution
  <2>4. run'[s].rec = Failed(execution[e])
    BY <1>5, <2>2 DEF Points
  <2>5. run'[s].rec.succeeded = oks'[e] /\ run'[s].rec.failed = errs'[e]
    BY <2>1, <2>3, <2>4 DEF Failed, Copy, Counts
  <2> QED BY <1>6, <2>2, <2>5 DEF Points
<1>13. CASE WriteSucceeded(s) \/ WriteFailed(s)
  <2>1. Counts(run[s].rec, e) /\ UNCHANGED <<oks, errs>>
    BY <1>4, <1>13 DEF WriteSucceeded, WriteFailed, At, Recording, Holding
  <2>2. PICK pc \in {"ok", "err"} : Goto(s, pc)
    BY <1>13 DEF WriteSucceeded, WriteFailed
  <2>3. execution'[e] = run[s].rec
    BY <1>0, <1>2, <1>13 DEF WriteSucceeded, WriteFailed, FinalWrite, UpdateExecution, Lose
  <2> QED BY <1>6, <2>1, <2>2, <2>3 DEF Points, Counts
<1>14. CASE Finish(s)
  <2>1. UNCHANGED <<execution, oks, errs>> /\ ~Recording(s)
    BY <1>14 DEF Finish, Recording, history
  <2>2. run' = [run EXCEPT ![s] = NoRun]
    BY <1>14 DEF Finish
  <2>3. \A r \in Slots : ~Works(r, e)'
    BY <1>0, <1>4, <2>2 DEF Works, Busy, Of, NoRun
  <2>4. Counts(execution[e], e)'
    BY <1>4, <2>1 DEF Counts
  <2> QED BY <2>3, <2>4 DEF Sequential
<1> QED BY <1>7, <1>8, <1>9, <1>10, <1>11, <1>12, <1>13, <1>14 DEF ExecuteTarget

SequentialParts ==
  TypeInv /\ CopiesMarked /\ BusyClaimed /\ OrphanStaysQueued /\ NothingRead /\ SequentialInv

LEMMA SequentialStep == SequentialParts /\ [Next]_vars => SequentialInv'
<1> SUFFICES ASSUME SequentialParts, [Next]_vars,
                    NEW e \in Executions, e \notin overlapped' \cup lost'
             PROVE  Sequential(e)'
  BY DEF SequentialInv
<1>0. /\ TypeInv /\ CopiesMarked /\ BusyClaimed /\ OrphanStaysQueued /\ NothingRead
      /\ execution \in [Executions -> Row] /\ run \in [Slots -> Run]
      /\ oks \in [Executions -> Nat] /\ errs \in [Executions -> Nat]
  BY DEF SequentialParts, TypeInv, TypeOK
<1> DEFINE Aside == UNCHANGED <<execution[e], oks[e], errs[e]>>
           SameRun(s) == /\ run'[s].pc = run[s].pc /\ run'[s].task = run[s].task
                         /\ run'[s].rec = run[s].rec
<1>1. e \in overlapped \cup lost => e \in overlapped' \cup lost'
  <2>1. ASSUME NEW s \in Slots, ExecuteTarget(s)
        PROVE  overlapped' = overlapped /\ lost \subseteq lost'
    BY <2>1 DEF ExecuteTarget, ReadExecution, WriteRunning, LoadJobAndTarget, StepsSucceed,
         StepsFail, WriteSucceeded, RereadExecution, WriteFailed, Finish, FinalWrite, Lose, history
  <2>2. ASSUME NEW d \in Executions, Producer(d)
        PROVE  UNCHANGED history
    BY <2>2 DEF Producer, CreateExecution, InsertTasks, AbandonEnqueue
  <2>3. ASSUME NEW k \in Tasks, Rescue(k) \/ Retry(k) \/ \E s \in Slots : Claim(s, k)
        PROVE  overlapped \subseteq overlapped' /\ lost' = lost
    BY <2>3 DEF Rescue, Retry, Claim, history
  <2>4. ASSUME \/ \E s \in Slots : JobTimeout(s)
               \/ \E x \in Executors : Executor(x)
               \/ UNCHANGED vars
        PROVE  overlapped' = overlapped /\ lost \subseteq lost'
    BY <2>4 DEF JobTimeout, Executor, SigTerm, Stopped, Crash, StartExecutor, vars, history
  <2> QED BY <2>1, <2>2, <2>3, <2>4 DEF Next, history
<1>2. Sequential(e)
  BY <1>1 DEF SequentialParts, SequentialInv
<1>3. ASSUME Aside, \A s \in Slots : SameRun(s)
      PROVE  Sequential(e)'
  BY <1>2, <1>3, SequentialKept DEF Works, Busy, Of
<1>4. ASSUME NEW d \in Executions, Producer(d)
      PROVE  Sequential(e)'
  <2>1. \A s \in Slots : SameRun(s)
    BY <1>4 DEF Producer, CreateExecution, InsertTasks, AbandonEnqueue
  <2>2. oks' = oks /\ errs' = errs
    BY <1>4 DEF Producer, CreateExecution, InsertTasks, AbandonEnqueue, history
  <2>3. CASE execution'[e] = execution[e]
    BY <1>3, <2>1, <2>2, <2>3
  <2>4. ASSUME execution'[e] # execution[e]
        PROVE  Sequential(e)'
    <3>1. PICK matched \in SUBSET Targets : CreateExecution(e, matched)
      BY <1>0, <1>4, <2>4 DEF Producer, CreateExecution, InsertTasks, AbandonEnqueue
    <3>2. execution[e].succeeded + execution[e].failed = 0 /\ \A s \in Slots : ~Works(s, e)
      BY <1>0, <3>1 DEF CreateExecution, TypeInv, NotInserted, OrphanStaysQueued
    <3>3. oks[e] = 0 /\ errs[e] = 0
      BY <1>0, <1>2, <3>2 DEF Sequential, Counts, Row
    <3>4. Counts(execution[e], e)'
      BY <1>0, <2>2, <3>1, <3>3 DEF CreateExecution, Counts
    <3>5. \A s \in Slots : ~Works(s, e)'
      BY <2>1, <3>2 DEF Works, Busy, Of
    <3> QED BY <3>4, <3>5 DEF Sequential
  <2> QED BY <2>3, <2>4
<1>5. ASSUME NEW s \in Slots, NEW k \in Tasks, Claim(s, k)
      PROVE  Sequential(e)'
  <2>1. /\ Aside /\ ~Busy(s) /\ run'[s].task = k /\ run'[s].pc = "read" /\ run'[s].rec = NoRow
        /\ \A r \in Slots : r # s => run'[r] = run[r]
    BY <1>0, <1>5 DEF Claim
  <2>2. CASE k[1] = e
    <3>1. \A r \in Slots : ~Works(r, e)
      BY <1>5, <2>2 DEF Claim
    <3>2. Counts(execution[e], e)'
      BY <1>2, <2>1, <3>1 DEF Sequential, Counts
    <3>3. \A r \in Slots : Works(r, e)' => r = s
      BY <2>1, <3>1 DEF Works, Busy, Of
    <3>4. ~Holding(s)'
      BY <2>1 DEF Holding, Recording
    <3> QED BY <3>2, <3>3, <3>4 DEF Sequential
  <2>3. CASE k[1] # e
    <3>1. \A r \in Slots : Works(r, e)' => r # s
      BY <2>1, <2>3 DEF Works, Of
    <3>2. \A r \in Slots : Works(r, e) => r # s
      BY <2>1 DEF Works
    <3> QED BY <1>2, <2>1, <3>1, <3>2, SequentialKept DEF Works, Busy, Of
  <2> QED BY <2>2, <2>3
<1>6. ASSUME NEW s \in Slots, ExecuteTarget(s)
      PROVE  Sequential(e)'
  <2>1. CASE e = Of(s)
    BY <1>0, <1>2, <1>6, <2>1, SequentialRun
  <2>2. CASE e # Of(s)
    <3>1. /\ Aside
          /\ \A r \in Slots : Works(r, e)' <=> Works(r, e)
          /\ \A r \in Slots : Works(r, e) => run'[r] = run[r]
      BY <1>0, <1>6, <2>2, OtherRuns
    <3> QED BY <1>2, <3>1, SequentialKept
  <2> QED BY <2>1, <2>2
<1>7. ASSUME NEW x \in Executors, Executor(x)
      PROVE  Sequential(e)'
  <2>1. Aside
    BY <1>7 DEF Executor, SigTerm, Stopped, Crash, StartExecutor, history
  <2>2. CASE Crash(x)
    <3>1. \A s \in Slots : Works(s, e)' => Works(s, e) /\ run'[s] = run[s]
      BY <2>2 DEF Crash, NoRun, Works, Busy, Of
    <3>2. \A s \in Slots : Works(s, e) /\ Recording(s) => run'[s] = run[s]
      BY <2>2 DEF Crash, Recording
    <3>3. \A s \in Slots : Works(s, e) /\ Recording(s) => Works(s, e)'
      BY <3>2 DEF Works, Busy, Of
    <3> QED BY <1>2, <2>1, <3>1, <3>3, SequentialKept
  <2>3. CASE ~Crash(x)
    <3>1. \A s \in Slots : SameRun(s)
      BY <1>0, <1>7, <2>3 DEF Executor, SigTerm, Stopped, StartExecutor, Run
    <3> QED BY <1>3, <2>1, <3>1
  <2> QED BY <2>2, <2>3
<1>8. ASSUME NEW s \in Slots, JobTimeout(s)
      PROVE  Sequential(e)'
  <2>1. Aside /\ \A r \in Slots : SameRun(r)
    BY <1>0, <1>8 DEF JobTimeout, history, Run
  <2> QED BY <1>3, <2>1
<1>9. ASSUME NEW k \in Tasks, Rescue(k) \/ Retry(k)
      PROVE  Sequential(e)'
  <2>1. Aside /\ \A r \in Slots : SameRun(r)
    BY <1>9 DEF Rescue, Retry, history
  <2> QED BY <1>3, <2>1
<1>10. UNCHANGED vars => Aside /\ \A r \in Slots : SameRun(r)
  BY DEF vars, history
<1> QED BY <1>3, <1>4, <1>5, <1>6, <1>7, <1>8, <1>9, <1>10 DEF Next

LEMMA SequentialExact ==
  TotalInv /\ SequentialInv => SequentialRecordsExact
<1> SUFFICES ASSUME TotalInv, SequentialInv
             PROVE  SequentialRecordsExact
  OBVIOUS
<1>1. AcceptedHasAllTasks
  <2> SUFFICES ASSUME NEW e \in Executions, NEW inserted,
                      inserted = {t \in Targets : task[<<e, t>>].state # "none"}
               PROVE  /\ inserted \in {{}, enqueue[e].targets}
                      /\ enqueue[e].step = "accepted" => inserted # {}
                      /\ enqueue[e].step # "new" => execution[e].total = Cardinality(enqueue[e].targets)
    BY DEF AcceptedHasAllTasks
  <2>1. enqueue[e].targets \subseteq Targets
    BY DEF TotalInv, TypeInv, TypeOK, Enqueue
  <2>2. inserted # {} \/ enqueue[e].step = "accepted" =>
          inserted = enqueue[e].targets /\ inserted # {}
    BY <2>1 DEF TotalInv, TasksMatched
  <2> QED BY <2>2 DEF TotalInv, TotalIsMatched
<1>2. ASSUME NEW e \in Executions, e \notin overlapped \cup lost,
             \A s \in Slots : Works(s, e) => At(s, "ok") \/ At(s, "err")
      PROVE  execution[e].succeeded = oks[e] /\ execution[e].failed = errs[e]
  BY <1>2 DEF SequentialInv, Sequential, Counts, Recording, At
<1> QED BY <1>1, <1>2 DEF SequentialRecordsExact

\* Where no two runs of an execution overlapped and none lost its final write, the row
\* counts every outcome there was and no other, between any two runs; and its total is
\* always the number of targets that were matched, each of which has its task.
THEOREM RecordsAreExact == Spec => []SequentialRecordsExact
<1>1. Init => TotalInv /\ SequentialInv /\ CopiesMarked /\ NothingRead
  <2>1. Init => BusyClaimed /\ TasksMatched /\ TotalsAgree /\ TotalIsMatched
    <3>1. Init => \A e \in Executions, t \in Targets : task[<<e, t>>].state = "none"
      BY DEF Init, Tasks
    <3>2. Init => \A s \in Slots : ~Busy(s)
      BY DEF Init, Busy, NoRun
    <3>3. Init => \A e \in Executions : enqueue[e].step = "new"
      BY DEF Init
    <3> QED BY <3>1, <3>2, <3>3 DEF BusyClaimed, TasksMatched, TotalsAgree, TotalIsMatched
  <2>2. Init => SequentialInv /\ CopiesMarked /\ NothingRead
    BY DEF Init, SequentialInv, Sequential, Counts, Works, Busy, NoRun, NoRow, CopiesMarked, NothingRead
  <2> QED BY <2>1, <2>2, TypeInit DEF TotalInv
<1>2. TotalInv /\ CopiesMarked /\ [Next]_vars => TotalInv'
  BY TypeStep, BusyClaimedStep, MatchedStep, TotalsStep DEF TotalInv
<1>3. TotalInv => TypeInv /\ BusyClaimed
  BY DEF TotalInv
<1>4. TypeInv /\ BusyClaimed /\ CopiesMarked /\ OrphanStaysQueued /\ NothingRead /\ SequentialInv
        /\ [Next]_vars => SequentialInv'
  BY SequentialStep DEF SequentialParts
<1>5. TotalInv /\ SequentialInv => SequentialRecordsExact
  BY SequentialExact
<1> QED BY <1>1, <1>2, <1>3, <1>4, <1>5, CopiesMarkedStep, NothingReadStep, OrphansQueued, PTL DEF Spec

----------------------------------------------------------------------------
(* The queue delivers the tasks the way TaskDelivery promises.               *)

\* What the view shows of one task.
Views == [state : {"none", "waiting", "out", "done", "given up"}, attempt : 0..MaxAttempts]

Outcomes == {"waiting", "out", "done", "given up"}

Changed(view, state, attempt) == [view EXCEPT !.state = state, !.attempt = attempt]

LEMMA ViewRecord == ASSUME NEW view \in Views
                    PROVE  view = [state |-> view.state, attempt |-> view.attempt]
BY DEF Views

LEMMA ViewExcept ==
  ASSUME NEW view \in Views, NEW other \in Views,
         NEW state \in Outcomes, NEW attempt \in 0..MaxAttempts,
         other.state = state, other.attempt = attempt
  PROVE  /\ other = Changed(view, state, attempt)
         /\ attempt = view.attempt => other = [view EXCEPT !.state = state]
<1>1. /\ Changed(view, state, attempt) \in Views
      /\ Changed(view, state, attempt).state = state
      /\ Changed(view, state, attempt).attempt = attempt
  BY DEF Views, Outcomes, Changed
<1>2. PICK kept : kept = [view EXCEPT !.state = state]
  OBVIOUS
<1>3. attempt = view.attempt => kept \in Views /\ kept.state = state /\ kept.attempt = attempt
  BY <1>2 DEF Views, Outcomes
<1>4. attempt = view.attempt => other = kept
  BY <1>3, ViewRecord
<1> QED BY <1>1, <1>2, <1>4, ViewRecord

LEMMA DeliveredOne ==
  ASSUME NEW k \in Tasks, task[k] \in Task
  PROVE  /\ Delivered[k].attempt = task[k].attempt
         /\ task[k].state \in {"available", "retryable"} => Delivered[k].state = "waiting"
         /\ task[k].state = "running" => Delivered[k].state = "out"
         /\ task[k].state = "completed" => Delivered[k].state = "done"
         /\ task[k].state = "discarded" => Delivered[k].state = "given up"
         /\ task[k].state = "none" => Delivered[k].state = "none"
         /\ Delivered[k] \in Views
<1>1. PICK view : view = CASE task[k].state \in {"available", "retryable"} -> "waiting"
                          [] task[k].state = "running" -> "out"
                          [] task[k].state = "completed" -> "done"
                          [] task[k].state = "discarded" -> "given up"
                          [] OTHER -> "none"
  OBVIOUS
<1>2. Delivered[k] = [state |-> view, attempt |-> task[k].attempt]
  BY <1>1 DEF Delivered
<1>3. view \in {"none", "waiting", "out", "done", "given up"} /\ task[k].attempt \in 0..MaxAttempts
  BY <1>1 DEF Task
<1>4. [state |-> view, attempt |-> task[k].attempt] \in Views
  BY <1>3 DEF Views
<1>5. Delivered[k] \in Views
  BY <1>2, <1>4, Zenon
<1>6. Delivered[k].state = view /\ Delivered[k].attempt = task[k].attempt
  BY <1>2
<1> QED BY <1>1, <1>5, <1>6

\* A step that changes one task changes the view of that one at most.
LEMMA DeliveredChange ==
  ASSUME task \in [Tasks -> Task], NEW k \in Tasks, \A j \in Tasks : j # k => task'[j] = task[j],
         NEW state \in Outcomes, NEW attempt \in 0..MaxAttempts,
         Delivered'[k].state = state, task'[k].attempt = attempt
  PROVE  /\ Delivered' = [Delivered EXCEPT ![k] = Changed(Delivered[k], state, attempt)]
         /\ attempt = task[k].attempt => Delivered' = [Delivered EXCEPT ![k].state = state]
<1>1. Delivered'[k] \in Views /\ Delivered'[k].state = state /\ Delivered'[k].attempt = attempt
  <2>1. Delivered'[k] = [state |-> state, attempt |-> attempt]
    BY DEF Delivered
  <2>2. [state |-> state, attempt |-> attempt] \in Views
    BY DEF Views, Outcomes
  <2> QED BY <2>1, <2>2
<1>2. ASSUME NEW j \in Tasks, j # k
      PROVE  Delivered'[j] = Delivered[j]
  BY <1>2 DEF Delivered
<1>3. Delivered = [j \in Tasks |-> Delivered[j]] /\ Delivered' = [j \in Tasks |-> Delivered'[j]]
  BY DEF Delivered
<1>4. Delivered[k] \in Views /\ Delivered[k].attempt = task[k].attempt
  BY DeliveredOne
<1>5. /\ Delivered'[k] = Changed(Delivered[k], state, attempt)
      /\ attempt = task[k].attempt => Delivered'[k] = [Delivered[k] EXCEPT !.state = state]
  <2>1. PICK other : other = Delivered'[k]
    OBVIOUS
  <2> QED BY <1>1, <1>4, <2>1, ViewExcept
<1>6. ASSUME NEW rec, Delivered'[k] = rec
      PROVE  Delivered' = [Delivered EXCEPT ![k] = rec]
  BY <1>2, <1>3, <1>6
<1> QED BY <1>5, <1>6, Zenon

LEMMA DeliveryStep == TypeInv /\ [Next]_vars => [Delivery!Next]_Delivered
<1> SUFFICES ASSUME TypeInv, [Next]_vars, Delivered' # Delivered
             PROVE  Delivery!Next
  OBVIOUS
<1>0. task \in [Tasks -> Task] /\ TypeInv' /\ task' \in [Tasks -> Task]
      /\ Tasks = Delivery!DeliveryTasks
  BY TypeStep DEF TypeInv, TypeOK, Tasks, Delivery!DeliveryTasks
<1>1. PICK k \in Tasks : task'[k] # task[k]
  <2>1. CASE \A j \in Tasks : task'[j] = task[j]
    BY <2>1 DEF Delivered
  <2> QED BY <2>1
<1>2. ASSUME NEW e \in Executions, NEW answer, InsertTasks(e, answer)
      PROVE  Delivery!Next
  <2>1. /\ enqueue[e].targets # {} /\ enqueue[e].targets \in SUBSET Targets
        /\ \A t \in Targets : task[<<e, t>>].state = "none" /\ <<e, t>> \in Tasks
    BY <1>0, <1>2 DEF InsertTasks, TypeInv, TypeOK, NotInserted, Enqueue, Tasks
  <2>2. \A t \in Targets : Delivered[<<e, t>>].state = "none"
    BY <1>0, <2>1, DeliveredOne
  <2>3. ASSUME NEW j \in Tasks
        PROVE  Delivered'[j] = IF j[1] = e /\ j[2] \in enqueue[e].targets
                               THEN [Delivered[j] EXCEPT !.state = "waiting"] ELSE Delivered[j]
    <3>1. CASE j[1] = e /\ j[2] \in enqueue[e].targets
      <4>1. task'[j] = [task[j] EXCEPT !.state = "available"]
        BY <1>2, <3>1 DEF InsertTasks
      <4>2. task'[j].state = "available" /\ task'[j].attempt = task[j].attempt
        BY <1>0, <4>1 DEF Task
      <4> QED BY <3>1, <4>2 DEF Delivered
    <3>2. CASE ~(j[1] = e /\ j[2] \in enqueue[e].targets)
      <4>1. task'[j] = task[j]
        BY <1>2, <3>2 DEF InsertTasks
      <4> QED BY <3>2, <4>1 DEF Delivered
    <3> QED BY <3>1, <3>2
  <2>4. Delivered' = [j \in Tasks |-> Delivered'[j]]
    BY DEF Delivered
  <2>5. Delivery!Commit(e, enqueue[e].targets)
    BY <1>0, <2>1, <2>2, <2>3, <2>4 DEF Delivery!Commit
  <2> QED BY <2>1, <2>5 DEF Delivery!Next
<1>3. ASSUME NEW s \in Slots, Claim(s, k)
      PROVE  Delivery!Next
  <2>1. /\ task[k].state = "available" /\ task[k].attempt < MaxAttempts
        /\ task'[k].state = "running" /\ task'[k].attempt = task[k].attempt + 1
        /\ \A j \in Tasks : j # k => task'[j] = task[j]
    BY <1>0, <1>3 DEF Claim, Task, TypeInv, AttemptLeft
  <2>2. Delivered'[k].state = "out"
    BY <2>1 DEF Delivered
  <2>3. Delivered' = [Delivered EXCEPT ![k].state = "out", ![k].attempt = task[k].attempt + 1]
    <3>1. task[k].attempt + 1 \in 0..MaxAttempts /\ "out" \in Outcomes
      BY <1>0, <2>1 DEF Task, Outcomes
    <3>2. Delivered' = [Delivered EXCEPT ![k] = Changed(Delivered[k], "out", task[k].attempt + 1)]
      BY <1>0, <2>1, <2>2, <3>1, DeliveredChange
    <3> QED BY <3>2 DEF Changed
  <2>4. Delivered[k].state = "waiting" /\ Delivered[k].attempt = task[k].attempt
    BY <1>0, <2>1, DeliveredOne
  <2>5. Delivery!Deliver(k)
    BY <2>1, <2>3, <2>4 DEF Delivery!Deliver
  <2> QED BY <1>0, <2>5 DEF Delivery!Next
<1>4. ASSUME task[k].state = "running", \A j \in Tasks : j # k => task'[j] = task[j],
             task'[k].attempt = task[k].attempt,
             task'[k].state \in {"completed", AfterError(k)}
      PROVE  Delivery!Next
  <2>1. Delivered[k].state = "out" /\ Delivered[k].attempt = task[k].attempt
    BY <1>0, <1>4, DeliveredOne
  <2>2. PICK outcome \in {"done", IF Delivered[k].attempt < MaxAttempts THEN "waiting" ELSE "given up"} :
          Delivered'[k].state = outcome
    BY <1>4, <2>1 DEF Delivered, AfterError
  <2>3. outcome \in Outcomes /\ task[k].attempt \in 0..MaxAttempts
    BY <1>0, <2>2 DEF Outcomes, Task
  <2>4. Delivered' = [Delivered EXCEPT ![k].state = outcome]
    BY <1>0, <1>4, <2>2, <2>3, DeliveredChange
  <2>5. Delivery!Return(k)
    BY <2>1, <2>2, <2>4 DEF Delivery!Return
  <2> QED BY <1>0, <2>5 DEF Delivery!Next
<1>5. ASSUME NEW s \in Slots, Finish(s), run[s].task = k, task[k].state = "running"
      PROVE  Delivery!Next
  <2>1. PICK state \in {"completed", AfterError(k)} : task' = [task EXCEPT ![k].state = state]
    BY <1>1, <1>5 DEF Finish
  <2> QED BY <1>0, <1>4, <1>5, <2>1 DEF Task
<1>6. CASE Rescue(k)
  <2>1. /\ task[k].state = "running"
        /\ task' = [task EXCEPT ![k].state = AfterError(k), ![k].rescued = TRUE]
    BY <1>6 DEF Rescue
  <2> QED BY <1>0, <1>4, <2>1 DEF Task
<1>7. CASE Retry(k)
  <2>1. /\ task[k].state = "retryable" /\ task'[k].state = "available"
        /\ task'[k].attempt = task[k].attempt
        /\ \A j \in Tasks : j # k => task'[j] = task[j]
    BY <1>0, <1>7 DEF Retry, Task
  <2>2. Delivered'[k] = Delivered[k] /\ \A j \in Tasks : j # k => Delivered'[j] = Delivered[j]
    BY <2>1 DEF Delivered
  <2>3. Delivered' = Delivered
    BY <2>2 DEF Delivered
  <2> QED BY <2>3
<1> QED BY <1>0, <1>1, <1>2, <1>3, <1>5, <1>6, <1>7, TaskWriters DEF Tasks

\* The queue and the executors implement what TaskDelivery promises, but for its
\* fairness: the tasks of an execution come into being together and once, a delivery is
\* one of at most MaxAttempts, and a task that is done or given up is not delivered again.
THEOREM TasksAreDelivered == Spec => Delivery!Spec
<1>1. Init => Delivery!Init
  BY DEF Init, Delivery!Init, Delivered, Tasks, Delivery!DeliveryTasks
<1> QED BY <1>1, DeliveryStep, TypeInvariant, PTL DEF Spec, Delivery!Spec
=============================================================================
