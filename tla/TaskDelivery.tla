---------------------------- MODULE TaskDelivery ----------------------------
(***************************************************************************)
(* What a producer may rely on once its transaction has committed: the     *)
(* tasks of an execution come into being together, each of them is         *)
(* delivered at least once and at most MaxAttempts times, and each of them *)
(* ends.  A task that is done or given up is never delivered again.  How   *)
(* the queue and the executors achieve it is the business of Executions.   *)
(***************************************************************************)
EXTENDS Naturals

CONSTANTS Executions, Targets, MaxAttempts

VARIABLE delivery   \* per task: where it is, and how often it was delivered

DeliveryTasks == Executions \X Targets

States == {"none", "waiting", "out", "done", "given up"}

TypeOK == delivery \in [DeliveryTasks -> [state : States, attempt : 0..MaxAttempts]]

Init == delivery = [k \in DeliveryTasks |-> [state |-> "none", attempt |-> 0]]

\* One transaction inserts the tasks of a non-empty set of targets.
Commit(e, matched) ==
  /\ matched # {}
  /\ \A t \in Targets : delivery[<<e, t>>].state = "none"
  /\ delivery' = [k \in DeliveryTasks |->
        IF k[1] = e /\ k[2] \in matched
          THEN [delivery[k] EXCEPT !.state = "waiting"] ELSE delivery[k]]

Deliver(k) ==
  /\ delivery[k].state = "waiting"
  /\ delivery[k].attempt < MaxAttempts
  /\ delivery' = [delivery EXCEPT ![k].state = "out", ![k].attempt = @ + 1]

\* A delivery ends well, or the task waits again while attempts are left.
Return(k) ==
  /\ delivery[k].state = "out"
  /\ \E outcome \in {"done", IF delivery[k].attempt < MaxAttempts
                               THEN "waiting" ELSE "given up"} :
       delivery' = [delivery EXCEPT ![k].state = outcome]

Next ==
  \/ \E e \in Executions, matched \in SUBSET Targets : Commit(e, matched)
  \/ \E k \in DeliveryTasks : Deliver(k) \/ Return(k)

Fairness == \A k \in DeliveryTasks : WF_delivery(Deliver(k)) /\ WF_delivery(Return(k))

Spec == Init /\ [][Next]_delivery

FairSpec == Spec /\ Fairness
=============================================================================
