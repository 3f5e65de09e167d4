------------------------------- MODULE MCSteps -------------------------------
(* A small instance of Steps for TLC: a job that refers to another one, which may
   refer back to it. *)
EXTENDS Steps

CONSTANTS a, b      \* the two jobs

C(name) == [type |-> "command", id |-> name]
S(name) == [type |-> "script", id |-> name]
F(name) == [type |-> "file-copy", id |-> name]
R(job) == [type |-> "job-ref", id |-> job]
M(name) == [type |-> "malformed", id |-> name]

StepNames == {"c1", "c2", "s1", "f1", "m1"}

SmallBodies ==
  [j \in {a, b} |->
     IF j = a THEN {<<C("c1"), R(b), C("c2")>>, <<S("s1"), R(b)>>}
     ELSE {<<F("f1")>>, <<S("s1"), R(a)>>, <<C("c2"), M("m1")>>}]
=============================================================================
