---------------------------- MODULE MCExecutions ----------------------------
(* Small instances of Executions for TLC. *)
EXTENDS Executions, TLC

\* Targets are only ever compared with each other.
TargetSymmetry == Permutations(Targets)
=============================================================================
