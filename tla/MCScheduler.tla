----------------------------- MODULE MCScheduler -----------------------------
(* Small instances of Scheduler for TLC. *)
EXTENDS Scheduler, TLC

CONSTANTS j1, j2

\* Two jobs to choose from, a row that ends without an entry because it is disabled,
\* and one because the parser refuses it.
OffDefinitions ==
  {[job |-> j1, expr |-> "good", enabled |-> TRUE],
   [job |-> j2, expr |-> "good", enabled |-> TRUE],
   [job |-> j1, expr |-> "good", enabled |-> FALSE]}
OneJobDefinitions ==
  {[job |-> j1, expr |-> "good", enabled |-> TRUE],
   [job |-> j1, expr |-> "good", enabled |-> FALSE],
   [job |-> j1, expr |-> "bad", enabled |-> TRUE]}

ServerRequestSymmetry == Permutations(Servers) \cup Permutations(Requests)
=============================================================================
