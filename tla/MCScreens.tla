------------------------------ MODULE MCScreens ------------------------------
(***************************************************************************)
(* Screens for TLC.                                                        *)
(***************************************************************************)
EXTENDS Screens, TLC

Interchangeable == Permutations(Fetches) \cup Permutations(Saves)
=============================================================================
