------------------------------ MODULE MCProgress ------------------------------
(***************************************************************************)
(* What must happen in the end around the executions, for TLC: servers     *)
(* come up, tabs leave an ended session, the log console catches up.  The  *)
(* three share no variable; one, whichever, is at work and the others rest *)
(* in a state in which they owe nothing.                                   *)
(***************************************************************************)
EXTENDS Startup, TLC

CONSTANTS t1, t2, u1, e1, e2, f1, f2

VARIABLES
  part,                                                    \* what is at work
  session, cookie, page, request, disturbed, replaced,
  table, current, interval, mode, output, frame, visible, fetch

Sessions == INSTANCE Sessions WITH
  Tabs <- {t1, t2}, Visible <- {t1}, Tokens <- {u1}
LogView == INSTANCE LogView WITH
  Executions <- {e1, e2}, Fetches <- {f1, f2}, MaxEntries <- 1

ASSUME ProgressAssumption == Sessions!SessionsAssumption /\ LogView!LogViewAssumption

sessions == <<session, cookie, page, request, disturbed, replaced>>
console ==
  <<table, current, interval, mode, output, frame, visible, fetch>>

\* Everything is up, with the first account.
Started ==
  LET name == CHOOSE n \in Names : TRUE
      word == CHOOSE w \in Passwords \ TooLong : TRUE
  IN
  /\ version = Last /\ schema = Last /\ dirty = FALSE /\ river = TRUE /\ lock = None
  /\ pc = [p \in Processes |-> "up"]
  /\ env = [p \in Servers |-> [name |-> name, password |-> word]]
  /\ account = [n \in Names |-> IF n = name THEN word ELSE None]
  /\ faults = 0 /\ excused = {} /\ blind = FALSE

ProgressInit ==
  /\ part \in {"startup", "sessions", "console"}
  /\ IF part = "startup" THEN Init ELSE Started
  /\ Sessions!Init /\ LogView!Init

StartupStep ==
  part = "startup" /\ Next /\ UNCHANGED <<part, sessions, console>>
SessionStep ==
  part = "sessions" /\ Sessions!Next /\ UNCHANGED <<part, vars, console>>
ConsoleStep ==
  part = "console" /\ LogView!Next /\ UNCHANGED <<part, vars, sessions>>

ProgressNext == StartupStep \/ SessionStep \/ ConsoleStep

ProgressSpec ==
  /\ ProgressInit /\ [][ProgressNext]_<<part, vars, sessions, console>>
  /\ Fairness /\ Sessions!Fairness /\ LogView!Fairness

\* Sessions: a visible tab whose session has ended gets to the login form.
SignedOutTabsLeave == Sessions!SignedOutTabsLeave

\* LogView: a console that stays on an execution shows its whole log again and again.
FollowCatchesUp == LogView!FollowCatchesUp
=============================================================================
