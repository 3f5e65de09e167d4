------------------------------- MODULE Screens -------------------------------
(***************************************************************************)
(* The screens of the browser and its session.  They share no variable, so *)
(* a behaviour of one of them beside the others shows nothing that it does *)
(* not show alone: here the user works with one of them, whichever, and    *)
(* the others rest.                                                        *)
(***************************************************************************)
EXTENDS Naturals, FiniteSets

CONSTANTS
  Jobs, Executions, Opens,                     \* JobDetail, with the jobs of JobEditor
  Initial, Loads, Saves, Flights, MaxRev,      \* JobEditor
  Ids, Default, SeedId, Spellings, Fetches,    \* Projects
  Tabs, Visible, Tokens,                       \* Sessions
  All, None

VARIABLES
  part,                                                    \* what is in use
  execution, selected, header, stats, activity, open, deletion, reopened, failed,
  job, shown, editing, form, load, save, rev, standing, turn,
  project, current, selector, fetch, create, delete, mixed,
  session, cookie, page, request, disturbed, replaced

Detail == INSTANCE JobDetail WITH delete <- deletion, crossed <- reopened
Editor == INSTANCE JobEditor
Selector == INSTANCE Projects WITH disturbed <- mixed
Login == INSTANCE Sessions

ASSUME ScreensAssumption ==
  /\ Detail!JobDetailAssumption /\ Editor!JobEditorAssumption
  /\ Selector!ProjectsAssumption /\ Login!SessionsAssumption

detail == <<execution, selected, header, stats, activity, open, deletion, reopened, failed>>
editor == <<job, shown, editing, form, load, save, rev, standing, turn>>
choice == <<project, current, selector, fetch, create, delete, mixed>>
login == <<session, cookie, page, request, disturbed, replaced>>
vars == <<part, detail, editor, choice, login>>

Init ==
  /\ part \in {"detail", "editor", "selector", "login"}
  /\ Detail!Init /\ Editor!Init /\ Selector!Init /\ Login!Init

DetailStep == part = "detail" /\ Detail!Next /\ UNCHANGED <<part, editor, choice, login>>
EditorStep == part = "editor" /\ Editor!Next /\ UNCHANGED <<part, detail, choice, login>>
SelectorStep == part = "selector" /\ Selector!Next /\ UNCHANGED <<part, detail, editor, login>>
LoginStep == part = "login" /\ Login!Next /\ UNCHANGED <<part, detail, editor, choice>>

Next == DetailStep \/ EditorStep \/ SelectorStep \/ LoginStep

Spec == Init /\ [][Next]_vars

\* The types of all four.
TypeOK == Detail!TypeOK /\ Editor!TypeOK /\ Selector!TypeOK /\ Login!TypeOK

\* JobDetail: a screen whose answers are there is that of the job its buttons act on, and
\* its list has what its statistics count.
ScreenOfOneJob == Detail!ScreenOfOneJob

\* JobEditor: what is saved for a job was loaded from it, takes back nothing that others or
\* the saves before it have done, and leaves the steps and options of other jobs to them.
SavesAreSound == Editor!SavesAreSound

\* Projects: the selector shows the project new things go into.
SelectorShowsCurrent == Selector!SelectorShowsCurrent

\* Sessions: a session nobody holds is not open.
LiveSessionsHeld == Login!LiveSessionsHeld
=============================================================================
