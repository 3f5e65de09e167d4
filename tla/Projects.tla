------------------------------- MODULE Projects -------------------------------
(***************************************************************************)
(* Projects and the project selector: the table projects                   *)
(* (internal/repository/postgres.go, internal/api/handlers.go), whose ids  *)
(* are derived from names, and one browser (web/app.js) that lists,        *)
(* creates, selects and deletes projects while others do so, too.  What    *)
(* the browser creates goes into currentProjectID; what the user sees is   *)
(* the selector.                                                           *)
(***************************************************************************)
EXTENDS Naturals, FiniteSets

CONSTANTS
  Ids,        \* the ids of projects
  Default,    \* the id "default"
  SeedId,     \* the id that "Default Project", the name of the default project, yields
  Spellings,  \* the ways to write a name that differ in case, or in a space for a dash
  Fetches,    \* bound: the listings in flight
  All, None   \* the selector's "(All Projects)"; no project

ProjectsAssumption ==
  /\ {Default, SeedId} \subseteq Ids /\ Default # SeedId
  /\ Spellings # {} /\ All # None /\ {All, None} \cap Ids = {}

\* A name is its lower case with dashes for spaces, and how it is spelt.
Name == [lower : Ids, spelling : Spellings]
Seed == [lower |-> SeedId, spelling |-> CHOOSE s \in Spellings : TRUE]
NoRow == [lower |-> None, spelling |-> None]

VARIABLES
  project,    \* the table: the name of each project
  current,    \* currentProjectID
  selector,   \* the options of the selector, and the one it shows
  fetch,      \* loadProjects: the listings in flight, and what is selected after each
  create,     \* createProjectPrompt: the request in flight
  delete,     \* deleteProject: the request in flight
  disturbed   \* history: answers crossed or failed, or others deleted a project

browser == <<current, selector>>
vars == <<project, browser, fetch, create, delete, disturbed>>

Rows == {i \in Ids : project[i] # NoRow}
NoFetch == [pc |-> "idle", ids |-> {}, then |-> None]
NoCreate == [pc |-> "idle", name |-> NoRow]
NoDelete == [pc |-> "idle", id |-> None]

TypeOK ==
  /\ project \in [Ids -> Name \cup {NoRow}]
  /\ current \in Ids \cup {All}
  /\ selector \in [options : SUBSET Ids, value : Ids \cup {All, None}]
  /\ fetch \in [Fetches -> [pc : {"idle", "sent", "ok", "error"}, ids : SUBSET Ids,
                            then : Ids \cup {None}]]
  /\ create \in [pc : {"idle", "sent", "ok", "error"}, name : Name \cup {NoRow}]
  /\ delete \in [pc : {"idle", "sent", "ok", "error"}, id : Ids \cup {None}]
  /\ disturbed \in BOOLEAN
  /\ Default \in Rows
  /\ \A i \in Rows : project[i].lower = i \/ (i = Default /\ project[i] = Seed)

\* The page has been loaded, with its first listing under way: the selector has the option
\* the page comes with, while no project is current yet.
Init ==
  /\ project = [i \in Ids |-> IF i = Default THEN Seed ELSE NoRow]
  /\ current = All /\ selector = [options |-> {Default}, value |-> Default]
  /\ \E f \in Fetches :
       fetch = [[g \in Fetches |-> NoFetch] EXCEPT ![f].pc = "sent"]
  /\ create = NoCreate /\ delete = NoDelete
  /\ disturbed = FALSE

Listing == \E f \in Fetches : fetch[f] # NoFetch
Waiting == Listing \/ create # NoCreate \/ delete # NoDelete

----------------------------------------------------------------------------
(* The server. *)

\* CreateProject: an insert that becomes an update where the id exists; the name must be
\* unique.  (A statement may fail.)
Put(name, then, else) ==
  \/ /\ \A i \in Rows \ {name.lower} : project[i] # name
     /\ project' = [project EXCEPT ![name.lower] = name] /\ then
  \/ UNCHANGED project /\ else

handleCreateProject ==
  /\ create.pc = "sent"
  /\ Put(create.name, create' = [create EXCEPT !.pc = "ok"], create' = [create EXCEPT !.pc = "error"])
  /\ UNCHANGED <<browser, fetch, delete, disturbed>>

\* Variant: the default project is like any other.
DropAny(i, then, else) ==
  \/ i \in Rows /\ project' = [project EXCEPT ![i] = NoRow] /\ then
  \/ UNCHANGED project /\ else

\* DeleteProject; the rows of the project go with it.
Drop(i, then, else) ==
  \/ i \in Rows \ {Default} /\ project' = [project EXCEPT ![i] = NoRow] /\ then
  \/ UNCHANGED project /\ else

handleDeleteProject ==
  /\ delete.pc = "sent"
  /\ Drop(delete.id, delete' = [delete EXCEPT !.pc = "ok"], delete' = [delete EXCEPT !.pc = "error"])
  /\ UNCHANGED <<browser, fetch, create, disturbed>>

\* ListProjects: one statement.
handleListProjects(f) ==
  /\ fetch[f].pc = "sent"
  /\ fetch' = [fetch EXCEPT ![f].pc = "ok", ![f].ids = Rows]
  /\ UNCHANGED <<project, browser, create, delete, disturbed>>

ListFails(f) ==
  /\ fetch[f].pc = "sent"
  /\ fetch' = [fetch EXCEPT ![f].pc = "error"]
  /\ disturbed' = TRUE
  /\ UNCHANGED <<project, browser, create, delete>>

\* What was done is not known to the browser.
Lose ==
  /\ \/ create.pc = "ok" /\ create' = [create EXCEPT !.pc = "error"] /\ UNCHANGED delete
     \/ delete.pc = "ok" /\ delete' = [delete EXCEPT !.pc = "error"] /\ UNCHANGED create
  /\ disturbed' = TRUE
  /\ UNCHANGED <<project, browser, fetch>>

\* The requests of others that succeed; any name, and any project that is not protected.
OtherCreates(name) ==
  /\ Put(name, TRUE, FALSE)
  /\ UNCHANGED <<browser, fetch, create, delete, disturbed>>

OtherDeletes(i) ==
  /\ Drop(i, disturbed' = TRUE, FALSE)
  /\ UNCHANGED <<browser, fetch, create, delete>>

----------------------------------------------------------------------------
(* The browser. *)

loadProjects(then) ==
  \E f \in Fetches :
    /\ fetch[f] = NoFetch
    /\ fetch' = [fetch EXCEPT ![f] = [NoFetch EXCEPT !.pc = "sent", !.then = then]]

\* The tab is opened, or its list refreshed.
Refresh ==
  /\ loadProjects(None)
  /\ disturbed' = (disturbed \/ Waiting)
  /\ UNCHANGED <<project, browser, create, delete>>

\* From the selector, or from the list, which shows the same projects.
onSelectHeaderProject(i) ==
  /\ i \in selector.options \cup {All}
  /\ current' = i /\ selector' = [selector EXCEPT !.value = i]
  /\ disturbed' = (disturbed \/ Listing)
  /\ UNCHANGED <<project, fetch, create, delete>>

createProjectPrompt(name) ==
  /\ create = NoCreate
  /\ create' = [pc |-> "sent", name |-> name]
  /\ disturbed' = (disturbed \/ Waiting)
  /\ UNCHANGED <<project, browser, fetch, delete>>

deleteProject(i) ==
  /\ delete = NoDelete /\ i \in selector.options \ {Default}
  /\ delete' = [pc |-> "sent", id |-> i]
  /\ disturbed' = (disturbed \/ Waiting)
  /\ UNCHANGED <<project, browser, fetch, create>>

\* The project is selected once the list has been renewed; an error is an alert.
CreateArrives ==
  /\ create.pc \in {"ok", "error"}
  /\ create' = NoCreate
  /\ IF create.pc = "ok" THEN loadProjects(create.name.lower) ELSE UNCHANGED fetch
  /\ UNCHANGED <<project, browser, delete, disturbed>>

\* Variant: the deleted project stays the current one.
DeletedStays == UNCHANGED current

\* There is no current project any more if it was this one.
Deleted == current' = IF current = delete.id THEN All ELSE current

DeleteArrives ==
  /\ delete.pc \in {"ok", "error"}
  /\ delete' = NoDelete
  /\ IF delete.pc = "ok" THEN Deleted /\ loadProjects(None) ELSE UNCHANGED <<current, fetch>>
  /\ UNCHANGED <<project, selector, create, disturbed>>

\* The options are made anew; without the current project the first one, All, is shown.
\* An error leaves them.  selectProject shows nothing where there is no such option.
ListArrives(f) ==
  LET options == IF fetch[f].pc = "ok" THEN fetch[f].ids ELSE selector.options
      shown == IF fetch[f].pc = "error" THEN selector.value
               ELSE IF current \in options THEN current ELSE All
      then == fetch[f].then
  IN
  /\ fetch[f].pc \in {"ok", "error"}
  /\ fetch' = [fetch EXCEPT ![f] = NoFetch]
  /\ selector' = [options |-> options,
                  value |-> IF then = None THEN shown ELSE IF then \in options THEN then ELSE None]
  /\ current' = IF then = None THEN current ELSE then
  /\ UNCHANGED <<project, create, delete, disturbed>>

----------------------------------------------------------------------------
Next ==
  \/ handleCreateProject \/ handleDeleteProject \/ Lose
  \/ \E f \in Fetches : handleListProjects(f) \/ ListFails(f) \/ ListArrives(f)
  \/ \E name \in Name : OtherCreates(name) \/ createProjectPrompt(name)
  \/ \E i \in Ids : OtherDeletes(i) \/ deleteProject(i)
  \/ \E i \in Ids \cup {All} : onSelectHeaderProject(i)
  \/ Refresh \/ CreateArrives \/ DeleteArrives

Spec == Init /\ [][Next]_vars

----------------------------------------------------------------------------
(* What a user of the selector relies on. *)

\* When all answers are there, the selector shows the project that new jobs and targets
\* go into, unless answers crossed or got lost, or somebody else has deleted one.
SelectorShowsCurrent == ~disturbed /\ ~Waiting => selector.value = current
=============================================================================
