------------------------------ MODULE JobDetail -------------------------------
(***************************************************************************)
(* The detail screen of a job in the browser (web/app.js): it asks for the *)
(* job, for the statistics of its executions and for their list, one after *)
(* the other, and shows each answer whatever job is selected by then       *)
(* (handleGetJobStats, handleGetJobExecutions in internal/api/handlers.go  *)
(* and ListExecutions in internal/repository/postgres.go).  Executions are *)
(* enqueued and settled meanwhile, and outlive their job; the buttons of   *)
(* the screen act on the job that is selected.  The rows of jobs and the   *)
(* numbers shown are left out.                                             *)
(***************************************************************************)

CONSTANTS
  Jobs,        \* the jobs
  Executions,  \* the ids of executions
  Opens,       \* bound: how many openings of the screen are in flight
  None         \* no job

JobDetailAssumption == None \notin Jobs

VARIABLES
  execution,  \* the table executions: the job of each, and whether it has ended
  selected,   \* currentSelectedJobID
  header,     \* the job whose name and id are shown
  stats,      \* the executions counted
  activity,   \* the executions listed
  open,       \* openJobDetails: the openings in flight
  delete,     \* deleteJob: the job of the request in flight
  crossed,    \* history: the job was opened while an earlier opening was in flight
  failed      \* history: a request of an opening failed since

screen == <<selected, header, stats, activity>>
vars == <<execution, screen, open, delete, crossed, failed>>

NoRow == [job |-> None, ended |-> FALSE]
Rows == {e \in Executions : execution[e] # NoRow}
NoOpen == [of |-> None, pc |-> "idle", stats |-> {}, list |-> {}]

TypeOK ==
  /\ execution \in [Executions -> [job : Jobs, ended : BOOLEAN] \cup {NoRow}]
  /\ selected \in Jobs \cup {None} /\ header \in Jobs \cup {None}
  /\ stats \subseteq Executions /\ activity \subseteq Executions
  /\ open \in [Opens -> [of : Jobs \cup {None},
                         pc : {"idle", "job", "jobHere", "stats", "statsHere", "list", "listHere"},
                         stats : SUBSET Executions, list : SUBSET Executions]]
  /\ delete \in Jobs \cup {None} /\ crossed \in BOOLEAN /\ failed \in BOOLEAN

Init ==
  /\ execution = [e \in Executions |-> NoRow]
  /\ selected = None /\ header = None /\ stats = {} /\ activity = {}
  /\ open = [o \in Opens |-> NoOpen] /\ delete = None
  /\ crossed = FALSE /\ failed = FALSE

Waiting == \E o \in Opens : open[o] # NoOpen

----------------------------------------------------------------------------
(* The table.  A second target or a retry takes an execution that has ended back   *)
(* to running (see Executions).                                                    *)

CreateExecution(e, j) ==
  /\ e \notin Rows
  /\ execution' = [execution EXCEPT ![e] = [job |-> j, ended |-> FALSE]]
  /\ UNCHANGED <<screen, open, delete, crossed, failed>>

UpdateExecution(e) ==
  /\ e \in Rows
  /\ execution' = [execution EXCEPT ![e].ended = ~@]
  /\ UNCHANGED <<screen, open, delete, crossed, failed>>

----------------------------------------------------------------------------
(* The server. *)

Goto(o, pc) == open' = [open EXCEPT ![o].pc = pc]

handleGetJob(o) ==
  /\ open[o].pc = "job"
  /\ Goto(o, "jobHere")
  /\ UNCHANGED <<execution, screen, delete, crossed, failed>>

\* Variant: the statistics are those of all jobs.
CountedOfAll(j) == Rows

\* All executions are listed, and those of the job counted.
Counted(j) == {e \in Rows : execution[e].job = j}

handleGetJobStats(o) ==
  /\ open[o].pc = "stats"
  /\ open' = [open EXCEPT ![o].pc = "statsHere", ![o].stats = Counted(open[o].of)]
  /\ UNCHANGED <<execution, screen, delete, crossed, failed>>

Listed(j) == {e \in Rows : execution[e].job = j}

handleGetJobExecutions(o) ==
  /\ open[o].pc = "list"
  /\ open' = [open EXCEPT ![o].pc = "listHere", ![o].list = Listed(open[o].of)]
  /\ UNCHANGED <<execution, screen, delete, crossed, failed>>

----------------------------------------------------------------------------
(* The browser. *)

\* From the list of jobs.  What was shown before stays until the answers come.
openJobDetails(j) ==
  /\ \E o \in Opens :
       /\ open[o] = NoOpen
       /\ open' = [open EXCEPT ![o] = [NoOpen EXCEPT !.of = j, !.pc = "job"]]
  /\ selected' = j
  /\ crossed' = Waiting /\ failed' = FALSE
  /\ UNCHANGED <<execution, header, stats, activity, delete>>

backToJobsList ==
  /\ selected # None /\ selected' = None
  /\ UNCHANGED <<execution, header, stats, activity, open, delete, crossed, failed>>

ShowJob(o) ==
  /\ open[o].pc = "jobHere"
  /\ header' = open[o].of
  /\ Goto(o, "stats")
  /\ UNCHANGED <<execution, selected, stats, activity, delete, crossed, failed>>

loadJobStats(o) ==
  /\ open[o].pc = "statsHere"
  /\ stats' = open[o].stats
  /\ Goto(o, "list")
  /\ UNCHANGED <<execution, selected, header, activity, delete, crossed, failed>>

loadJobActivity(o) ==
  /\ open[o].pc = "listHere"
  /\ activity' = open[o].list
  /\ open' = [open EXCEPT ![o] = NoOpen]
  /\ UNCHANGED <<execution, selected, header, stats, delete, crossed, failed>>

\* An error leaves what is shown, but the list gives way to it; the next request follows.
RequestFails(o) ==
  /\ open[o] # NoOpen
  /\ \/ open[o].pc \in {"job", "jobHere"} /\ Goto(o, "stats") /\ UNCHANGED activity
     \/ open[o].pc \in {"stats", "statsHere"} /\ Goto(o, "list") /\ UNCHANGED activity
     \/ /\ open[o].pc \in {"list", "listHere"}
        /\ open' = [open EXCEPT ![o] = NoOpen] /\ activity' = {}
  /\ failed' = TRUE
  /\ UNCHANGED <<execution, selected, header, stats, delete, crossed>>

\* The buttons of the screen.
runCurrentJobDetail(e) == selected # None /\ CreateExecution(e, selected)

deleteJob ==
  /\ selected # None /\ delete = None
  /\ delete' = selected
  /\ UNCHANGED <<execution, screen, open, crossed, failed>>

\* The screen is left if it still is that of the job.
Left == IF selected = delete THEN None ELSE selected

\* An error is an alert.
DeleteArrives ==
  /\ delete # None /\ delete' = None
  /\ selected' \in {selected, Left}
  /\ UNCHANGED <<execution, header, stats, activity, open, crossed, failed>>

----------------------------------------------------------------------------
Next ==
  \/ \E e \in Executions :
       \/ \E j \in Jobs : CreateExecution(e, j)
       \/ UpdateExecution(e) \/ runCurrentJobDetail(e)
  \/ \E o \in Opens :
       \/ handleGetJob(o) \/ handleGetJobStats(o) \/ handleGetJobExecutions(o)
       \/ ShowJob(o) \/ loadJobStats(o) \/ loadJobActivity(o) \/ RequestFails(o)
  \/ \E j \in Jobs : openJobDetails(j)
  \/ backToJobsList \/ deleteJob \/ DeleteArrives

Spec == Init /\ [][Next]_vars

----------------------------------------------------------------------------
(* What the screen promises. *)

Settled == selected # None /\ ~Waiting /\ ~crossed /\ ~failed

\* Once its answers are there the screen is that of one job, the one its buttons act on,
\* unless an earlier opening was still in flight or a request failed; and whatever has been
\* counted can be looked up in the list.
ScreenOfOneJob ==
  Settled =>
    /\ header = selected
    /\ stats \subseteq activity
    /\ \A e \in activity : execution[e].job = selected
=============================================================================
