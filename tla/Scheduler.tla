------------------------------ MODULE Scheduler ------------------------------
(***************************************************************************)
(* Cron schedules: the table schedules against the cron entries that each  *)
(* server process keeps in memory (internal/scheduler/service.go).         *)
(*                                                                         *)
(* A handler of internal/api/handlers.go first changes the row and then,   *)
(* in a second step, the entry of its own process.  Only the second step   *)
(* is protected by the mutex of the scheduler service, and nothing tells   *)
(* the scheduler of a row that a cascade, another server or a statement    *)
(* whose answer was lost has changed.                                      *)
(***************************************************************************)
EXTENDS Naturals, FiniteSets

CONSTANTS
  Servers,      \* the cmd/server processes on one database
  Schedules,    \* schedule ids
  Jobs,         \* job ids
  Definitions,  \* what a schedule may say: its job, its expression, enabled or not
  ValidExprs,   \* the expressions the cron parser accepts
  Requests,     \* API requests being served at the same time
  EntryIds,     \* entry ids of the cron library, reused here once they are free
  None          \* no row, no entry, no entry id, no server

ASSUME DefinitionsAssumption ==
  /\ \A d \in Definitions : d.job \in Jobs /\ d.enabled \in BOOLEAN
  /\ IsFiniteSet(Schedules) /\ IsFiniteSet(EntryIds)
  /\ Cardinality(EntryIds) >= Cardinality(Schedules)
  /\ None \notin Definitions /\ None \notin EntryIds /\ None \notin Servers
  /\ None \notin [id : Schedules, def : Definitions]

VARIABLES
  jobs,       \* the ids in the table jobs
  row,        \* the table schedules
  server,     \* each server process: down, listing, starting or up
  todo,       \* the rows a starting server listed and has not registered yet
  entries,    \* the entries of each server's cron: schedule and captured row
  entryIDs,   \* each server's map from schedule to entry id
  request,    \* each request in progress
  firing,     \* cron callbacks that have started and not yet enqueued
  saved,      \* history: every definition a schedule has had in the table
  disturbed   \* history: per server, the schedules changed behind its back

memory == <<server, todo, entries, entryIDs>>
vars == <<jobs, row, memory, request, firing, saved, disturbed>>

----------------------------------------------------------------------------
Entry == [id : Schedules, def : Definitions]
Idle == [pc |-> "idle"]
\* "abandoned": the handler has answered with an error; its statement is still under way,
\* and no server's matter any more.
Request == {Idle} \cup [pc : {"save", "register", "abandoned"}, srv : Servers \cup {None},
                        id : Schedules, op : {"create", "update", "delete"},
                        def : Definitions \cup {None}]

TypeOK ==
  /\ jobs \in SUBSET Jobs
  /\ row \in [Schedules -> Definitions \cup {None}]
  /\ server \in [Servers -> {"down", "listing", "starting", "up"}]
  /\ todo \in [Servers -> SUBSET Entry]
  /\ entries \in [Servers -> [EntryIds -> Entry \cup {None}]]
  /\ entryIDs \in [Servers -> [Schedules -> EntryIds \cup {None}]]
  /\ request \in [Requests -> Request]
  /\ firing \in SUBSET [srv : Servers, id : Schedules, def : Definitions]
  /\ saved \in [Schedules -> SUBSET Definitions]
  /\ disturbed \in [Servers -> SUBSET Schedules]

Init ==
  /\ jobs = Jobs
  /\ row = [i \in Schedules |-> None]
  /\ server = [v \in Servers |-> "down"]
  /\ todo = [v \in Servers |-> {}]
  /\ entries = [v \in Servers |-> [n \in EntryIds |-> None]]
  /\ entryIDs = [v \in Servers |-> [i \in Schedules |-> None]]
  /\ request = [r \in Requests |-> Idle]
  /\ firing = {}
  /\ saved = [i \in Schedules |-> {}]
  /\ disturbed = [v \in Servers |-> {}]

\* A request that has changed the row of a schedule and not yet its cron entry.
Pending(r, i) == request[r].pc = "register" /\ request[r].id = i

----------------------------------------------------------------------------
(* The scheduler service; each operation runs under its mutex. *)

\* Variant: the entry a schedule already has is left in the cron.
KeepOldEntry(v, i) == entries[v]

\* cron.Remove of the entry the map knows.
WithoutEntry(v, i) ==
  IF entryIDs[v][i] = None THEN entries[v]
  ELSE [entries[v] EXCEPT ![entryIDs[v][i]] = None]

\* An id AddFunc may hand out: no entry has it and the map does not hold it.
FreeId(v, i) ==
  CHOOSE n \in EntryIds : /\ WithoutEntry(v, i)[n] = None
                          /\ \A j \in Schedules \ {i} : entryIDs[v][j] # n

\* The old entry goes first, so a disabled or unparsable schedule ends with none.
AddScheduleToCron(v, i, d) ==
  IF d.enabled /\ d.expr \in ValidExprs
    THEN /\ entries' = [entries EXCEPT ![v] =
                          [WithoutEntry(v, i) EXCEPT ![FreeId(v, i)] = [id |-> i, def |-> d]]]
         /\ entryIDs' = [entryIDs EXCEPT ![v][i] = FreeId(v, i)]
    ELSE /\ entries' = [entries EXCEPT ![v] = WithoutEntry(v, i)]
         /\ entryIDs' = [entryIDs EXCEPT ![v][i] = None]

RemoveScheduleFromCron(v, i) ==
  /\ entries' = [entries EXCEPT ![v] = WithoutEntry(v, i)]
  /\ entryIDs' = [entryIDs EXCEPT ![v][i] = None]

----------------------------------------------------------------------------
(* The handlers of the schedule API. *)

\* A new schedule is enabled; a deletion brings no definition.
Receive(r, v, op, i, d) ==
  /\ request[r] = Idle
  /\ server[v] = "up"
  /\ op = "create" => d.enabled
  /\ request' = [request EXCEPT ![r] = [pc |-> "save", srv |-> v, id |-> i, op |-> op,
                                        def |-> IF op = "delete" THEN None ELSE d]]
  /\ UNCHANGED <<jobs, row, memory, firing, saved, disturbed>>

\* A write by server v that nobody else is in the middle of brings v back in step;
\* every other server, and everybody when two requests overlap, is left behind.
Disturb(r, v, i) ==
  disturbed' = [w \in Servers |->
    IF w = v /\ ~\E q \in Requests \ {r} : Pending(q, i)
      THEN disturbed[w] \ {i} ELSE disturbed[w] \cup {i}]

\* CreateSchedule needs a fresh id, the other statements an existing one, and the
\* foreign key an existing job; otherwise the request ends with an error.
Accepted(q) ==
  /\ (q.op = "create") <=> (row[q.id] = None)
  /\ q.op # "delete" => q.def.job \in jobs

\* The statement of a request takes effect.
Write(q) ==
  /\ Accepted(q)
  /\ row' = [row EXCEPT ![q.id] = IF q.op = "delete" THEN None ELSE q.def]
  /\ saved' = [saved EXCEPT ![q.id] = IF q.op = "delete" THEN @ ELSE @ \cup {q.def}]

Save(r) ==
  LET q == request[r]
  IN /\ q.pc = "save"
     /\ Write(q)
     /\ Disturb(r, q.srv, q.id)
     /\ request' = [request EXCEPT ![r].pc = "register"]
     /\ UNCHANGED <<jobs, memory, firing>>

\* The client hangs up, which ends the context of the statement, or the connection to the
\* database breaks: the handler answers with an error and leaves the cron as it is.
Abandon(r) ==
  /\ request[r].pc = "save"
  /\ request' = [request EXCEPT ![r].pc = "abandoned", ![r].srv = None]
  /\ UNCHANGED <<jobs, row, memory, firing, saved, disturbed>>

\* The statement may have reached the database for all that, and no cron hears of it.
TakesEffect(r) ==
  LET q == request[r]
  IN /\ q.pc = "abandoned"
     /\ Write(q)
     /\ disturbed' = [w \in Servers |-> disturbed[w] \cup {q.id}]
     /\ request' = [request EXCEPT ![r] = Idle]
     /\ UNCHANGED <<jobs, memory, firing>>

\* The statement comes to nothing: it is refused, or it never gets to the database.
Refuse(r) ==
  /\ request[r].pc \in {"save", "abandoned"}
  /\ request' = [request EXCEPT ![r] = Idle]
  /\ UNCHANGED <<jobs, row, memory, firing, saved, disturbed>>

\* Variant: a deleted schedule is forgotten by the map and stays in the cron.
RegisterOnly(r) ==
  LET q == request[r]
  IN /\ q.pc = "register"
     /\ IF q.op = "delete" THEN UNCHANGED <<entries, entryIDs>>
                           ELSE AddScheduleToCron(q.srv, q.id, q.def)
     /\ request' = [request EXCEPT ![r] = Idle]
     /\ UNCHANGED <<jobs, row, server, todo, firing, saved, disturbed>>

Register(r) ==
  LET q == request[r]
  IN /\ q.pc = "register"
     /\ IF q.op = "delete" THEN RemoveScheduleFromCron(q.srv, q.id)
                           ELSE AddScheduleToCron(q.srv, q.id, q.def)
     /\ request' = [request EXCEPT ![r] = Idle]
     /\ UNCHANGED <<jobs, row, server, todo, firing, saved, disturbed>>

\* Deleting a job, or the project it belongs to, cascades to the rows of its
\* schedules; no handler of the schedule API runs.
DeleteJob(j) ==
  /\ j \in jobs
  /\ jobs' = jobs \ {j}
  /\ LET gone == {i \in Schedules : row[i] # None /\ row[i].job = j}
     IN /\ row' = [i \in Schedules |-> IF i \in gone THEN None ELSE row[i]]
        /\ disturbed' = [v \in Servers |-> disturbed[v] \cup gone]
  /\ UNCHANGED <<memory, request, firing, saved>>

CreateJob(j) ==
  /\ j \notin jobs
  /\ jobs' = jobs \cup {j}
  /\ UNCHANGED <<row, memory, request, firing, saved, disturbed>>

----------------------------------------------------------------------------
(* A server process starts, fires its entries, and dies. *)

\* Start first sets the cron going; the HTTP server is not listening yet.
StartCron(v) ==
  /\ server[v] = "down"
  /\ server' = [server EXCEPT ![v] = "listing"]
  /\ UNCHANGED <<jobs, row, todo, entries, entryIDs, request, firing, saved, disturbed>>

\* Variant: a row deleted during the scan comes back empty.
ListEveryId(v) ==
  /\ server[v] = "listing"
  /\ server' = [server EXCEPT ![v] = "starting"]
  /\ todo' = [todo EXCEPT ![v] = {[id |-> i, def |-> row[i]] : i \in Schedules}]
  /\ disturbed' = [disturbed EXCEPT ![v] = {}]
  /\ UNCHANGED <<jobs, row, entries, entryIDs, request, firing, saved>>

ListSchedules(v) ==
  /\ server[v] = "listing"
  /\ server' = [server EXCEPT ![v] = "starting"]
  /\ todo' = [todo EXCEPT ![v] =
                {[id |-> i, def |-> row[i]] : i \in {i \in Schedules : row[i] # None}}]
  /\ disturbed' = [disturbed EXCEPT ![v] = {}]
  /\ UNCHANGED <<jobs, row, entries, entryIDs, request, firing, saved>>

\* main only logs the error: the server comes up without any schedule.
ListFails(v) ==
  /\ server[v] = "listing"
  /\ server' = [server EXCEPT ![v] = "up"]
  /\ disturbed' = [disturbed EXCEPT ![v] = Schedules]
  /\ UNCHANGED <<jobs, row, todo, entries, entryIDs, request, firing, saved>>

\* Variant: the listed rows are counted and not registered.
RegisterNone(v) ==
  /\ server[v] = "starting"
  /\ todo' = [todo EXCEPT ![v] = {}]
  /\ server' = [server EXCEPT ![v] = "up"]
  /\ UNCHANGED <<jobs, row, entries, entryIDs, request, firing, saved, disturbed>>

RegisterListed(v) ==
  /\ server[v] = "starting"
  /\ \/ \E n \in todo[v] :
          /\ todo' = [todo EXCEPT ![v] = @ \ {n}]
          /\ AddScheduleToCron(v, n.id, n.def)
          /\ UNCHANGED server
     \/ /\ todo[v] = {}
        /\ server' = [server EXCEPT ![v] = "up"]
        /\ UNCHANGED <<todo, entries, entryIDs>>
  /\ UNCHANGED <<jobs, row, request, firing, saved, disturbed>>

\* A statement that a handler has given up outlives the process.
Crash(v) ==
  /\ server[v] # "down"
  /\ server' = [server EXCEPT ![v] = "down"]
  /\ todo' = [todo EXCEPT ![v] = {}]
  /\ entries' = [entries EXCEPT ![v] = [n \in EntryIds |-> None]]
  /\ entryIDs' = [entryIDs EXCEPT ![v] = [i \in Schedules |-> None]]
  /\ request' = [r \in Requests |->
       IF request[r] # Idle /\ request[r].srv = v THEN Idle ELSE request[r]]
  /\ firing' = {f \in firing : f.srv # v}
  /\ UNCHANGED <<jobs, row, saved, disturbed>>

\* The cron loop starts the callback of an entry that is due; the callback holds
\* the row it was registered with and reads no other.
Fire(v, n) ==
  /\ entries[v][n] # None
  /\ firing' = firing \cup {[srv |-> v, id |-> entries[v][n].id, def |-> entries[v][n].def]}
  /\ UNCHANGED <<jobs, row, memory, request, saved, disturbed>>

\* EnqueueExecutionWithOptions of the captured job: an execution if the job still
\* exists, an error in the log otherwise.
Enqueue(f) ==
  /\ f \in firing
  /\ firing' = firing \ {f}
  /\ UNCHANGED <<jobs, row, memory, request, saved, disturbed>>

----------------------------------------------------------------------------
Handler(r) ==
  \/ \E v \in Servers, op \in {"create", "update", "delete"}, i \in Schedules,
        d \in Definitions : Receive(r, v, op, i, d)
  \/ Save(r) \/ Abandon(r) \/ TakesEffect(r) \/ Refuse(r) \/ Register(r)

Process(v) ==
  \/ StartCron(v) \/ ListSchedules(v) \/ ListFails(v) \/ RegisterListed(v) \/ Crash(v)
  \/ \E n \in EntryIds : Fire(v, n)

Next ==
  \/ \E r \in Requests : Handler(r)
  \/ \E v \in Servers : Process(v)
  \/ \E f \in firing : Enqueue(f)
  \/ \E j \in Jobs : DeleteJob(j) \/ CreateJob(j)

Spec == Init /\ [][Next]_vars

\* The cron loop of a process keeps firing its entries, and callbacks end.
FairSpec ==
  /\ Spec
  /\ \A v \in Servers, n \in EntryIds : WF_vars(Fire(v, n))
  /\ WF_vars(\E f \in firing : Enqueue(f))

----------------------------------------------------------------------------
(* What the cron of a server can be trusted for. *)

Live(v, i) == {n \in EntryIds : entries[v][n] # None /\ entries[v][n].id = i}
Active(i) == row[i] # None /\ row[i].enabled /\ row[i].expr \in ValidExprs

\* Every entry of a cron can still be removed: it is the one the map holds for its
\* schedule, and no schedule has two.  An entry that slips out of the map would go
\* on firing until the process ends, whatever is done to its schedule.
EntriesRemovable ==
  \A v \in Servers, i \in Schedules :
    Live(v, i) = IF entryIDs[v][i] = None THEN {} ELSE {entryIDs[v][i]}

\* The cron of a running server fires exactly the rows of the table, as they are,
\* except for a schedule somebody is just changing and for those changed behind its
\* back: by an overlapping request, another server, a cascade, a failed listing or a
\* statement that took effect although its handler answered with an error.  A later
\* request that nothing overlaps, or a restart, brings it back in step.  And even behind
\* its back nothing fires but what was committed and enabled, never what a request had
\* asked for that came to nothing.
CronFollowsTable ==
  /\ \A v \in Servers : server[v] = "up" =>
       \A i \in Schedules \ disturbed[v] :
         \/ \E r \in Requests : Pending(r, i)
         \/ {entries[v][n].def : n \in Live(v, i)} = IF Active(i) THEN {row[i]} ELSE {}
  /\ \A f \in firing : f.def \in saved[f.id] /\ f.def.enabled /\ f.def.expr \in ValidExprs

\* A schedule that stays active and is left alone keeps firing, with the definition
\* the table holds, on every server that stays up.
ActiveSchedulesFire ==
  \A v \in Servers, i \in Schedules, d \in Definitions :
    <>[](/\ server[v] = "up" /\ i \notin disturbed[v]
         /\ ~\E r \in Requests : Pending(r, i)
         /\ Active(i) /\ row[i] = d)
      => []<>([srv |-> v, id |-> i, def |-> d] \in firing)
=============================================================================
