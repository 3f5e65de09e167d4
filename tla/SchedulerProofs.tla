--------------------------- MODULE SchedulerProofs ---------------------------
(***************************************************************************)
(* Theorems about Scheduler, for any servers, schedules, definitions and   *)
(* requests: the map of a server knows each entry of its cron, and the     *)
(* cron fires what the table says wherever the server can know it.         *)
(***************************************************************************)
EXTENDS Scheduler, FiniteSetTheorems, TLAPS

\* A request in progress is one of a running server, and only a deletion comes without
\* a definition.
RequestSound(q) ==
  /\ q.pc \in {"save", "register"} => q.srv \in Servers /\ server[q.srv] = "up"
  /\ q.pc # "idle" /\ q.op # "delete" => q.def \in Definitions

\* A process that has not listed its schedules has an empty cron, and only one that is
\* registering has something left to register, one row a schedule at most.
Fresh(v) ==
  /\ server[v] \in {"down", "listing"} =>
       \A n \in EntryIds : entries[v][n] = None
  /\ server[v] # "starting" => todo[v] = {}
  /\ \A m, n \in todo[v] : m.id = n.id => m = n

\* The map of a server and the entries of its cron are inverse to each other.
MapKnows(v) ==
  /\ \A n \in EntryIds : entries[v][n] # None => entryIDs[v][entries[v][n].id] = n
  /\ \A i \in Schedules : entryIDs[v][i] # None =>
       /\ entries[v][entryIDs[v][i]] # None
       /\ entries[v][entryIDs[v][i]].id = i

MapInv ==
  /\ TypeOK
  /\ \A r \in Requests : RequestSound(request[r])
  /\ \A v \in Servers : Fresh(v) /\ MapKnows(v)

----------------------------------------------------------------------------
(* The operations on a cron. *)

\* However many schedules have an entry, there is an id left for one more.
LEMMA FreeIdIsFree ==
  ASSUME MapInv, NEW v \in Servers, NEW i \in Schedules
  PROVE  /\ FreeId(v, i) \in EntryIds
         /\ WithoutEntry(v, i)[FreeId(v, i)] = None
         /\ \A j \in Schedules \ {i} : entryIDs[v][j] # FreeId(v, i)
<1> DEFINE Others == Schedules \ {i}
           Taken == {entryIDs[v][j] : j \in Others}
<1>1. IsFiniteSet(Others) /\ Cardinality(Others) = Cardinality(Schedules) - 1
  BY DefinitionsAssumption, FS_RemoveElement
<1>2. IsFiniteSet(Taken) /\ Cardinality(Taken) <= Cardinality(Others)
  <2>1. [j \in Others |-> entryIDs[v][j]] \in Surjection(Others, Taken)
    BY DEF Surjection
  <2> HIDE DEF Others, Taken
  <2> QED BY <1>1, <2>1, FS_Surjection
<1>3. PICK n \in EntryIds : n \notin Taken
  <2>1. SUFFICES ASSUME EntryIds \subseteq Taken PROVE FALSE
    OBVIOUS
  <2> HIDE DEF Others, Taken
  <2>2. Cardinality(EntryIds) <= Cardinality(Taken)
    BY <1>2, <2>1, FS_Subset
  <2>3. /\ Cardinality(Others) \in Nat /\ Cardinality(Taken) \in Nat
        /\ Cardinality(Schedules) \in Nat /\ Cardinality(EntryIds) \in Nat
    BY <1>1, <1>2, DefinitionsAssumption, FS_CardinalityType
  <2> QED BY <1>1, <1>2, <2>2, <2>3, DefinitionsAssumption
<1>4. WithoutEntry(v, i)[n] = None
  <2>1. CASE entries[v][n] = None
    BY <2>1, DefinitionsAssumption DEF WithoutEntry, MapInv, TypeOK
  <2>2. CASE entries[v][n] # None
    <3>1. entries[v][n].id \in Schedules /\ entryIDs[v][entries[v][n].id] = n
      BY <2>2 DEF MapInv, MapKnows, TypeOK, Entry
    <3>2. entryIDs[v][i] = n
      BY <1>3, <3>1
    <3> QED BY <3>2, DefinitionsAssumption DEF WithoutEntry, MapInv, TypeOK
  <2> QED BY <2>1, <2>2
<1>5. \A j \in Schedules \ {i} : entryIDs[v][j] # n
  BY <1>3
<1> QED BY <1>3, <1>4, <1>5, Zenon DEF FreeId

\* Removing the entry that the map knows leaves no entry of the schedule, and all others.
LEMMA WithoutEntryDrops ==
  ASSUME MapInv, NEW v \in Servers, NEW i \in Schedules
  PROVE  /\ WithoutEntry(v, i) \in [EntryIds -> Entry \cup {None}]
         /\ \A n \in EntryIds : WithoutEntry(v, i)[n] # None =>
              WithoutEntry(v, i)[n] = entries[v][n] /\ entries[v][n].id # i
         /\ \A n \in EntryIds : entries[v][n] # None /\ entries[v][n].id # i =>
              WithoutEntry(v, i)[n] = entries[v][n]
<1> USE DEF MapInv, TypeOK, MapKnows
<1>1. CASE entryIDs[v][i] = None
  BY <1>1, DefinitionsAssumption DEF WithoutEntry, Entry
<1>2. CASE entryIDs[v][i] # None
  <2>1. WithoutEntry(v, i) = [entries[v] EXCEPT ![entryIDs[v][i]] = None]
    BY <1>2 DEF WithoutEntry
  <2> QED BY <1>2, <2>1 DEF Entry
<1> QED BY <1>1, <1>2

Fired(v, i) == {entries[v][n].def : n \in Live(v, i)}

\* What an operation on the cron of v does to schedule i: it fires defs afterwards, and
\* nothing else changes, here or elsewhere.
Registers(v, i, defs) ==
  /\ entries' \in [Servers -> [EntryIds -> Entry \cup {None}]]
  /\ entryIDs' \in [Servers -> [Schedules -> EntryIds \cup {None}]]
  /\ \A w \in Servers \ {v} : entries'[w] = entries[w] /\ entryIDs'[w] = entryIDs[w]
  /\ MapKnows(v)'
  /\ Fired(v, i)' = defs
  /\ \A j \in Schedules \ {i} : Fired(v, j)' = Fired(v, j)
  /\ \A n \in EntryIds : entries'[v][n] \in
       {None, entries[v][n]} \cup [id : {i}, def : defs]

LEMMA RemovingRegisters ==
  ASSUME MapInv, NEW v \in Servers, NEW i \in Schedules, RemoveScheduleFromCron(v, i)
  PROVE  Registers(v, i, {})
<1>1. /\ entries' = [entries EXCEPT ![v] = WithoutEntry(v, i)]
      /\ entryIDs' = [entryIDs EXCEPT ![v][i] = None]
  BY DEF RemoveScheduleFromCron
<1>2. /\ entries' \in [Servers -> [EntryIds -> Entry \cup {None}]]
      /\ entryIDs' \in [Servers -> [Schedules -> EntryIds \cup {None}]]
      /\ \A w \in Servers \ {v} : entries'[w] = entries[w] /\ entryIDs'[w] = entryIDs[w]
      /\ entries'[v] = WithoutEntry(v, i)
      /\ entryIDs'[v] = [entryIDs[v] EXCEPT ![i] = None]
  BY <1>1, WithoutEntryDrops DEF MapInv, TypeOK
<1>3. MapKnows(v)'
  <2>1. ASSUME NEW n \in EntryIds, entries'[v][n] # None
        PROVE  entryIDs'[v][entries'[v][n].id] = n
    BY <1>2, <2>1, WithoutEntryDrops DEF MapInv, TypeOK, MapKnows, Entry
  <2>2. ASSUME NEW j \in Schedules, entryIDs'[v][j] # None
        PROVE  entries'[v][entryIDs'[v][j]] # None /\ entries'[v][entryIDs'[v][j]].id = j
    BY <1>2, <2>2, WithoutEntryDrops DEF MapInv, TypeOK, MapKnows, Entry
  <2> QED BY <2>1, <2>2 DEF MapKnows
<1>4. Live(v, i)' = {} /\ \A j \in Schedules \ {i} : Live(v, j)' = Live(v, j)
  <2>1. Live(v, i)' = {}
    BY <1>2, WithoutEntryDrops DEF Live
  <2>2. ASSUME NEW j \in Schedules \ {i}, NEW n \in EntryIds
        PROVE  n \in Live(v, j)' <=> n \in Live(v, j)
    BY <1>2, WithoutEntryDrops DEF Live
  <2> QED BY <2>1, <2>2 DEF Live
<1>5. \A j \in Schedules \ {i} : \A n \in Live(v, j) : entries'[v][n] = entries[v][n]
  BY <1>2, WithoutEntryDrops DEF Live
<1>6. Fired(v, i)' = {} /\ \A j \in Schedules \ {i} : Fired(v, j)' = Fired(v, j)
  <2>1. Fired(v, i)' = {}
    BY <1>4 DEF Fired
  <2>2. ASSUME NEW j \in Schedules \ {i}
        PROVE  Fired(v, j)' = Fired(v, j)
    BY <1>4, <1>5 DEF Fired
  <2> QED BY <2>1, <2>2
<1>7. \A n \in EntryIds : entries'[v][n] \in {None, entries[v][n]}
  BY <1>2, WithoutEntryDrops
<1> QED BY <1>2, <1>3, <1>6, <1>7 DEF Registers

Runnable(d) == d.enabled /\ d.expr \in ValidExprs

LEMMA AddingRegisters ==
  ASSUME MapInv, NEW v \in Servers, NEW i \in Schedules, NEW d \in Definitions,
         AddScheduleToCron(v, i, d)
  PROVE  Registers(v, i, IF Runnable(d) THEN {d} ELSE {})
<1>1. CASE ~ Runnable(d)
  <2>1. RemoveScheduleFromCron(v, i)
    BY <1>1 DEF AddScheduleToCron, RemoveScheduleFromCron, Runnable
  <2> QED BY <1>1, <2>1, RemovingRegisters
<1>2. CASE Runnable(d)
  <2> DEFINE m == FreeId(v, i)
             entry == [id |-> i, def |-> d]
  <2>0. /\ m \in EntryIds /\ WithoutEntry(v, i)[m] = None
        /\ \A j \in Schedules \ {i} : entryIDs[v][j] # m
    BY FreeIdIsFree
  <2>1. /\ entries' = [entries EXCEPT ![v] = [WithoutEntry(v, i) EXCEPT ![m] = entry]]
        /\ entryIDs' = [entryIDs EXCEPT ![v][i] = m]
    BY <1>2 DEF AddScheduleToCron, Runnable
  <2>2. entry \in Entry /\ entry # None /\ m # None
    BY <2>0, DefinitionsAssumption DEF Entry
  <2> HIDE DEF m
  <2>3. /\ entries' \in [Servers -> [EntryIds -> Entry \cup {None}]]
        /\ entryIDs' \in [Servers -> [Schedules -> EntryIds \cup {None}]]
        /\ \A w \in Servers \ {v} : entries'[w] = entries[w] /\ entryIDs'[w] = entryIDs[w]
        /\ \A n \in EntryIds :
             entries'[v][n] = IF n = m THEN entry ELSE WithoutEntry(v, i)[n]
        /\ entryIDs'[v] = [entryIDs[v] EXCEPT ![i] = m]
    BY <2>0, <2>1, <2>2, WithoutEntryDrops DEF MapInv, TypeOK
  <2> HIDE DEF entry
  <2>4. entry.id = i /\ entry.def = d
    BY DEF entry
  <2>5. MapKnows(v)'
    <3>1. ASSUME NEW n \in EntryIds, entries'[v][n] # None
          PROVE  entryIDs'[v][entries'[v][n].id] = n
      BY <2>0, <2>2, <2>3, <2>4, <3>1, WithoutEntryDrops DEF MapInv, TypeOK, MapKnows, Entry
    <3>2. ASSUME NEW j \in Schedules, entryIDs'[v][j] # None
          PROVE  entries'[v][entryIDs'[v][j]] # None /\ entries'[v][entryIDs'[v][j]].id = j
      BY <2>0, <2>2, <2>3, <2>4, <3>2, WithoutEntryDrops DEF MapInv, TypeOK, MapKnows, Entry
    <3> QED BY <3>1, <3>2 DEF MapKnows
  <2>6. Live(v, i)' = {m} /\ \A j \in Schedules \ {i} : Live(v, j)' = Live(v, j)
    <3>1. Live(v, i)' = {m}
      BY <2>0, <2>2, <2>3, <2>4, WithoutEntryDrops DEF Live
    <3>2. ASSUME NEW j \in Schedules \ {i}, NEW n \in EntryIds
          PROVE  n \in Live(v, j)' <=> n \in Live(v, j)
      BY <2>0, <2>2, <2>3, <2>4, <3>2, WithoutEntryDrops DEF Live
    <3> QED BY <3>1, <3>2 DEF Live
  <2>7. \A j \in Schedules \ {i} : \A n \in Live(v, j) : entries'[v][n] = entries[v][n]
    BY <2>0, <2>3, WithoutEntryDrops DEF Live
  <2>8. Fired(v, i)' = {d} /\ \A j \in Schedules \ {i} : Fired(v, j)' = Fired(v, j)
    <3>1. Fired(v, i)' = {d}
      BY <2>0, <2>3, <2>4, <2>6 DEF Fired
    <3>2. ASSUME NEW j \in Schedules \ {i}
          PROVE  Fired(v, j)' = Fired(v, j)
      BY <2>6, <2>7 DEF Fired
    <3> QED BY <3>1, <3>2
  <2>9. \A n \in EntryIds : entries'[v][n] \in {None, entries[v][n]} \cup [id : {i}, def : {d}]
    <3>1. entry \in [id : {i}, def : {d}]
      BY DEF entry
    <3>2. \A n \in EntryIds : WithoutEntry(v, i)[n] \in {None, entries[v][n]}
      BY WithoutEntryDrops
    <3> QED BY <2>3, <3>1, <3>2
  <2> QED BY <1>2, <2>3, <2>5, <2>8, <2>9 DEF Registers
<1> QED BY <1>1, <1>2

----------------------------------------------------------------------------
(* The maps know the entries. *)

LEMMA MapInit == Init => MapInv
BY DefinitionsAssumption
   DEF Init, MapInv, TypeOK, RequestSound, Fresh, MapKnows, Idle, Request

\* An operation on one cron, of a process past its listing.
LEMMA RegistersKeepMaps ==
  ASSUME MapInv, NEW v \in Servers, NEW i \in Schedules, NEW defs, Registers(v, i, defs),
         server[v] \in {"starting", "up"}, UNCHANGED server
  PROVE  \A w \in Servers :
           /\ MapKnows(w)'
           /\ server'[w] \in {"down", "listing"} => \A n \in EntryIds : entries'[w][n] = None
BY DEF MapInv, Fresh, MapKnows, Registers

LEMMA MapRequests ==
  ASSUME MapInv, NEW r \in Requests, Handler(r)
  PROVE  MapInv'
<1> USE DEF MapInv, TypeOK, RequestSound
<1>1. ASSUME NEW v \in Servers, NEW op \in {"create", "update", "delete"},
             NEW i \in Schedules, NEW d \in Definitions, Receive(r, v, op, i, d)
      PROVE  MapInv'
  <2> DEFINE q == [pc |-> "save", srv |-> v, id |-> i, op |-> op,
                   def |-> IF op = "delete" THEN None ELSE d]
  <2>1. q \in Request /\ (q.op # "delete" => q.def \in Definitions) /\ q.srv = v
    BY DEF Request
  <2>2. request' = [request EXCEPT ![r] = q] /\ server[v] = "up"
    BY <1>1 DEF Receive
  <2> HIDE DEF q
  <2>3. \A s \in Requests : request'[s] = IF s = r THEN q ELSE request[s]
    BY <2>2
  <2> QED BY <1>1, <2>1, <2>2, <2>3 DEF Receive, memory, Fresh, MapKnows
<1>2. CASE Save(r)
  <2>1. request[r].pc = "save" /\ request[r] \in Request \ {Idle}
    BY <1>2 DEF Save, Request, Idle
  <2>2. /\ request' = [request EXCEPT ![r].pc = "register"]
        /\ request'[r].pc = "register" /\ request'[r].srv = request[r].srv
        /\ request'[r].op = request[r].op /\ request'[r].def = request[r].def
        /\ request'[r] \in Request
    BY <1>2, <2>1 DEF Save, Request, Idle
  <2>3. row' \in [Schedules -> Definitions \cup {None}]
        /\ saved' \in [Schedules -> SUBSET Definitions]
        /\ disturbed' \in [Servers -> SUBSET Schedules]
    <3>1. request[r].id \in Schedules /\ request[r].srv \in Servers
          /\ (request[r].op # "delete" => request[r].def \in Definitions)
      BY <2>1 DEF Request, Idle
    <3> QED BY <1>2, <3>1 DEF Save, Write, Disturb
  <2> QED BY <1>2, <2>2, <2>3 DEF Save, memory, Fresh, MapKnows
<1>3. CASE Refuse(r)
  BY <1>3 DEF Refuse, memory, Fresh, MapKnows, Idle, Request
<1>4. CASE Register(r)
  <2> DEFINE q == request[r]
  <2>1. /\ q.pc = "register" /\ q.srv \in Servers /\ q.id \in Schedules
        /\ server[q.srv] = "up" /\ (q.op # "delete" => q.def \in Definitions)
    BY <1>4 DEF Register, Request, Idle
  <2>2. PICK defs : Registers(q.srv, q.id, defs)
    <3>1. CASE q.op = "delete"
      BY <1>4, <2>1, <3>1, RemovingRegisters DEF Register
    <3>2. CASE q.op # "delete"
      BY <1>4, <2>1, <3>2, AddingRegisters DEF Register
    <3> QED BY <3>1, <3>2
  <2>3. /\ UNCHANGED <<jobs, row, server, todo, firing, saved, disturbed>>
        /\ request' = [request EXCEPT ![r] = Idle]
    BY <1>4 DEF Register
  <2>4. /\ entries' \in [Servers -> [EntryIds -> Entry \cup {None}]]
        /\ entryIDs' \in [Servers -> [Schedules -> EntryIds \cup {None}]]
    BY <2>2 DEF Registers
  <2>5. \A w \in Servers :
          /\ MapKnows(w)'
          /\ server'[w] \in {"down", "listing"} => \A n \in EntryIds : entries'[w][n] = None
    <3> HIDE DEF q
    <3> QED BY <2>1, <2>2, <2>3, RegistersKeepMaps
  <2> QED BY <2>3, <2>4, <2>5 DEF Fresh, Idle, Request
<1>5. CASE Abandon(r)
  <2>1. request[r].pc = "save" /\ request[r] \in Request \ {Idle}
    BY <1>5 DEF Abandon, Request, Idle
  <2>2. /\ request' = [request EXCEPT ![r].pc = "abandoned", ![r].srv = None]
        /\ request'[r].pc = "abandoned"
        /\ request'[r].op = request[r].op /\ request'[r].def = request[r].def
        /\ request'[r] \in Request
    BY <1>5, <2>1 DEF Abandon, Request, Idle
  <2>3. \A s \in Requests \ {r} : request'[s] = request[s]
    BY <2>2
  <2>4. request' \in [Requests -> Request]
    BY <2>2
  <2> QED BY <1>5, <2>1, <2>2, <2>3, <2>4 DEF Abandon, memory, Fresh, MapKnows
<1>6. CASE TakesEffect(r)
  <2>1. /\ request[r].id \in Schedules
        /\ (request[r].op # "delete" => request[r].def \in Definitions)
    BY <1>6 DEF TakesEffect, Request, Idle
  <2>2. /\ row' \in [Schedules -> Definitions \cup {None}]
        /\ saved' \in [Schedules -> SUBSET Definitions]
        /\ disturbed' \in [Servers -> SUBSET Schedules]
    BY <1>6, <2>1 DEF TakesEffect, Write
  <2> QED BY <1>6, <2>2 DEF TakesEffect, memory, Fresh, MapKnows, Idle, Request
<1> QED BY <1>1, <1>2, <1>3, <1>4, <1>5, <1>6 DEF Handler

LEMMA MapProcesses ==
  ASSUME MapInv, NEW v \in Servers, Process(v)
  PROVE  MapInv'
<1> USE DEF MapInv, TypeOK, RequestSound
<1>1. CASE StartCron(v)
  BY <1>1 DEF StartCron, Fresh, MapKnows
<1>2. CASE ListSchedules(v)
  <2> DEFINE listed == {[id |-> i, def |-> row[i]] : i \in {i \in Schedules : row[i] # None}}
  <2>1. listed \in SUBSET Entry /\ \A m, n \in listed : m.id = n.id => m = n
    BY DEF Entry
  <2>2. todo' = [todo EXCEPT ![v] = listed]
    BY <1>2 DEF ListSchedules
  <2> HIDE DEF listed
  <2> QED BY <1>2, <2>1, <2>2 DEF ListSchedules, Fresh, MapKnows
<1>3. CASE ListFails(v)
  BY <1>3 DEF ListFails, Fresh, MapKnows
<1>4. CASE RegisterListed(v) /\ todo[v] # {}
  <2>1. PICK n \in todo[v] :
          /\ todo' = [todo EXCEPT ![v] = @ \ {n}]
          /\ AddScheduleToCron(v, n.id, n.def)
          /\ UNCHANGED server
    BY <1>4 DEF RegisterListed
  <2>2. n.id \in Schedules /\ n.def \in Definitions
    BY DEF Entry
  <2>3. PICK defs : Registers(v, n.id, defs)
    BY <2>1, <2>2, AddingRegisters
  <2>4. server[v] = "starting" /\ UNCHANGED <<jobs, row, request, firing, saved, disturbed>>
    BY <1>4 DEF RegisterListed
  <2>5. /\ entries' \in [Servers -> [EntryIds -> Entry \cup {None}]]
        /\ entryIDs' \in [Servers -> [Schedules -> EntryIds \cup {None}]]
    BY <2>3 DEF Registers
  <2>6. \A w \in Servers :
          /\ MapKnows(w)'
          /\ server'[w] \in {"down", "listing"} => \A m \in EntryIds : entries'[w][m] = None
    BY <2>1, <2>2, <2>3, <2>4, RegistersKeepMaps
  <2> QED BY <2>1, <2>4, <2>5, <2>6 DEF Fresh
<1>5. CASE RegisterListed(v) /\ todo[v] = {}
  <2>1. /\ server' = [server EXCEPT ![v] = "up"] /\ server[v] = "starting"
        /\ UNCHANGED <<jobs, row, todo, entries, entryIDs, request, firing, saved, disturbed>>
    BY <1>5 DEF RegisterListed
  <2> QED BY <1>5, <2>1 DEF Fresh, MapKnows
<1>6. CASE Crash(v)
  <2>1. \A r \in Requests : request'[r] \in {Idle, request[r]}
          /\ (request'[r].pc # "idle" => request[r].srv # v)
    BY <1>6 DEF Crash, Idle
  <2> QED BY <1>6, <2>1 DEF Crash, Fresh, MapKnows, Idle, Request
<1>7. ASSUME NEW n \in EntryIds, Fire(v, n)
      PROVE  MapInv'
  <2>1. firing' \in SUBSET [srv : Servers, id : Schedules, def : Definitions]
    BY <1>7 DEF Fire, Entry
  <2> QED BY <1>7, <2>1 DEF Fire, memory, Fresh, MapKnows
<1> QED BY <1>1, <1>2, <1>3, <1>4, <1>5, <1>6, <1>7 DEF Process

LEMMA MapStep == MapInv /\ [Next]_vars => MapInv'
<1> SUFFICES ASSUME MapInv, [Next]_vars
             PROVE  MapInv'
  OBVIOUS
<1> USE DEF MapInv, TypeOK, RequestSound, Fresh, MapKnows
<1>1. CASE \E f \in firing : Enqueue(f)
  BY <1>1 DEF Enqueue, memory
<1>2. ASSUME NEW j \in Jobs, DeleteJob(j) \/ CreateJob(j)
      PROVE  MapInv'
  <2>1. CASE DeleteJob(j)
    <3>1. /\ jobs' \in SUBSET Jobs
          /\ row' \in [Schedules -> Definitions \cup {None}]
          /\ disturbed' \in [Servers -> SUBSET Schedules]
      BY <2>1 DEF DeleteJob
    <3> QED BY <2>1, <3>1 DEF DeleteJob, memory
  <2>2. CASE CreateJob(j)
    BY <2>2 DEF CreateJob, memory
  <2> QED BY <1>2, <2>1, <2>2
<1>3. CASE UNCHANGED vars
  BY <1>3 DEF vars, memory
<1> QED BY <1>1, <1>2, <1>3, MapRequests, MapProcesses DEF Next

LEMMA MapAlways == Spec => []MapInv
BY MapInit, MapStep, PTL DEF Spec

\* Tables, crons, maps and requests keep their types, for any number of servers.
THEOREM TypeCorrect == Spec => []TypeOK
<1>1. MapInv => TypeOK
  BY DEF MapInv
<1> QED BY <1>1, MapAlways, PTL

\* However requests, listings, crashes and cascades interleave, no entry of a cron slips
\* out of the map of its server (AddScheduleToCron, RemoveScheduleFromCron).
THEOREM EntriesAreRemovable == Spec => []EntriesRemovable
<1>1. ASSUME MapInv, NEW v \in Servers, NEW i \in Schedules
      PROVE  Live(v, i) = IF entryIDs[v][i] = None THEN {} ELSE {entryIDs[v][i]}
  <2> USE <1>1, DefinitionsAssumption DEF MapInv, MapKnows, TypeOK
  <2>1. CASE entryIDs[v][i] = None
    BY <2>1 DEF Live
  <2>2. CASE entryIDs[v][i] # None
    <3>1. entryIDs[v][i] \in Live(v, i)
      BY <2>2 DEF Live
    <3>2. \A n \in Live(v, i) : n = entryIDs[v][i]
      BY DEF Live
    <3> QED BY <2>2, <3>1, <3>2
  <2> QED BY <2>1, <2>2
<1>2. MapInv => EntriesRemovable
  BY <1>1 DEF EntriesRemovable
<1> QED BY <1>2, MapAlways, PTL

----------------------------------------------------------------------------
(* The cron follows the table. *)

Wanted(i) == IF Active(i) THEN {row[i]} ELSE {}

\* The row is still what a request wrote that has not come to the cron yet, unless it
\* was changed behind the back of its server; and it had been committed.
RowOfRequest(q) ==
  q.pc = "register" =>
    /\ q.id \notin disturbed[q.srv] => row[q.id] = IF q.op = "delete" THEN None ELSE q.def
    /\ q.op # "delete" => q.def \in saved[q.id]

\* A schedule nobody has changed behind the back of v is either still to be registered,
\* by the start or by a request, or fires as the row says.
InStep(v, i) ==
  i \notin disturbed[v] =>
    /\ server[v] = "up" =>
         (\E r \in Requests : Pending(r, i) /\ request[r].srv = v) \/ Fired(v, i) = Wanted(i)
    /\ server[v] = "starting" =>
         /\ \A n \in todo[v] : n.id = i => n.def = row[i]
         /\ (\A n \in todo[v] : n.id # i) => Fired(v, i) = Wanted(i)

\* Whatever a cron holds, or is about to, was once in the table.
OnlySaved(v) ==
  /\ \A n \in todo[v] : n.def \in saved[n.id]
  /\ \A n \in EntryIds : entries[v][n] # None =>
       entries[v][n].def \in saved[entries[v][n].id] /\ Runnable(entries[v][n].def)

FollowInv ==
  /\ \A i \in Schedules : row[i] # None => row[i] \in saved[i]
  /\ \A r \in Requests : RowOfRequest(request[r])
  /\ \A v \in Servers : OnlySaved(v) /\ \A i \in Schedules : InStep(v, i)
  /\ \A f \in firing : f.def \in saved[f.id] /\ Runnable(f.def)

LEMMA FollowInit == Init => FollowInv
BY DEF Init, FollowInv, RowOfRequest, InStep, OnlySaved, Idle

\* Steps that change neither tables nor crons, and no request that has written its row.
LEMMA FollowAside ==
  ASSUME FollowInv, UNCHANGED <<row, memory, saved, disturbed>>,
         \A s \in Requests : request'[s] = request[s] \/
           (request[s].pc # "register" /\ request'[s].pc # "register"),
         \A f \in firing' : f.def \in saved[f.id] /\ Runnable(f.def)
  PROVE  FollowInv'
<1>1. \A s \in Requests : RowOfRequest(request[s])'
  BY DEF FollowInv, RowOfRequest
<1>2. ASSUME NEW w \in Servers, NEW j \in Schedules
      PROVE  InStep(w, j)'
  <2>1. \A s \in Requests : Pending(s, j) => Pending(s, j)' /\ request'[s] = request[s]
    BY DEF Pending
  <2>2. Fired(w, j)' = Fired(w, j) /\ Wanted(j)' = Wanted(j)
    BY DEF memory, Fired, Live, Wanted, Active
  <2>3. InStep(w, j)
    BY DEF FollowInv
  <2> QED BY <2>1, <2>2, <2>3 DEF InStep, memory
<1> QED BY <1>1, <1>2 DEF FollowInv, OnlySaved, memory

LEMMA FollowReceive ==
  ASSUME MapInv, FollowInv, NEW r \in Requests,
         \/ Refuse(r) \/ Abandon(r)
         \/ \E v \in Servers, op \in {"create", "update", "delete"}, i \in Schedules,
               d \in Definitions : Receive(r, v, op, i, d)
  PROVE  FollowInv'
<1>1. /\ request[r].pc # "register" /\ request'[r].pc # "register"
      /\ \A s \in Requests \ {r} : request'[s] = request[s]
      /\ UNCHANGED <<row, memory, firing, saved, disturbed>>
  <2>1. CASE Abandon(r)
    BY <2>1 DEF Abandon, Request, Idle, MapInv, TypeOK
  <2>2. CASE ~Abandon(r)
    BY <2>2 DEF Receive, Refuse, Idle, MapInv, TypeOK
  <2> QED BY <2>1, <2>2
<1> QED BY <1>1, FollowAside DEF FollowInv

LEMMA FollowSave ==
  ASSUME MapInv, FollowInv, NEW r \in Requests, Save(r)
  PROVE  FollowInv'
<1> DEFINE q == request[r]
           i == q.id
<1>1. /\ q.pc = "save" /\ q.srv \in Servers /\ i \in Schedules /\ server[q.srv] = "up"
      /\ (q.op # "delete" => q.def \in Definitions)
  BY DEF Save, Request, Idle, MapInv, TypeOK, RequestSound
<1>2. /\ row' = [row EXCEPT ![i] = IF q.op = "delete" THEN None ELSE q.def]
      /\ saved' = [saved EXCEPT ![i] = IF q.op = "delete" THEN @ ELSE @ \cup {q.def}]
      /\ Disturb(r, q.srv, i)
      /\ request' = [request EXCEPT ![r].pc = "register"]
      /\ UNCHANGED <<jobs, memory, firing>>
  BY DEF Save, Write
<1>3. /\ request'[r].pc = "register" /\ request'[r].srv = q.srv /\ request'[r].id = i
      /\ request'[r].op = q.op /\ request'[r].def = q.def
      /\ \A s \in Requests \ {r} : request'[s] = request[s]
  <2>1. q \in [pc : {"save", "register", "abandoned"}, srv : Servers \cup {None}, id : Schedules,
               op : {"create", "update", "delete"}, def : Definitions \cup {None}]
    BY <1>1 DEF MapInv, TypeOK, Request, Idle
  <2> QED BY <1>2, <2>1 DEF MapInv, TypeOK
<1>4. \A k \in Schedules : saved[k] \subseteq saved'[k] /\ (k # i => row'[k] = row[k])
  BY <1>1, <1>2 DEF MapInv, TypeOK
<1>5. /\ row'[i] = IF q.op = "delete" THEN None ELSE q.def
      /\ (q.op # "delete" => q.def \in saved'[i])
  BY <1>1, <1>2 DEF MapInv, TypeOK
<1>6. ASSUME NEW w \in Servers
      PROVE  /\ \A k \in Schedules \ {i} : k \in disturbed'[w] <=> k \in disturbed[w]
             /\ i \notin disturbed'[w] => w = q.srv /\ ~\E s \in Requests \ {r} : Pending(s, i)
  BY <1>2 DEF Disturb
<1> HIDE DEF q, i
<1>7. \A s \in Requests : RowOfRequest(request[s])'
  <2>1. RowOfRequest(request[r])'
    BY <1>3, <1>5 DEF RowOfRequest
  <2>2. ASSUME NEW s \in Requests \ {r}, request[s].pc = "register"
        PROVE  RowOfRequest(request[s])'
    <3>1. request'[s] = request[s] /\ RowOfRequest(request[s])
      BY <1>3 DEF FollowInv
    <3>2. request[s].id \in Schedules /\ request[s].srv \in Servers
      BY <2>2 DEF MapInv, TypeOK, RequestSound, Request, Idle
    <3>3. CASE request[s].id = i
      BY <1>4, <1>6, <2>2, <3>1, <3>2, <3>3 DEF RowOfRequest, Pending
    <3>4. CASE request[s].id # i
      BY <1>4, <1>6, <2>2, <3>1, <3>2, <3>4 DEF RowOfRequest
    <3> QED BY <3>3, <3>4
  <2> QED BY <1>3, <2>1, <2>2 DEF RowOfRequest
<1>8. ASSUME NEW w \in Servers, NEW j \in Schedules
      PROVE  InStep(w, j)'
  <2>1. InStep(w, j)
    BY DEF FollowInv
  <2>2. CASE j = i
    BY <1>1, <1>2, <1>3, <1>6, <2>2 DEF InStep, Pending, memory
  <2>3. CASE j # i
    <3>1. Fired(w, j)' = Fired(w, j) /\ Wanted(j)' = Wanted(j)
      BY <1>2, <1>4, <2>3 DEF memory, Fired, Live, Wanted, Active
    <3>2. \A s \in Requests : Pending(s, j) => Pending(s, j)' /\ request'[s].srv = request[s].srv
      BY <1>1, <1>3, <2>3 DEF Pending, q
    <3> QED BY <1>2, <1>4, <1>6, <2>1, <2>3, <3>1, <3>2 DEF InStep, memory
  <2> QED BY <2>2, <2>3
<1>9. \A w \in Servers : OnlySaved(w)'
  BY <1>2, <1>4 DEF FollowInv, OnlySaved, memory, MapInv, TypeOK, Entry
<1>10. \A k \in Schedules : row'[k] # None => row'[k] \in saved'[k]
  BY <1>4, <1>5 DEF FollowInv
<1>11. \A f \in firing' : f.def \in saved'[f.id] /\ Runnable(f.def)
  BY <1>2, <1>4 DEF FollowInv, MapInv, TypeOK
<1> QED BY <1>7, <1>8, <1>9, <1>10, <1>11 DEF FollowInv

\* A statement that takes effect after its handler gave it up: every server has the
\* schedule changed behind its back, and nothing else is touched.
LEMMA FollowTakesEffect ==
  ASSUME MapInv, FollowInv, NEW r \in Requests, TakesEffect(r)
  PROVE  FollowInv'
<1> DEFINE q == request[r]
           i == q.id
<1>1. /\ q.pc = "abandoned" /\ i \in Schedules
      /\ (q.op # "delete" => q.def \in Definitions)
  BY DEF TakesEffect, Request, Idle, MapInv, TypeOK, RequestSound
<1>2. /\ row' = [row EXCEPT ![i] = IF q.op = "delete" THEN None ELSE q.def]
      /\ saved' = [saved EXCEPT ![i] = IF q.op = "delete" THEN @ ELSE @ \cup {q.def}]
      /\ disturbed' = [w \in Servers |-> disturbed[w] \cup {i}]
      /\ request' = [request EXCEPT ![r] = Idle]
      /\ UNCHANGED <<jobs, memory, firing>>
  BY DEF TakesEffect, Write
<1>3. \A s \in Requests : request'[s] = IF s = r THEN Idle ELSE request[s]
  BY <1>2 DEF MapInv, TypeOK
<1>4. \A k \in Schedules : saved[k] \subseteq saved'[k] /\ (k # i => row'[k] = row[k])
  BY <1>1, <1>2 DEF MapInv, TypeOK
<1>5. /\ row'[i] = IF q.op = "delete" THEN None ELSE q.def
      /\ (q.op # "delete" => q.def \in saved'[i])
  BY <1>1, <1>2 DEF MapInv, TypeOK
<1>6. \A w \in Servers : disturbed[w] \subseteq disturbed'[w] /\ i \in disturbed'[w]
  BY <1>2
<1>7. \A s \in Requests, j \in Schedules :
        Pending(s, j) => Pending(s, j)' /\ request'[s] = request[s]
  BY <1>1, <1>3 DEF Pending
<1> HIDE DEF q, i
<1>8. ASSUME NEW s \in Requests
      PROVE  RowOfRequest(request[s])'
  <2>1. CASE request'[s].pc = "register"
    <3>1. request'[s] = request[s] /\ RowOfRequest(request[s])
      BY <1>3, <2>1 DEF FollowInv, Idle
    <3>2. request[s].id \in Schedules /\ request[s].srv \in Servers
      BY <2>1, <3>1 DEF MapInv, TypeOK, RequestSound, Request, Idle
    <3> QED BY <1>4, <1>6, <2>1, <3>1, <3>2 DEF RowOfRequest
  <2>2. CASE request'[s].pc # "register"
    BY <2>2 DEF RowOfRequest
  <2> QED BY <2>1, <2>2
<1>9. ASSUME NEW w \in Servers, NEW j \in Schedules
      PROVE  InStep(w, j)'
  <2>1. CASE j = i
    BY <1>6, <2>1 DEF InStep
  <2>2. CASE j # i
    <3>1. Fired(w, j)' = Fired(w, j) /\ Wanted(j)' = Wanted(j)
      BY <1>2, <1>4, <2>2 DEF memory, Fired, Live, Wanted, Active
    <3>2. InStep(w, j)
      BY DEF FollowInv
    <3> QED BY <1>2, <1>4, <1>6, <1>7, <2>2, <3>1, <3>2 DEF InStep, memory
  <2> QED BY <2>1, <2>2
<1>10. \A w \in Servers : OnlySaved(w)'
  BY <1>2, <1>4 DEF FollowInv, OnlySaved, memory, MapInv, TypeOK, Entry
<1>11. \A k \in Schedules : row'[k] # None => row'[k] \in saved'[k]
  BY <1>4, <1>5 DEF FollowInv
<1>12. \A f \in firing' : f.def \in saved'[f.id] /\ Runnable(f.def)
  BY <1>2, <1>4 DEF FollowInv, MapInv, TypeOK
<1> QED BY <1>8, <1>9, <1>10, <1>11, <1>12 DEF FollowInv

LEMMA FollowRegister ==
  ASSUME MapInv, FollowInv, NEW r \in Requests, Register(r)
  PROVE  FollowInv'
<1>0. PICK q \in Request : q = request[r]
  BY DEF MapInv, TypeOK
<1>1. /\ q.pc = "register" /\ q.srv \in Servers /\ q.id \in Schedules /\ server[q.srv] = "up"
      /\ (q.op # "delete" => q.def \in Definitions)
  BY <1>0 DEF Register, Request, Idle, MapInv, TypeOK, RequestSound
<1> DEFINE v == q.srv
           i == q.id
           defs == IF q.op # "delete" /\ Runnable(q.def) THEN {q.def} ELSE {}
<1>2. /\ UNCHANGED <<jobs, row, server, todo, firing, saved, disturbed>>
      /\ request' = [request EXCEPT ![r] = Idle]
  BY DEF Register
<1>3. Registers(v, i, defs)
  <2>1. CASE q.op = "delete"
    <3>1. RemoveScheduleFromCron(v, i)
      BY <1>0, <2>1 DEF Register
    <3> QED BY <1>1, <2>1, <3>1, RemovingRegisters
  <2>2. CASE q.op # "delete"
    <3>1. AddScheduleToCron(v, i, q.def)
      BY <1>0, <2>2 DEF Register
    <3>2. Registers(v, i, IF Runnable(q.def) THEN {q.def} ELSE {})
      BY <1>1, <2>2, <3>1, AddingRegisters
    <3> QED BY <2>2, <3>2
  <2> QED BY <2>1, <2>2
<1>4. /\ i \notin disturbed[v] => Wanted(i)' = defs
      /\ \A d \in defs : d \in saved[i] /\ Runnable(d)
  <2>1. RowOfRequest(q)
    BY <1>0 DEF FollowInv
  <2>2. ASSUME i \notin disturbed[v]
        PROVE  Wanted(i)' = defs
    <3>1. row'[i] = IF q.op = "delete" THEN None ELSE q.def
      BY <1>1, <1>2, <2>1, <2>2 DEF RowOfRequest
    <3>2. CASE q.op = "delete"
      BY <3>1, <3>2 DEF Wanted, Active
    <3>3. CASE q.op # "delete"
      <4>1. row'[i] = q.def /\ q.def # None
        BY <1>1, <3>1, <3>3, DefinitionsAssumption
      <4> QED BY <3>3, <4>1 DEF Wanted, Active, Runnable
    <3> QED BY <3>2, <3>3
  <2>3. \A d \in defs : d \in saved[i] /\ Runnable(d)
    BY <1>1, <2>1 DEF RowOfRequest
  <2> QED BY <2>2, <2>3
<1>5. \A s \in Requests : request'[s] = IF s = r THEN Idle ELSE request[s]
  BY <1>2 DEF MapInv, TypeOK
<1>6. \A s \in Requests, j \in Schedules :
        Pending(s, j) /\ s # r => Pending(s, j)' /\ request'[s] = request[s]
  BY <1>5 DEF Pending
<1>7. \A j \in Schedules : Pending(r, j) => j = i
  BY <1>0 DEF Pending
<1>8. v \in Servers /\ i \in Schedules /\ server[v] = "up"
  BY <1>1
<1> HIDE DEF v, i, defs
<1>9. ASSUME NEW w \in Servers, NEW j \in Schedules
      PROVE  InStep(w, j)'
  <2>1. InStep(w, j) /\ Wanted(j)' = Wanted(j)
    BY <1>2 DEF FollowInv, Wanted, Active
  <2>2. CASE w = v /\ j = i
    <3>1. i \notin disturbed[v] => Fired(v, i)' = Wanted(i)'
      BY <1>3, <1>4 DEF Registers
    <3>2. InStep(v, i)'
      BY <1>8, <1>2, <3>1 DEF InStep
    <3> QED BY <2>2, <3>2
  <2>3. CASE w # v \/ j # i
    <3>1. Fired(w, j)' = Fired(w, j)
      <4>1. CASE w # v
        BY <1>3, <4>1 DEF Registers, Fired, Live
      <4>2. CASE w = v
        BY <1>3, <2>3, <4>2 DEF Registers
      <4> QED BY <4>1, <4>2
    <3>2. request[r].srv = v
      BY <1>0 DEF v
    <3> QED BY <1>2, <1>6, <1>7, <2>1, <2>3, <3>1, <3>2 DEF InStep
  <2> QED BY <2>2, <2>3
<1>10. ASSUME NEW w \in Servers
      PROVE  OnlySaved(w)'
  <2>1. OnlySaved(w)
    BY DEF FollowInv
  <2>2. CASE w # v
    BY <1>2, <1>3, <2>1, <2>2 DEF OnlySaved, Registers
  <2>3. CASE w = v
    <3>1. ASSUME NEW n \in EntryIds, entries'[w][n] # None
          PROVE  /\ entries'[w][n].def \in saved[entries'[w][n].id]
                 /\ Runnable(entries'[w][n].def)
      BY <1>3, <1>4, <2>1, <2>3, <3>1 DEF OnlySaved, Registers
    <3> QED BY <1>2, <2>1, <3>1 DEF OnlySaved
  <2> QED BY <2>2, <2>3
<1>11. \A s \in Requests : RowOfRequest(request[s])'
  BY <1>2, <1>5 DEF FollowInv, RowOfRequest, Idle
<1> QED BY <1>2, <1>9, <1>10, <1>11 DEF FollowInv

LEMMA FollowJobs ==
  ASSUME MapInv, FollowInv, NEW j \in Jobs, DeleteJob(j) \/ CreateJob(j)
  PROVE  FollowInv'
<1>1. CASE DeleteJob(j)
  <2> DEFINE gone == {i \in Schedules : row[i] # None /\ row[i].job = j}
  <2>1. /\ UNCHANGED <<memory, request, firing, saved>>
        /\ \A i \in Schedules : row'[i] = IF i \in gone THEN None ELSE row[i]
        /\ \A v \in Servers : disturbed'[v] = disturbed[v] \cup gone
    BY <1>1 DEF DeleteJob
  <2> HIDE DEF gone
  <2>2. \A s \in Requests : RowOfRequest(request[s])'
    <3>1. ASSUME NEW s \in Requests, request[s].pc = "register"
          PROVE  RowOfRequest(request[s])'
      <4>1. request[s].id \in Schedules /\ request[s].srv \in Servers
        BY <3>1 DEF MapInv, TypeOK, RequestSound, Request, Idle
      <4> QED BY <2>1, <4>1 DEF FollowInv, RowOfRequest
    <3> QED BY <2>1, <3>1 DEF RowOfRequest
  <2>3. ASSUME NEW v \in Servers, NEW i \in Schedules
        PROVE  InStep(v, i)'
    <3>1. CASE i \in gone
      BY <2>1, <3>1 DEF InStep
    <3>2. CASE i \notin gone
      <4>1. Fired(v, i)' = Fired(v, i) /\ Wanted(i)' = Wanted(i)
        BY <2>1, <3>2 DEF memory, Fired, Live, Wanted, Active
      <4>2. InStep(v, i)
        BY DEF FollowInv
      <4> QED BY <2>1, <3>2, <4>1, <4>2 DEF InStep, memory, Pending
    <3> QED BY <3>1, <3>2
  <2>4. \A i \in Schedules : row'[i] # None => row'[i] \in saved'[i]
    BY <2>1 DEF FollowInv
  <2> QED BY <2>1, <2>2, <2>3, <2>4 DEF FollowInv, OnlySaved, memory
<1>2. CASE CreateJob(j)
  BY <1>2, FollowAside DEF CreateJob, FollowInv
<1> QED BY <1>1, <1>2

\* A start lists the table as it is, and registers what it has listed.
LEMMA FollowStart ==
  ASSUME MapInv, FollowInv, NEW v \in Servers,
         StartCron(v) \/ ListSchedules(v) \/ ListFails(v) \/ RegisterListed(v)
  PROVE  FollowInv'
<1>0. /\ UNCHANGED <<jobs, row, request, firing, saved>>
      /\ \A i \in Schedules : Wanted(i)' = Wanted(i)
      /\ \A s \in Requests : request[s].pc = "register" => request[s].srv # v
  BY DEF StartCron, ListSchedules, ListFails, RegisterListed, Wanted, Active, MapInv, RequestSound
<1>1. \A w \in Servers \ {v} :
        /\ server'[w] = server[w] /\ todo'[w] = todo[w] /\ disturbed'[w] = disturbed[w]
        /\ entries'[w] = entries[w]
  BY DEF StartCron, ListSchedules, ListFails, RegisterListed, AddScheduleToCron, MapInv, TypeOK
<1>2. \A s \in Requests : RowOfRequest(request[s])'
  <2>1. ASSUME NEW s \in Requests, request[s].pc = "register"
        PROVE  RowOfRequest(request[s])'
    <3>1. request[s].srv \in Servers \ {v}
      BY <1>0, <2>1 DEF MapInv, TypeOK, RequestSound, Request, Idle
    <3> QED BY <1>0, <1>1, <3>1 DEF FollowInv, RowOfRequest
  <2> QED BY <1>0, <2>1 DEF RowOfRequest
<1>3. ASSUME NEW w \in Servers \ {v}
      PROVE  OnlySaved(w)' /\ \A i \in Schedules : InStep(w, i)'
  BY <1>0, <1>1 DEF FollowInv, OnlySaved, InStep, Fired, Live, Pending
<1>4. OnlySaved(v)' /\ \A i \in Schedules : InStep(v, i)'
  <2>1. CASE StartCron(v)
    BY <2>1 DEF StartCron, FollowInv, OnlySaved, InStep, MapInv, TypeOK
  <2>2. CASE ListSchedules(v)
    <3>1. /\ server[v] = "listing" /\ server'[v] = "starting"
          /\ todo'[v] = {[id |-> i, def |-> row[i]] : i \in {i \in Schedules : row[i] # None}}
          /\ UNCHANGED entries
      BY <2>2 DEF ListSchedules, MapInv, TypeOK
    <3>2. \A i \in Schedules : Fired(v, i)' = {}
      BY <3>1 DEF MapInv, Fresh, Fired, Live
    <3>3. \A n \in todo'[v] : n.id \in Schedules /\ row[n.id] # None /\ n.def = row[n.id]
      BY <3>1
    <3>4. ASSUME NEW i \in Schedules
          PROVE  InStep(v, i)'
      <4>1. CASE row[i] = None
        BY <1>0, <3>1, <3>2, <3>3, <4>1 DEF InStep, Wanted, Active
      <4>2. CASE row[i] # None
        <5>1. [id |-> i, def |-> row[i]] \in todo'[v]
          BY <3>1, <4>2
        <5>2. \E n \in todo'[v] : n.id = i
          BY <5>1
        <5> QED BY <1>0, <3>1, <3>3, <5>2 DEF InStep
      <4> QED BY <4>1, <4>2
    <3>5. OnlySaved(v)'
      BY <1>0, <3>1, <3>3 DEF OnlySaved, FollowInv
    <3> QED BY <3>4, <3>5
  <2>3. CASE ListFails(v)
    BY <2>3 DEF ListFails, FollowInv, OnlySaved, InStep, MapInv, TypeOK
  <2>4. CASE RegisterListed(v) /\ todo[v] # {}
    <3>1. PICK n \in todo[v] :
            /\ todo' = [todo EXCEPT ![v] = @ \ {n}]
            /\ AddScheduleToCron(v, n.id, n.def)
            /\ UNCHANGED server
      BY <2>4 DEF RegisterListed
    <3>2. /\ n.id \in Schedules /\ n.def \in Definitions /\ n.def # None
          /\ \A m \in todo[v] : m.id = n.id => m = n
          /\ n.def \in saved[n.id] /\ InStep(v, n.id)
      BY DefinitionsAssumption DEF MapInv, TypeOK, Entry, Fresh, FollowInv, OnlySaved
    <3> DEFINE defs == IF Runnable(n.def) THEN {n.def} ELSE {}
    <3>3. Registers(v, n.id, defs)
      BY <3>1, <3>2, AddingRegisters
    <3>4. server[v] = "starting" /\ UNCHANGED disturbed
      BY <2>4 DEF RegisterListed
    <3>5. todo'[v] = todo[v] \ {n}
      BY <3>1 DEF MapInv, TypeOK
    <3>6. n.id \notin disturbed[v] => Wanted(n.id) = defs
      BY <3>2, <3>4 DEF InStep, Wanted, Active, Runnable
    <3> HIDE DEF defs
    <3>7. InStep(v, n.id)'
      BY <1>0, <3>1, <3>2, <3>3, <3>4, <3>5, <3>6 DEF InStep, Registers
    <3>8. ASSUME NEW i \in Schedules \ {n.id}
          PROVE  InStep(v, i)'
      <4>1. InStep(v, i) /\ Fired(v, i)' = Fired(v, i)
        BY <3>3 DEF FollowInv, Registers
      <4> QED BY <1>0, <3>1, <3>4, <3>5, <4>1 DEF InStep
    <3>9. OnlySaved(v)'
      <4>1. OnlySaved(v)
        BY DEF FollowInv
      <4>2. ASSUME NEW m \in EntryIds, entries'[v][m] # None
            PROVE  /\ entries'[v][m].def \in saved[entries'[v][m].id]
                   /\ Runnable(entries'[v][m].def)
        BY <3>2, <3>3, <4>1, <4>2 DEF OnlySaved, Registers, defs
      <4> QED BY <1>0, <3>5, <4>1, <4>2 DEF OnlySaved
    <3> QED BY <3>7, <3>8, <3>9
  <2>5. CASE RegisterListed(v) /\ todo[v] = {}
    <3>1. /\ server' = [server EXCEPT ![v] = "up"] /\ server[v] = "starting"
          /\ UNCHANGED <<jobs, row, todo, entries, entryIDs, request, firing, saved, disturbed>>
      BY <2>5 DEF RegisterListed
    <3>2. server'[v] = "up"
      BY <3>1 DEF MapInv, TypeOK
    <3>3. ASSUME NEW i \in Schedules
          PROVE  InStep(v, i)'
      <4>1. Fired(v, i)' = Fired(v, i)
        BY <3>1 DEF Fired, Live
      <4> QED BY <1>0, <2>5, <3>1, <3>2, <4>1 DEF FollowInv, InStep
    <3> QED BY <3>1, <3>3 DEF FollowInv, OnlySaved
  <2> QED BY <2>1, <2>2, <2>3, <2>4, <2>5
<1> QED BY <1>0, <1>2, <1>3, <1>4 DEF FollowInv

\* A process that dies takes its requests along; one that lives fires what its cron holds.
LEMMA FollowProcess ==
  ASSUME MapInv, FollowInv, NEW v \in Servers,
         Crash(v) \/ (\E n \in EntryIds : Fire(v, n)) \/ (\E f \in firing : Enqueue(f))
  PROVE  FollowInv'
<1>1. CASE Crash(v)
  <2>1. /\ UNCHANGED <<jobs, row, saved, disturbed>> /\ firing' \subseteq firing
        /\ \A s \in Requests : request'[s] =
             IF request[s] # Idle /\ request[s].srv = v THEN Idle ELSE request[s]
        /\ server'[v] = "down" /\ todo'[v] = {} /\ entries'[v] = [n \in EntryIds |-> None]
        /\ \A w \in Servers \ {v} :
             /\ server'[w] = server[w] /\ todo'[w] = todo[w] /\ entries'[w] = entries[w]
    BY <1>1 DEF Crash, MapInv, TypeOK
  <2>2. ASSUME NEW w \in Servers \ {v}, NEW i \in Schedules
        PROVE  InStep(w, i)'
    <3>1. Fired(w, i)' = Fired(w, i) /\ Wanted(i)' = Wanted(i) /\ InStep(w, i)
      BY <2>1 DEF Fired, Live, Wanted, Active, FollowInv
    <3>2. \A s \in Requests : Pending(s, i) /\ request[s].srv = w =>
            Pending(s, i)' /\ request'[s].srv = w
      BY <2>1 DEF Pending
    <3> QED BY <2>1, <3>1, <3>2 DEF InStep
  <2>3. \A s \in Requests : RowOfRequest(request[s])'
    BY <2>1 DEF FollowInv, RowOfRequest, Idle
  <2> QED BY <2>1, <2>2, <2>3 DEF FollowInv, OnlySaved, InStep
<1>2. ASSUME NEW n \in EntryIds, Fire(v, n)
      PROVE  FollowInv'
  <2>1. \A f \in firing' : f.def \in saved[f.id] /\ Runnable(f.def)
    BY <1>2 DEF Fire, FollowInv, OnlySaved
  <2> QED BY <1>2, <2>1, FollowAside DEF Fire
<1>3. ASSUME NEW f \in firing, Enqueue(f)
      PROVE  FollowInv'
  BY <1>3, FollowAside DEF Enqueue, FollowInv
<1> QED BY <1>1, <1>2, <1>3

LEMMA FollowStep == MapInv /\ FollowInv /\ [Next]_vars => FollowInv'
<1> SUFFICES ASSUME MapInv, FollowInv, [Next]_vars
             PROVE  FollowInv'
  OBVIOUS
<1>1. ASSUME NEW r \in Requests, Handler(r)
      PROVE  FollowInv'
  BY <1>1, FollowReceive, FollowSave, FollowTakesEffect, FollowRegister DEF Handler
<1>2. ASSUME NEW v \in Servers, Process(v)
      PROVE  FollowInv'
  BY <1>2, FollowStart, FollowProcess DEF Process
<1>3. ASSUME NEW f \in firing, Enqueue(f)
      PROVE  FollowInv'
  <2>1. f.srv \in Servers
    BY DEF MapInv, TypeOK
  <2> QED BY <1>3, <2>1, FollowProcess
<1>4. CASE UNCHANGED vars
  BY <1>4, FollowAside DEF vars, FollowInv
<1> QED BY <1>1, <1>2, <1>3, <1>4, FollowJobs DEF Next

\* The cron of a running server fires what the table says, but for a schedule whose
\* request is on its way to the cron and for those changed behind its back, by others or by
\* a statement whose handler answered with an error; and never anything that was not
\* committed (service.go, handlers.go).
THEOREM CronDoesFollow == Spec => []CronFollowsTable
<1>1. MapInv /\ FollowInv => CronFollowsTable
  BY DEF FollowInv, InStep, CronFollowsTable, Fired, Wanted, Runnable
<1> QED BY <1>1, MapInit, MapStep, FollowInit, FollowStep, PTL DEF Spec
=============================================================================
