\* One server with two schedules in its cron and every kind of definition: entry
\* ids, the map and the captured rows, and which schedules keep firing.
CONSTANTS
  j1 = j1
  j2 = j2
  Servers = {v1}
  Schedules = {c1, c2}
  Jobs = {j1}
  Definitions <- OneJobDefinitions
  ValidExprs = {"good"}
  Requests = {r1}
  EntryIds = {1, 2, 3}
  None = None
SPECIFICATION FairSpec
INVARIANTS
  EntriesRemovable
PROPERTIES
  ActiveSchedulesFire
