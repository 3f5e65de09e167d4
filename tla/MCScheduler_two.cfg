\* Two servers on one database and two requests at a time on one schedule.
CONSTANTS
  j1 = j1
  j2 = j2
  Servers = {v1, v2}
  Schedules = {c1}
  Jobs = {j1, j2}
  Definitions <- OffDefinitions
  ValidExprs = {"good"}
  Requests = {r1, r2}
  EntryIds = {1, 2}
  None = None
SYMMETRY ServerRequestSymmetry
SPECIFICATION Spec
INVARIANTS
  TypeOK
  CronFollowsTable
