\* Two targets served by two slots of one executor, with a retry each: the shared
\* row under overlapping runs, timeouts, SIGTERM, crashes and rescues.
CONSTANTS
  Executions = {e1}
  Targets = {t1, t2}
  Executors = {x1}
  MaxWorkers = 2
  MaxAttempts = 2
  DatabaseMayFail = FALSE
  NoTask = NoTask
SYMMETRY TargetSymmetry
CHECK_DEADLOCK FALSE
SPECIFICATION Spec
INVARIANTS
  TypeOK
  CountersAreOutcomes
  SequentialRecordsExact
  RunningHasOwner
  OrphanStaysQueued
