\* One target, an attempt for each of two executors, failing statements, and a job
\* whose copy step may hang: retries after lost writes and lost completions, and
\* runs that outlive their task.
CONSTANTS
  Executions = {e1}
  Targets = {t1}
  Executors = {x1, x2}
  MaxWorkers = 1
  MaxAttempts = 2
  DatabaseMayFail = TRUE
  NoTask = NoTask
CHECK_DEADLOCK FALSE
SPECIFICATION HangingSpec
INVARIANTS
  SoleRunUnlessRescued
PROPERTIES
  EndedRecordIsFinal
  EveryTaskEnds
