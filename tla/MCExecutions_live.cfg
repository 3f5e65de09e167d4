\* Command jobs: two targets share one slot.
CONSTANTS
  Executions = {e1}
  Targets = {t1, t2}
  Executors = {x1}
  MaxWorkers = 1
  MaxAttempts = 2
  DatabaseMayFail = FALSE
  NoTask = NoTask
CHECK_DEADLOCK FALSE
SPECIFICATION FairSpec
PROPERTIES
  EveryExecutionSettles
  DeliversTasks
