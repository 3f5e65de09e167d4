\* One run on one executor that is told to stop.
CONSTANTS
  Executions = {e1}
  Targets = {t1}
  Executors = {x1}
  MaxWorkers = 1
  MaxAttempts = 1
  DatabaseMayFail = FALSE
  NoTask = NoTask
CHECK_DEADLOCK FALSE
SPECIFICATION Spec
PROPERTIES
  GracefulShutdown
