\* A command with up to two lines on each stream and a window of two lines.
CONSTANTS
  Outputs <- SmallOutputs
  Window = 2
CHECK_DEADLOCK FALSE
SPECIFICATION FairSpec
INVARIANTS
  TypeOK
PROPERTIES
  OutputIsComplete
  CommandReturns
  NothingLeaks
