\* A job with a reference to a second job, which may refer back or be malformed.
CONSTANTS
  a = a
  b = b
  Jobs = {a, b}
  Top = a
  Names <- StepNames
  Bodies <- SmallBodies
  MaxDepth = 3
CHECK_DEADLOCK FALSE
SPECIFICATION FairSpec
INVARIANTS
  SuccessRanWholeJob
  LoopsAccountForStarts
  ScriptsRemoved
PROPERTIES
  WalkEnds
