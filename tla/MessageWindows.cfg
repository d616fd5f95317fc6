CONSTANTS
  None = None
  MaxSegments = 8
  MaxMessages = 2
  MaxSegmentsPerMessage = 3
  MaxInputBytes = None
  MaxPulls = 9
  Tags <- MCTags
SPECIFICATION Spec
INVARIANTS
  WithinLimits
  WindowsAreTheMessages
  CleanEndIsComplete
\* The iteration ends: a finished iterator has no further step.
CHECK_DEADLOCK FALSE
