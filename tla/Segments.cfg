CONSTANTS
  None = None
  MaxSegments = 3
  MaxMessages = None
  MaxSegmentsPerMessage = None
  MaxInputBytes = 9
  MaxSegmentBytes = 6
  TagLen = 1
  UnaLen = 5
  BomLen = 2
  MaxBytes = 4
  MaxEscapes = 4
  MaxMarks = 3
  Inputs <- MCInputs
  Tags <- MCTags
  Advice = None
SPECIFICATION FairWholeMarkSpec
INVARIANTS
  RegularPathsAgree
  MemoryBounded
  NothingBeyondBudget
  ErrorsAreLocated
  SegmentsTileInput
PROPERTY Terminates
\* The iteration ends: a finished iterator has no further step.
CHECK_DEADLOCK FALSE
