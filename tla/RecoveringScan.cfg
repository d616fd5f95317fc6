CONSTANTS
  None = None
  MaxSegments = 4
  MaxMessages = 1
  MaxSegmentsPerMessage = 3
  MaxInputBytes = 7
  MaxSegmentBytes = 3
  MaxFaults = 2
  TagLen = 1
  UnaLen = 5
  BomLen = 2
  Fragments <- MCFragments
  MaxFragments = 4
  ScanInputs <- MCInputs
  SliceAdvice = None
  Tags <- MCTags
  TagOf <- MCTagOf
SPECIFICATION Spec
INVARIANTS
  StrictPrefix
  ItemsTileInput
  ScanBounded
PROPERTY ScanAdvances
