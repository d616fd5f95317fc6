SPECIFICATION MCSpec
CONSTANTS
  Content = {"BGM"}
  MaxPieces = 10
  MaxEmitted = 7
INVARIANTS
  CountsAreTrue
  DamageIsReported
  ProtocolKeepsSegments
\* A writer that was finished is gone, and a caller may stop emitting.
CHECK_DEADLOCK FALSE
