CONSTANTS
  Shapes <- MCShapes
  Faults = {"InvalidCodeValue", "TooManyGroupOccurrences"}
  MaxFindings = 3
SPECIFICATION ContrlSpec
INVARIANTS UcdsFollowTheirUcs
\* The reply is final.
CHECK_DEADLOCK FALSE
