CONSTANTS
  Shapes <- MCShapes
  Faults = {"InvalidCodeValue", "TooManyGroupOccurrences"}
  MaxFindings = 3
SPECIFICATION ContrlSpec
INVARIANTS
  VerdictsAreTheFindings
  NothingUnderARejection
  CodesAreWhereTheyBelong
\* The reply is final.
CHECK_DEADLOCK FALSE
