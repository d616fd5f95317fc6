CONSTANTS
  Garbled = Garbled
  Absent = Absent
  MaxLength = 12
  MaxSlips = 1
  MaxLocated = 8
SPECIFICATION Spec
INVARIANTS
  AcceptsTheCorrect
  WalksAgree
  WindowsAsDeclared
  LocationsAgree
\* The input ends.
CHECK_DEADLOCK FALSE
