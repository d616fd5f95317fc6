CONSTANTS
  Schemas <- MCSchemas
  Segments <- MCSegments
  NoCode = "no code"
  MaxLength = 6
SPECIFICATION Spec
INVARIANTS
  TreeIsAPartition
  NoFindingsConforms
  ConformingHasNoFindings
\* The message ends.
CHECK_DEADLOCK FALSE
