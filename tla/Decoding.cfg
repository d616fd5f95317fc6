CONSTANTS
  Sources <- MCSources
  ProbeBytes = 4
  BufferSize = 2
  MaxRead = 3
  MaxInterrupts = 1
SPECIFICATION Spec
INVARIANTS
  RepertoireIsFound
  DecodesUnlessInterrupted
PROPERTIES
  CallerIsDone
\* The caller stops reading.
CHECK_DEADLOCK FALSE
