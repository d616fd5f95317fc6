CONSTANTS
  Digits <- MCDigits
  Zero = "0"
  Minus = "-"
  Mark = "."
  Exponent = "E"
  Space = " "
  NoType = NoType
  NoValue = NoValue
  NoLimit = NoLimit
  AnyRelease = AnyRelease
  AnyCharacter = AnyCharacter
  NoCharset = NoCharset
  Garbled = Garbled
  Absent = Absent
  Contexts <- MCContexts
  Batches <- MCBatches
SPECIFICATION Spec
INVARIANTS
  EnvelopeIsHidden
  PositionsAreTrue
  PacksAreObeyed
  AuditedSegmentsFit
  UnknownVersionIsLenient
  RequiredSegmentsAreOrdered
\* A batch is validated once.
CHECK_DEADLOCK FALSE
