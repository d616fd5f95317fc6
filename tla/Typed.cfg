CONSTANTS
  Digits <- MCDigits
  Zero = "0"
  Minus = "-"
  Mark = "."
  Exponent = "E"
  Space = " "
  Wild = "*"
  Exchanges <- MCExchanges
  TagSymbols <- MCTagSymbols
  Punctuation <- MCPunctuation
  Strangers <- MCStrangers
  MaxStrangers = 1
  Words <- MCWords
SPECIFICATION Spec
INVARIANTS
  WrittenIsRead
  RoundTrips
  PlacesAreAlike
  PatternsAreGlobs
\* A message is written and read once.
CHECK_DEADLOCK FALSE
