\* Lenient mode: a quote in the middle of a field, at the front of a chunk.
SPECIFICATION Spec
CONSTANTS
  delimiter = ","
  quote_char = "q"
  LF = "n"
  CR = "r"
  Data = {"a"}
  Alphabet = {"a", "q", ","}
  MaxLen = 4
  LongAlphabet = {}
  LongLen = 0
  Files <- MCFiles
  Capacities = {2, 3}
  NUL = "0"
  ReadErrors = FALSE
  LaneWidth = 2
  Configs <- LenientLf
CHECK_DEADLOCK FALSE
INVARIANTS
  LenientQuotesAsDocumented
