\* Strict mode: a quote escaped across two chunks.
SPECIFICATION Spec
CONSTANTS
  delimiter = ","
  quote_char = "q"
  LF = "n"
  CR = "r"
  Data = {"a"}
  Alphabet = {"a", "q"}
  MaxLen = 4
  LongAlphabet = {}
  LongLen = 0
  Files <- MCFiles
  Capacities = {2, 3}
  NUL = "0"
  ReadErrors = FALSE
  LaneWidth = 2
  Configs <- StrictLf
CHECK_DEADLOCK FALSE
INVARIANTS
  EscapedQuotesKept
