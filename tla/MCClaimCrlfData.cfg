\* Without quoting: data behind a carriage return that ended a chunk.
SPECIFICATION Spec
CONSTANTS
  delimiter = ","
  quote_char = "q"
  LF = "n"
  CR = "r"
  Data = {"a"}
  Alphabet = {"a", "n", "r"}
  MaxLen = 4
  LongAlphabet = {}
  LongLen = 0
  Files <- MCFiles
  Capacities = {1, 2, 3}
  NUL = "0"
  ReadErrors = FALSE
  LaneWidth = 2
  Configs <- SimpleCrlf
CHECK_DEADLOCK FALSE
INVARIANTS
  CrlfKeepsData
