\* ViewReader: a last line without a newline, behind another line.
SPECIFICATION Spec
CONSTANTS
  delimiter = ","
  quote_char = "q"
  LF = "n"
  CR = "r"
  Data <- MCData
  Alphabet = {"a", "n"}
  MaxLen = 5
  LongAlphabet = {}
  LongLen = 0
  Files <- MCFiles
  Capacities = {6}
  NUL = "0"
  ReadErrors = FALSE
  LaneWidth = 2
  Configs <- LfStream
CHECK_DEADLOCK FALSE
INVARIANTS
  ViewsShowTheRecord
