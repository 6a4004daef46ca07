\* Strict mode: a CRLF behind a closing quote, cut off from it.
SPECIFICATION Spec
CONSTANTS
  delimiter = ","
  quote_char = "q"
  LF = "n"
  CR = "r"
  Data = {"a"}
  Alphabet = {"a", "q", "n", "r"}
  MaxLen = 5
  LongAlphabet = {}
  LongLen = 0
  Files <- MCFiles
  Capacities = {2, 3}
  NUL = "0"
  ReadErrors = FALSE
  LaneWidth = 2
  Configs <- StrictCrlf
CHECK_DEADLOCK FALSE
INVARIANTS
  StrictAcceptsRfc4180
