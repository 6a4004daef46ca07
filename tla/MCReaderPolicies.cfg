\* Headers, record size policies, read errors and failed constructions, and that next() returns.
SPECIFICATION Spec
CONSTANTS
  delimiter = ","
  quote_char = "q"
  LF = "n"
  CR = "r"
  Data = {"a"}
  Alphabet = {",", "n", "q"}
  MaxLen = 5
  LongAlphabet = {}
  LongLen = 0
  Files <- MCFiles
  Capacities = {2}
  NUL = "0"
  ReadErrors = TRUE
  LaneWidth = 2
  Configs <- PolicyConfigs
CHECK_DEADLOCK FALSE
INVARIANTS
  RecordsOfTheFile
  RowsFitThePolicy
  LineNumberCountsRows
PROPERTIES
  ImplementsSource
  NextReturns
