\* Reader with every parser, in chunks of 1, 2, 3 and 6 bytes and on a mapped file.
SPECIFICATION RecordSpec
CONSTANTS
  delimiter = ","
  quote_char = "q"
  LF = "n"
  CR = "r"
  Data = {"a"}
  Alphabet = {"a", ",", "n", "r", "q"}
  MaxLen = 5
  LongAlphabet = {"a", ",", "q"}
  LongLen = 6
  Files <- MCFiles
  Capacities = {1, 2, 3, 6}
  NUL = "0"
  ReadErrors = FALSE
  LaneWidth = 2
  Configs <- RecordConfigs
CHECK_DEADLOCK FALSE
INVARIANTS
  TypeOK
  RecordsOfTheFile
  ErrorsOfTheFile
  FieldsInBounds
