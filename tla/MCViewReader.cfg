\* ViewReader with both view parsers, on blocks smaller and larger than a record.
SPECIFICATION Spec
CONSTANTS
  delimiter = ","
  quote_char = "q"
  LF = "n"
  CR = "r"
  Data <- MCData
  Alphabet = {"a", ",", "n", "r"}
  MaxLen = 4
  LongAlphabet = {"a", ",", "n"}
  LongLen = 5
  Files <- MCFiles
  Capacities = {3, 4}
  NUL = "0"
  ReadErrors = TRUE
  LaneWidth = 2
  Configs <- ViewConfigs
CHECK_DEADLOCK FALSE
INVARIANTS
  TypeOK
  RecordsOfTheFile
  ViewsAdjoin
PROPERTIES
  RefusesOnlyLongLines
  NextReturns
  ImplementsSource
