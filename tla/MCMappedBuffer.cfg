\* One mapped file under any sequence of refill, consume and reset calls.
SPECIFICATION Spec
CONSTANTS
  delimiter = ","
  quote_char = "q"
  LF = "n"
  CR = "r"
  Data <- MCData
  Files <- MCFiles
INVARIANTS
  TypeOK
PROPERTIES
  ImplementsFeed
