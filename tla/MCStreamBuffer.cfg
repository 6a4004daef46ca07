\* One buffer under any sequence of refill, consume and reset calls.
SPECIFICATION Spec
CONSTANTS
  delimiter = ","
  quote_char = "q"
  LF = "n"
  CR = "r"
  Data <- MCData
  Files <- MCFiles
  Capacities <- MCCapacities
  NUL = "0"
  ReadErrors = TRUE
INVARIANTS
  TypeOK
  ViewIsUnread
PROPERTIES
  RefillTellsWhy
  ImplementsFeed
