\* A second loop over a reader whose rows have all been handed out.
SPECIFICATION Spec
CONSTANTS
  Blanks = {" "}
  Minus = "-"
  DigitValue <- MCDigitValue
  Tables <- MCTables
  Headers <- MCHeaders
  Names = {"k", "m", "x"}
  Types <- MCTypes
  MaxLen = 1
CHECK_DEADLOCK FALSE
INVARIANTS
  EndedLoopsAreEmpty
