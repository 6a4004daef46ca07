\* Loops over a reader, exceptions and calls of next() between them, and the fields of its rows.
SPECIFICATION Spec
CONSTANTS
  Blanks = {" "}
  Minus = "-"
  DigitValue <- MCDigitValue
  Tables <- MCTables
  Headers <- MCHeaders
  Names = {"k", "m", "x"}
  Types <- MCTypes
  MaxLen = 4
CHECK_DEADLOCK FALSE
INVARIANTS
  BodyHasRow
  GetReadsNumerals
  ColumnsFound
PROPERTIES
  NoRowSkipped
  NewRowEachTurn
  LoopsEnd
