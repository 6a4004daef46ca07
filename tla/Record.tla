------------------------------- MODULE Record -------------------------------
(***************************************************************************)
(* RecordBase (csvrecord.hpp): a row as its user sees it, the fields by     *)
(* index and, when it was made with headers, by column name; and what       *)
(* get<T> makes of a field's text for an arithmetic type T.                 *)
(*                                                                         *)
(* Indexes count from 0.  A type T is the range of its values; one without  *)
(* negative values is unsigned.                                             *)
(***************************************************************************)
EXTENDS Integers, SequencesExt

CONSTANTS
  Blanks,      \* the bytes std::isspace accepts
  Minus,       \* '-'
  DigitValue   \* the value of each digit byte

ASSUME DigitAssumption ==
  /\ \A c \in DOMAIN DigitValue : DigitValue[c] \in 0 .. 9
  /\ Minus \notin Blanks \cup DOMAIN DigitValue
  /\ Blanks \cap DOMAIN DigitValue = {}

nullopt == [has_value |-> FALSE]
Value(v) == [has_value |-> TRUE, value |-> v]

Thrown(error) == [error |-> error]

-----------------------------------------------------------------------------
\* Mutant of init_headers: the first of two columns with one name keeps it.
FirstColumnWins(names) ==
  [name \in {names[i] : i \in 1 .. Len(names)} |->
     Min({i \in 0 .. Len(names) - 1 : names[i + 1] = name})]

\* headers_[headers[i]] = i, in order.
init_headers(names) ==
  LET index[i \in 0 .. Len(names)] ==
        IF i = 0 THEN <<>>
        ELSE [name \in DOMAIN index[i - 1] \cup {names[i]} |->
                IF name = names[i] THEN i - 1 ELSE index[i - 1][name]]
  IN  index[Len(names)]

MakeRecord(fields, names) == [fields |-> fields, headers |-> init_headers(names)]

\* at(index) and at(column_name).
at(record, index) ==
  IF index >= Len(record.fields) THEN Thrown("out_of_range")
  ELSE Value(record.fields[index + 1])

at_column(record, name) ==
  IF name \in DOMAIN record.headers THEN at(record, record.headers[name])
  ELSE Thrown("RecordColumnNameError")

-----------------------------------------------------------------------------
\* The bytes of class at the front of str.
Leading(class, str) ==
  LET others == {i \in 1 .. Len(str) : str[i] \notin class}
  IN  IF others = {} THEN Len(str) ELSE Min(others) - 1

From(str, n) == SubSeq(str, n + 1, Len(str))

\* std::from_chars: a '-' if T is signed, then digits as far as they go; ptr is
\* the number of bytes taken.
from_chars(str, T) ==
  LET sign   == IF Leading({Minus}, str) > 0 /\ Min(T) < 0 THEN 1 ELSE 0
      digits == SubSeq(str, sign + 1, sign + Leading(DOMAIN DigitValue, From(str, sign)))
      number == FoldLeft(LAMBDA n, c : 10 * n + DigitValue[c], 0, digits)
      value  == IF sign = 1 THEN -number ELSE number
  IN  [ec    |-> IF digits = <<>> THEN "invalid_argument"
                 ELSE IF value \notin T THEN "result_out_of_range" ELSE "none",
       ptr   |-> sign + Len(digits),
       value |-> value]

\* Mutant of convert_arithmetic: what follows the number is not looked at.
ConvertPrefix(str, T) ==
  LET conversion == from_chars(From(str, Leading(Blanks, str)), T)
  IN  IF str = <<>> \/ conversion.ec # "none" THEN nullopt
      ELSE Value(conversion.value)

convert_arithmetic(str, T) ==
  LET conversion == from_chars(From(str, Leading(Blanks, str)), T)
      rest       == From(str, Leading(Blanks, str) + conversion.ptr)
  IN  IF \/ str = <<>>
         \/ conversion.ec # "none"
         \/ Leading(Blanks, rest) # Len(rest)
      THEN nullopt ELSE Value(conversion.value)

\* get<T>(index) and get<T>(column_name).
get(record, index, T) ==
  IF index >= Len(record.fields) THEN nullopt
  ELSE convert_arithmetic(record.fields[index + 1], T)

get_column(record, name, T) ==
  IF name \in DOMAIN record.headers THEN get(record, record.headers[name], T)
  ELSE nullopt
=============================================================================
