------------------------------ MODULE Iterator ------------------------------
(***************************************************************************)
(* ReaderBase::Iterator (csvreaderbase.cpp) over any reader that keeps the  *)
(* contract of RowSource, in the hands of a user who runs range-based for   *)
(* loops over the reader, leaves them early or by an exception, and calls   *)
(* next() in between.                                                       *)
(*                                                                         *)
(* The reader's file is a table: the rows next() can hand out, in order.    *)
(* How often it fails in between is up to it.  current_record() is the row  *)
(* handed out last (LineNumberCountsRows of Reader).                        *)
(***************************************************************************)
EXTENDS RowSource, Record

CONSTANTS
  Tables,   \* the sequences of rows a reader may hand out
  Headers,  \* the header lines
  Names,    \* the column names asked for
  Types     \* the arithmetic types asked for

ASSUME HeadersAssumption == \A names \in Headers : names \in Seq(Range(names))

\* A table is a sequence of rows, a row one of fields, a field one of bytes.
IsSequence(s) == s \in Seq(Range(s))

ASSUME TablesAssumption ==
  \A rows \in Tables :
    /\ IsSequence(rows)
    /\ \A k \in 1 .. Len(rows) :
         /\ IsSequence(rows[k])
         /\ \A i \in 1 .. Len(rows[k]) : IsSequence(rows[k][i])

VARIABLES
  table,
  headers,  \* headers_
  it,       \* the loop's iterator: reader_ is "reader" or, null, "end";
            \* "none" outside a loop
  at_step,  \* the loop's next step: "test", "body", "increment"; else "none"
  turned,   \* history: the loop's body has run
  shown     \* history: the row the user looked at last

loop_vars == <<it, at_step, turned>>
vars == <<table, headers, source_vars, loop_vars, shown>>

\* current_record(): save_record makes it without headers.
current_record ==
  IF line_number = 0 THEN MakeRecord(<<>>, <<>>)
  ELSE MakeRecord(table[line_number], <<>>)

Init ==
  /\ SourceInit
  /\ table \in Tables
  /\ headers \in Headers
  /\ it = "none" /\ at_step = "none" /\ turned = FALSE
  /\ shown = 0

Construct ==
  /\ Open \/ \E error \in ConstructorErrors : Refuse(error)
  /\ UNCHANGED <<table, headers, loop_vars, shown>>

-----------------------------------------------------------------------------
(***************************************************************************)
(* The iterator.                                                            *)
(***************************************************************************)
NextRow == HandOut /\ line_number < Len(table)

\* Mutant of Increment: next() returning false is not noticed.
IncrementBlindly ==
  /\ NextRow \/ ReportEnd
  /\ it' = "reader"
  /\ at_step' = "test"

\* Mutant of Increment: after an exception of next() the loop goes on.
IncrementRetrying ==
  \/ /\ NextRow \/ \E error \in NextErrors : Throw(error)
     /\ it' = "reader" /\ at_step' = "test"
  \/ /\ ReportEnd
     /\ it' = "end" /\ at_step' = "test"

\* operator++: it calls next(); an exception unwinds the loop.
Increment ==
  \/ /\ NextRow
     /\ it' = "reader" /\ at_step' = "test"
  \/ /\ ReportEnd
     /\ it' = "end" /\ at_step' = "test"
  \/ /\ \E error \in NextErrors : Throw(error)
     /\ it' = "none" /\ at_step' = "none"

\* Mutant of MakeIterator: the first row is not read.
MakeWithoutReading ==
  /\ it' = "reader" /\ at_step' = "test"
  /\ UNCHANGED source_vars

\* Mutant of MakeIterator: a row is read whether or not there is one already.
MakeReading == Increment

\* The constructor of Iterator(this): it reads a row unless one has been handed
\* out.
MakeIterator ==
  \/ line_number = 0 /\ Increment
  \/ /\ line_number # 0
     /\ it' = "reader" /\ at_step' = "test"
     /\ UNCHANGED source_vars

Begin ==
  /\ phase = "ready" /\ at_step = "none"
  /\ MakeIterator
  /\ turned' = FALSE
  /\ UNCHANGED <<table, headers, shown>>

\* operator!= with end(), whose reader_ is null.
Test ==
  /\ at_step = "test"
  /\ IF it = "reader" THEN at_step' = "body" /\ UNCHANGED it
                      ELSE at_step' = "none" /\ it' = "none"
  /\ UNCHANGED <<table, headers, source_vars, turned, shown>>

\* operator*, and the body goes on, or leaves the loop.
Body ==
  /\ at_step = "body"
  /\ shown' = line_number
  /\ turned' = TRUE
  /\ \/ at_step' = "increment" /\ UNCHANGED it
     \/ at_step' = "none" /\ it' = "none"
  /\ UNCHANGED <<table, headers, source_vars>>

Advance ==
  /\ at_step = "increment"
  /\ Increment
  /\ UNCHANGED <<table, headers, turned, shown>>

-----------------------------------------------------------------------------
(***************************************************************************)
(* Outside the loops.                                                       *)
(***************************************************************************)
\* The user calls next() when the row at hand, if any, has been looked at.
CallNext ==
  /\ phase = "ready" /\ at_step = "none" /\ shown = line_number
  /\ NextRow \/ ReportEnd \/ \E error \in NextErrors : Throw(error)
  /\ UNCHANGED <<table, headers, loop_vars, shown>>

\* The user looks at current_record().
Look ==
  /\ at_step = "none"
  /\ shown' = line_number
  /\ UNCHANGED <<table, headers, source_vars, loop_vars>>

LoopStep == Test \/ Body \/ Advance

Next == Construct \/ Begin \/ LoopStep \/ CallNext \/ Look

\* A loop that has begun goes on by itself; nothing else has to happen.
Spec == Init /\ [][Next]_vars /\ WF_vars(LoopStep)

-----------------------------------------------------------------------------
\* The loop's body runs only when there is a row to look at, whatever was read,
\* failed or had ended before the loop began.
BodyHasRow == at_step = "body" => line_number # 0

\* begin() hands out the row that next() has read and nobody has looked at, and
\* no row is replaced before it has been looked at: loops, early exits, retries
\* after an exception and calls of next() between them skip no row.
NoRowSkipped == [][line_number' # line_number => shown = line_number]_vars

\* Within one loop every turn but the first shows the next row: a row comes up
\* twice only where a new loop begins.
NewRowEachTurn == [][Body /\ turned => shown' = shown + 1]_vars

\* Every loop is over at some time, even if its body never leaves it.
LoopsEnd == (at_step # "none") ~> (at_step = "none")

-----------------------------------------------------------------------------
(***************************************************************************)
(* What the fields of the current row mean, by definitions of their own.    *)
(***************************************************************************)
IsNumeral(str) == str # <<>> /\ \A i \in 1 .. Len(str) : str[i] \in DOMAIN DigitValue

\* The digits by place value, from the last one on.
Number(numeral) ==
  LET place[i \in 0 .. Len(numeral)] == IF i = 0 THEN 1 ELSE 10 * place[i - 1]
      sum[i \in 0 .. Len(numeral)] ==
        IF i = 0 THEN 0
        ELSE sum[i - 1] + DigitValue[numeral[Len(numeral) - (i - 1)]] * place[i - 1]
  IN  sum[Len(numeral)]

\* The stretches of str with nothing but blanks around them.
Trimmed(str) ==
  {SubSeq(str, s[1], s[2]) : s \in
     {s \in (1 .. Len(str)) \X (1 .. Len(str)) :
        \A i \in 1 .. Len(str) : i < s[1] \/ i > s[2] => str[i] \in Blanks}}

\* The values of T that str is a decimal numeral of.
Readings(str, T) ==
  LET negative == {t \in Trimmed(str) :
                     t # <<>> /\ t[1] = Minus /\ IsNumeral(Tail(t)) /\ Min(T) < 0}
  IN  T \cap ({Number(t) : t \in {t \in Trimmed(str) : IsNumeral(t)}}
                \cup {-Number(Tail(t)) : t \in negative})

\* get<T> has a value exactly when the whole field is a numeral in the range of
\* T, blanks around it allowed, and then that value: not for an empty field, one
\* of blanks only, a number with something behind it or one out of range.
GetReadsNumerals ==
  \A T \in Types : \A index \in 0 .. Len(current_record.fields) :
    LET readings == IF index < Len(current_record.fields)
                    THEN Readings(current_record.fields[index + 1], T) ELSE {}
    IN  get(current_record, index, T) =
          IF readings = {} THEN nullopt ELSE Value(CHOOSE v \in readings : TRUE)

\* A row made with the reader's headers finds by a name the last column of that
\* name, and nothing when the row is too short to have it or no column has the
\* name; at() and get<T>() agree on which.
ColumnsFound ==
  LET row == MakeRecord(current_record.fields, headers)
  IN  \A name \in Names :
        LET columns == {i \in 1 .. Len(headers) : headers[i] = name}
        IN  IF columns = {}
            THEN /\ at_column(row, name) = Thrown("RecordColumnNameError")
                 /\ \A T \in Types : get_column(row, name, T) = nullopt
            ELSE /\ at_column(row, name) = at(row, Max(columns) - 1)
                 /\ \A T \in Types :
                      get_column(row, name, T) = get(row, Max(columns) - 1, T)
=============================================================================
