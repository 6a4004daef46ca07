---------------------------- MODULE SimpleParser ----------------------------
(***************************************************************************)
(* SimpleParser::parse, the parser without quoting.  A call looks for the   *)
(* first newline byte of the buffer and splits what lies before it; there   *)
(* is no loop to interrupt, so a call is one step.                          *)
(***************************************************************************)
EXTENDS Parser, SequencesExt

\* The next byte of a line: a delimiter begins a new piece, any other byte goes on
\* with the last one.
SplitByte(pieces, c) ==
  IF is_delim(c) THEN Append(pieces, <<>>) ELSE ExtendLast(pieces, <<c>>)

\* split(): the stretches between delimiters, the empty ones included.
split(str) ==
  LET pieces[i \in 0 .. Len(str)] ==
        IF i = 0 THEN << <<>> >> ELSE SplitByte(pieces[i - 1], str[i])
  IN  pieces[Len(str)]

\* Mutant of insert_fields: a field cut in two becomes two fields.
InsertUnmerged(pieces) == fields' = fields \o pieces

\* insert_fields(): the first piece goes on with the field the last chunk
\* left open.
insert_fields(pieces) ==
  fields' = IF incomplete_last_read /\ fields # <<>>
            THEN ExtendLast(fields, pieces[1]) \o Tail(pieces)
            ELSE fields \o pieces

newline_pos(buffer) == SelectInSeq(buffer, is_newline)

\* The bytes before the newline; in crlf without the '\r' that ends them.
line(buffer) ==
  LET upto == SubSeq(buffer, 1, newline_pos(buffer) - 1)
  IN  IF crlf /\ upto # <<>> /\ Last(upto) = CR THEN Front(upto) ELSE upto

NoNewline(buffer) ==
  /\ newline_pos(buffer) = 0
  /\ insert_fields(split(buffer))
  /\ consumed' = Len(buffer)
  /\ incomplete_last_read' = TRUE
  /\ pending_cr' = (pending_cr \/ Last(buffer) = CR)
  /\ Return("need_more_data")

\* fields_.back().pop_back() on an empty string is undefined behaviour.
BlankLineAfterCr(buffer) ==
  /\ newline_pos(buffer) # 0 /\ line(buffer) = <<>>
  /\ crlf /\ pending_cr
  /\ pending_cr' = FALSE
  /\ incomplete_last_read' = FALSE
  /\ consumed' = newline_pos(buffer)
  /\ fields' = WithoutLastChar(fields)
  /\ Return(IF Last(fields) = <<>> THEN "undefined" ELSE "complete")

BlankLine(buffer) ==
  /\ newline_pos(buffer) # 0 /\ line(buffer) = <<>>
  /\ ~(crlf /\ pending_cr)
  /\ incomplete_last_read' = FALSE
  /\ consumed' = newline_pos(buffer)
  /\ Return("complete")
  /\ UNCHANGED <<fields, pending_cr>>

Line(buffer) ==
  /\ newline_pos(buffer) # 0 /\ line(buffer) # <<>>
  /\ insert_fields(split(line(buffer)))
  /\ incomplete_last_read' = FALSE
  /\ consumed' = newline_pos(buffer)
  /\ Return("complete")
  /\ UNCHANGED pending_cr

Parse(buffer) ==
  /\ status = "idle" /\ buffer # <<>>
  /\ \/ NoNewline(buffer)
     \/ BlankLineAfterCr(buffer)
     \/ BlankLine(buffer)
     \/ Line(buffer)
  /\ UNCHANGED <<config, in_quotes, pending_quote>>
=============================================================================
