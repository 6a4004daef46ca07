----------------------------- MODULE ViewParser -----------------------------
(***************************************************************************)
(* ViewSimpleParser and ViewSimdParser: the parsers without quoting whose   *)
(* fields are views into the buffer's block.  A view is the index of its    *)
(* first byte in the block and its length; it says where to look, not what  *)
(* is there.  A field cut in two is merged by making its view longer, which *)
(* is right only if its bytes have been brought together meanwhile; that is *)
(* what shift_views is for.                                                 *)
(*                                                                         *)
(* The two parsers differ in how they find the newline and the delimiters.  *)
(***************************************************************************)
EXTENDS ParserBase, SimdScan

parser_vars == <<config, base_members, status>>

\* split(): memchr for the newline, then for each delimiter before it.
scan_bytes(buffer) ==
  LET newlines == {i \in 0 .. Len(buffer) - 1 : is_newline(buffer[i + 1])}
  IN  [newline_pos     |-> IF newlines = {} THEN NoPosition ELSE Min(newlines),
       delim_positions |-> {i \in 0 .. Len(buffer) - 1 : is_delim(buffer[i + 1])}]

scan(buffer) ==
  IF config.use_simd
  THEN scan_for_structural_chars(buffer, newline(config.line_ending))
  ELSE scan_bytes(buffer)

\* Mutant of insert_fields: the view of the merged field is only its second part.
InsertReplaced(begin, cut) ==
  LET views  == [k \in 1 .. Len(cut) |-> [cut[k] EXCEPT !.from = begin + @]]
  IN  fields' = IF incomplete_last_read /\ fields # <<>>
                THEN Front(fields) \o views ELSE fields \o views

\* add_field and merge_incomplete_field; begin is where the chunk begins in the
\* block.
insert_fields(begin, cut) ==
  LET views  == [k \in 1 .. Len(cut) |-> [cut[k] EXCEPT !.from = begin + @]]
      merged == [fields EXCEPT ![Len(fields)].len = @ + views[1].len]
  IN  fields' = IF incomplete_last_read /\ fields # <<>>
                THEN merged \o Tail(views) ELSE fields \o views

\* Mutant of shift_views: every view moves to the front of the block.
ShiftToFront(new_buffer_start) ==
  fields' = [k \in 1 .. Len(fields) |-> [fields[k] EXCEPT !.from = new_buffer_start]]

\* The first view moves to the new start of the buffer, the others keep their
\* distance from it.
shift_views(new_buffer_start) ==
  fields' = [k \in 1 .. Len(fields) |->
               [fields[k] EXCEPT !.from = new_buffer_start + @ - fields[1].from]]

EndOfLine(buffer, scanned) == line_end(buffer, scanned.newline_pos, crlf)

\* A mapped buffer that has been consumed shows an empty view once more.
NoBytes(buffer) ==
  /\ buffer = <<>>
  /\ consumed' = 0
  /\ status' = "need_more_data"
  /\ UNCHANGED <<fields, incomplete_last_read, pending_cr>>

NoNewline(buffer, begin, scanned) ==
  /\ buffer # <<>> /\ scanned.newline_pos = NoPosition
  /\ insert_fields(begin, Cut(scanned.delim_positions, Len(buffer)))
  /\ consumed' = Len(buffer)
  /\ incomplete_last_read' = TRUE
  /\ pending_cr' = (pending_cr \/ Last(buffer) = CR)
  /\ status' = "need_more_data"

\* A newline ends the record, with or without bytes of the record before it.
EndsRecord(scanned) ==
  /\ scanned.newline_pos # NoPosition
  /\ consumed' = scanned.newline_pos + 1
  /\ incomplete_last_read' = FALSE

\* remove_last_char_from_fields(): remove_suffix(1) on an empty view is
\* undefined behaviour.
BlankLineAfterCr(buffer, scanned) ==
  /\ EndsRecord(scanned) /\ EndOfLine(buffer, scanned) = 0
  /\ crlf /\ pending_cr
  /\ pending_cr' = FALSE
  /\ IF Last(fields).len = 0
     THEN status' = "undefined" /\ UNCHANGED fields
     ELSE /\ status' = "complete"
          /\ fields' = [fields EXCEPT ![Len(fields)].len = @ - 1]

BlankLine(buffer, scanned) ==
  /\ EndsRecord(scanned) /\ EndOfLine(buffer, scanned) = 0
  /\ ~(crlf /\ pending_cr)
  /\ status' = "complete"
  /\ UNCHANGED <<fields, pending_cr>>

Line(buffer, begin, scanned) ==
  /\ EndsRecord(scanned) /\ EndOfLine(buffer, scanned) # 0
  /\ insert_fields(begin, Cut(scanned.delim_positions, EndOfLine(buffer, scanned)))
  /\ status' = "complete"
  /\ UNCHANGED pending_cr

\* parse(): begin is where buffer.data() points.
parse(buffer, begin) ==
  /\ status = "idle"
  /\ LET scanned == scan(buffer)
     IN  \/ NoBytes(buffer)
         \/ NoNewline(buffer, begin, scanned)
         \/ BlankLineAfterCr(buffer, scanned)
         \/ BlankLine(buffer, scanned)
         \/ Line(buffer, begin, scanned)
  /\ UNCHANGED config
=============================================================================
