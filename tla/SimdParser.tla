----------------------------- MODULE SimdParser -----------------------------
(***************************************************************************)
(* SimdParser::parse: SimpleParser's protocol with the newline and the      *)
(* delimiters found a vector at a time.  A vector of LaneWidth bytes (16 in *)
(* the code) is compared as a whole; the bytes behind the last full vector  *)
(* are looked at one by one (SimdScan).                                     *)
(***************************************************************************)
EXTENDS Parser, SimdScan

\* extract_and_save_fields(): the first field of the buffer goes on with the one
\* the last chunk left open.
extract_and_save_fields(buffer, delim_positions, end) ==
  LET cut    == Cut(delim_positions, end)
      pieces == [k \in 1 .. Len(cut) |->
                   SubSeq(buffer, cut[k].from + 1, cut[k].from + cut[k].len)]
  IN  fields' = IF incomplete_last_read /\ fields # <<>>
                THEN ExtendLast(fields, pieces[1]) \o Tail(pieces)
                ELSE fields \o pieces

EndOfLine(buffer, scan) == line_end(buffer, scan.newline_pos, crlf)

NoNewline(buffer, scan) ==
  /\ scan.newline_pos = NoPosition
  /\ extract_and_save_fields(buffer, scan.delim_positions, Len(buffer))
  /\ consumed' = Len(buffer)
  /\ incomplete_last_read' = TRUE
  /\ pending_cr' = (pending_cr \/ Last(buffer) = CR)
  /\ Return("need_more_data")

BlankLineAfterCr(buffer, scan) ==
  /\ scan.newline_pos # NoPosition /\ EndOfLine(buffer, scan) = 0
  /\ crlf /\ pending_cr
  /\ pending_cr' = FALSE
  /\ incomplete_last_read' = FALSE
  /\ consumed' = scan.newline_pos + 1
  /\ fields' = WithoutLastChar(fields)
  /\ Return(IF Last(fields) = <<>> THEN "undefined" ELSE "complete")

BlankLine(buffer, scan) ==
  /\ scan.newline_pos # NoPosition /\ EndOfLine(buffer, scan) = 0
  /\ ~(crlf /\ pending_cr)
  /\ incomplete_last_read' = FALSE
  /\ consumed' = scan.newline_pos + 1
  /\ Return("complete")
  /\ UNCHANGED <<fields, pending_cr>>

Line(buffer, scan) ==
  /\ scan.newline_pos # NoPosition /\ EndOfLine(buffer, scan) # 0
  /\ extract_and_save_fields(buffer, scan.delim_positions, EndOfLine(buffer, scan))
  /\ incomplete_last_read' = FALSE
  /\ consumed' = scan.newline_pos + 1
  /\ Return("complete")
  /\ UNCHANGED pending_cr

Parse(buffer) ==
  /\ status = "idle" /\ buffer # <<>>
  /\ LET scan == scan_for_structural_chars(buffer, newline(config.line_ending))
     IN  \/ NoNewline(buffer, scan)
         \/ BlankLineAfterCr(buffer, scan)
         \/ BlankLine(buffer, scan)
         \/ Line(buffer, scan)
  /\ UNCHANGED <<config, in_quotes, pending_quote>>
=============================================================================
