----------------------------- MODULE CsvGrammar -----------------------------
(***************************************************************************)
(* What a file means, without chunks, cursors or pending flags: one pass    *)
(* over the whole file, a byte at a time.  This is the reference the        *)
(* readers are compared with; it models no code.                            *)
(*                                                                         *)
(* It defines what the parsers and their tests agree on for a file in one   *)
(* piece.  Where SPECIFICATION.md says otherwise it follows them: a blank   *)
(* line is a record (329-330 and 493-495 skip it), a blank around a         *)
(* delimiter is data (343 removes it), and a quote still open at the end of *)
(* the file is no error (355).                                              *)
(*                                                                         *)
(* mode is where the pass stands in the current field:                      *)
(*   start      nothing read yet          plain  reading an unquoted field  *)
(*   quoted     between the quotes        closed behind the closing quote   *)
(*   closed_cr  '\r' behind the closing quote (strict CRLF)                 *)
(*   bad        strict mode rejects the file here                           *)
(***************************************************************************)
EXTENDS Csv

Start == [records |-> <<>>, fields |-> <<>>, text |-> <<>>, mode |-> "start"]

EndsInCr(s) == s.mode = "plain" /\ s.text[Len(s.text)] = CR

EndField(s) ==
  [s EXCEPT !.fields = Append(@, s.text), !.text = <<>>, !.mode = "start"]

\* A blank line is a record without fields when there is no quoting, and a
\* record with one empty field when there is (csvparser_simple_test.cpp:152,
\* csvparser_quoting_strict_test.cpp:473).
EndRecord(cfg, s) ==
  LET blank == ~cfg.has_quoting /\ s.fields = <<>> /\ s.text = <<>>
  IN  [Start EXCEPT !.records =
         Append(s.records, IF blank THEN <<>> ELSE EndField(s).fields)]

Reject(s) == [s EXCEPT !.mode = "bad"]

Add(s, c, mode) == [s EXCEPT !.text = Append(@, c), !.mode = mode]

ReadNewline(cfg, s) ==
  IF cfg.line_ending # "crlf" \/ s.mode \in {"closed", "closed_cr"}
    THEN EndRecord(cfg, s)
  ELSE IF EndsInCr(s)
    THEN EndRecord(cfg, [s EXCEPT !.text = SubSeq(@, 1, Len(@) - 1)])
  ELSE IF cfg.has_quoting /\ cfg.parse_mode = "strict"
    THEN Reject(s)
    ELSE EndRecord(cfg, s)

ReadQuote(cfg, s) ==
  CASE s.mode = "start"  -> [s EXCEPT !.mode = "quoted"]
    [] s.mode = "quoted" -> [s EXCEPT !.mode = "closed"]
    [] s.mode = "closed" -> Add(s, quote_char, "quoted")
    [] s.mode = "plain"  -> IF cfg.parse_mode = "strict"
                            THEN Reject(s) ELSE Add(s, quote_char, "plain")

ReadData(cfg, s, c) ==
  CASE s.mode = "quoted"            -> Add(s, c, "quoted")
    [] s.mode \in {"start", "plain"} -> Add(s, c, "plain")
    [] s.mode = "closed" ->
         IF cfg.parse_mode = "lenient" THEN Add(s, c, "plain")
         ELSE IF cfg.line_ending = "crlf" /\ c = CR
         THEN [s EXCEPT !.mode = "closed_cr"] ELSE Reject(s)

ReadByte(cfg, s, c) ==
  IF s.mode = "bad" THEN s
  ELSE IF s.mode = "closed_cr" /\ c # newline(cfg.line_ending) THEN Reject(s)
  ELSE IF c = newline(cfg.line_ending) /\ s.mode # "quoted" THEN ReadNewline(cfg, s)
  ELSE IF c = delimiter /\ s.mode # "quoted" THEN EndField(s)
  ELSE IF c = quote_char /\ cfg.has_quoting THEN ReadQuote(cfg, s)
  ELSE ReadData(cfg, s, c)

Reading(cfg, f) ==
  LET upto[i \in 0 .. Len(f)] ==
        IF i = 0 THEN Start ELSE ReadByte(cfg, upto[i - 1], f[i])
  IN  upto[Len(f)]

\* The records before the first error.
Records(cfg, f) == Reading(cfg, f).records

Rejected(cfg, f) == Reading(cfg, f).mode = "bad"

\* The last record may lack its newline, and the closing quote of its last field:
\* what is left at the end of the file.
LastRecord(cfg, f) ==
  LET s == Reading(cfg, f)
  IN  IF s.mode = "bad" \/ (s.mode = "start" /\ s.fields = <<>>) THEN <<>>
      ELSE << EndField(IF s.mode = "closed_cr"
                       THEN Add(s, CR, "plain") ELSE s).fields >>

AllRecords(cfg, f) == Records(cfg, f) \o LastRecord(cfg, f)
=============================================================================
