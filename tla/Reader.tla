------------------------------- MODULE Reader -------------------------------
(***************************************************************************)
(* Reader (csvreader.cpp) on top of its buffer and its parser.  The         *)
(* constructor checks the configuration and, when the file has a header,    *)
(* reads the first record; after that every call of next() reads one        *)
(* record.  A call is a loop over the buffer: refill it when it is empty,   *)
(* parse what it shows, consume what the parser took.                       *)
(*                                                                         *)
(* The parser is the one the configuration asks for (make_parser); all of   *)
(* them are instances over the same variables.                              *)
(***************************************************************************)
EXTENDS ReaderBase, Parser, SimdScan, CsvGrammar

Strict == INSTANCE StrictQuotingParser
Lenient == INSTANCE LenientQuotingParser
Simple == INSTANCE SimpleParser
Simd == INSTANCE SimdParser

vars == <<buffer_vars, parser_vars, reader_vars>>

(***************************************************************************)
(* The parser make_parser chooses.                                          *)
(***************************************************************************)
parse(buffer) ==
  \/ config.has_quoting /\ config.parse_mode = "strict" /\ Strict!Parse(buffer)
  \/ config.has_quoting /\ config.parse_mode = "lenient" /\ Lenient!Parse(buffer)
  \/ ~config.has_quoting /\ ~config.use_simd /\ Simple!Parse(buffer)
  \/ ~config.has_quoting /\ config.use_simd /\ Simd!Parse(buffer)

parse_step ==
  \/ config.has_quoting /\ config.parse_mode = "strict" /\ Strict!Step
  \/ config.has_quoting /\ config.parse_mode = "lenient" /\ Lenient!Step

-----------------------------------------------------------------------------
Init == ReaderInit /\ ParserInit

Construct ==
  \/ /\ RejectConfig \/ RejectBuffer \/ ConstructWithoutHeader
     /\ UNCHANGED parser_vars
  \/ /\ ConstructWithHeader
     /\ reset
     /\ UNCHANGED <<config, locals>>

CallReader ==
  /\ CallNext
  /\ reset
  /\ UNCHANGED <<config, locals>>

-----------------------------------------------------------------------------
(***************************************************************************)
(* The loop of next().                                                      *)
(***************************************************************************)
\* The refill brought bytes: the loop goes on to parse them.
RefillBrings ==
  /\ reading' = "ok"
  /\ UNCHANGED reader_vars

\* At the end of the file what has been parsed so far is the last record.
RefillAtEof ==
  /\ reading' = "eof"
  /\ IF fields # <<>> THEN SaveRecord(fields, fields) ELSE ReturnFalse

\* Mutant of RefillFails: a refill that failed is tried again.
RefillRetries ==
  /\ reading' \in {"buffer_full", "fail"}
  /\ UNCHANGED reader_vars

RefillFails ==
  /\ reading' \in {"buffer_full", "fail"}
  /\ ReturnFalse

RefillBuffer ==
  /\ pc = "next" /\ status = "idle" /\ buffer_empty
  /\ refill
  /\ RefillBrings \/ RefillAtEof \/ RefillFails
  /\ UNCHANGED parser_vars

CallParse ==
  /\ pc = "next" /\ ~buffer_empty
  /\ parse(buffer_view)
  /\ UNCHANGED <<buffer_vars, reader_vars>>

ParseStep ==
  /\ parse_step
  /\ UNCHANGED <<buffer_vars, reader_vars>>

\* parse() has returned.
ParseReturns(result) ==
  /\ status = result
  /\ status' = "idle"
  /\ consume(consumed)
  /\ UNCHANGED <<config, members, chunk, field_start, literals, quoted_field>>

NeedMoreData ==
  /\ ParseReturns("need_more_data")
  /\ UNCHANGED reader_vars

Complete ==
  /\ ParseReturns("complete")
  /\ SaveRecord(fields, fields)

ParseFails ==
  /\ ParseReturns("fail")
  /\ ThrowInLine("ParseError")

NextStep ==
  \/ RefillBuffer
  \/ CallParse
  \/ ParseStep
  \/ NeedMoreData
  \/ Complete
  \/ ParseFails

Next ==
  \/ Construct
  \/ CallReader
  \/ NextStep

\* A call of next() runs on the caller's thread until it returns: NextStep is
\* fair.  Nothing makes the user call it.
Spec == Init /\ [][Next]_vars /\ WF_vars(NextStep)

-----------------------------------------------------------------------------
TypeOK ==
  /\ ParserTypeOK
  /\ ReaderTypeOK
  /\ current_record \in Seq(String)

\* The places b where a chunk ends between byte b and byte b + 1: the reader
\* refills an empty block, so a chunk is the next N bytes of the file.
Cuts ==
  IF config.mapped_buffer THEN {}
  ELSE {b \in 1 .. Len(file) - 1 : b % N = 0}

\* Where the grammar stands in the field when a chunk ends behind byte b.
ModeAt(b) == Reading(config, SubSeq(file, 1, b)).mode

(***************************************************************************)
(* The cuts the parsers are known to mishandle, so that the file is read    *)
(* otherwise than in one piece (the README has a run for each kind).        *)
(***************************************************************************)
\* Without quoting, CRLF: a '\r' that ends a chunk and is data stays pending and
\* costs a later field its last byte; a blank line cut in two gets an empty field.
SimpleSensitive ==
  /\ crlf
  /\ \E b \in Cuts : /\ file[b] = CR
                     /\ file[b + 1] # LF \/ b = 1 \/ file[b - 1] = LF

\* Strict: a chunk that begins with a quote inside an unquoted field opens
\* quotes; one that is only the second quote of a pair drops it; in CRLF, one
\* that begins with the '\r' behind a closing quote, or follows a '\r' that is
\* data, is rejected.
StrictSensitive ==
  \E b \in Cuts :
    LET c == file[b + 1]
    IN  \/ c = quote_char /\ ModeAt(b) = "plain"
        \/ /\ c = quote_char /\ ModeAt(b) = "closed"
           /\ b + 1 \in Cuts \/ b + 1 = Len(file)
        \/ crlf /\ c = CR /\ ModeAt(b) = "closed"
        \/ crlf /\ c # LF /\ file[b] = CR /\ ModeAt(b) = "plain"

\* Another quote of the field, before the chunk of N bytes behind byte b ends.
QuotesFollow(b, i) ==
  \E j \in i + 1 .. b + N :
    /\ j <= Len(file) /\ file[j] = quote_char
    /\ \A k \in i + 1 .. j - 1 : file[k] \notin {delimiter, newline(config.line_ending)}

\* Lenient: add_field takes a quote for an opening quote wherever its part of a
\* field begins with one: in an unquoted field; and inside quotes, at the start of
\* the chunk or behind the second quote of a pair, when the field has more of them.
LenientSensitive ==
  \E b \in Cuts :
    /\ file[b + 1] = quote_char
    /\ \/ ModeAt(b) = "plain"
       \/ ModeAt(b) = "quoted" /\ QuotesFollow(b, b + 1)
       \/ /\ ModeAt(b) = "closed"
          /\ b + 1 < Len(file) /\ file[b + 2] = quote_char /\ QuotesFollow(b, b + 2)

Sensitive ==
  IF ~config.has_quoting THEN SimpleSensitive
  ELSE IF config.parse_mode = "strict" THEN StrictSensitive
  ELSE LenientSensitive

\* The records the parser completes are those of the file, in order, whatever
\* the size of the chunks, read errors included; when next() reports the end of
\* the file none is missing; and no '\r' is taken off a field that has no bytes.
\* (What the records of a file are, CsvGrammar says: a blank line is one of them,
\* as the tests have it, and is not skipped as SPECIFICATION.md:329 has it.)
RecordsOfTheFile ==
  \/ failed
  \/ LET records == AllRecords(config, file)
     IN  /\ status # "undefined"
         /\ Len(parsed) <= Len(records)
         /\ parsed = SubSeq(records, 1, Len(parsed))
         /\ (outcome = "end" /\ reading = "eof") => parsed = records
  \/ Sensitive

\* A ParseError is thrown only for a file that CsvGrammar rejects, and a file it
\* rejects is never read to its end without one, at whatever place the chunks cut
\* it.  (That is less than the texts ask for.  The grammar accepts what the code
\* does in one piece: a quote still open at the end of the file, an error in
\* SPECIFICATION.md:355, and in strict CRLF a '\r' that is data, an error in
\* csvparser_quoting_strict_test.cpp:409 and, cut off, at 466-471 and 479-483.)
ErrorsOfTheFile ==
  \/ /\ failed => Rejected(config, file)
     /\ (outcome = "end" /\ reading = "eof") => (failed \/ ~Rejected(config, file))
  \/ Sensitive

\* While parse() runs, no branch looks behind the chunk or copies from outside
\* it: the field being read starts at or before the cursor, and before the '\r'
\* a newline takes off it; the copy of a field with escaped quotes is as long
\* as add_field has made room for; and back() is never asked of no fields.
FieldsInBounds ==
  status = "parsing" =>
    /\ consumed <= Len(chunk)
    /\ field_start <= consumed
    /\ Strict!OnByte /\ crlf /\ ~in_quotes /\ is_newline(at(consumed))
         /\ Strict!PrecededByCr => field_start < consumed
    /\ config.parse_mode = "strict" =>
         LET raw == SubSeq(chunk, field_start + 1, consumed)
         IN  Len(Strict!Unescaped(raw)) = Len(raw) - literals
    /\ incomplete_last_read => fields # <<>>

\* line_number() is the number of rows handed out, the header not among them,
\* and current_record() is the last of them, whatever failed in between.
LineNumberCountsRows ==
  /\ CountsRows
  /\ pc # "closed" /\ ~in_ctor =>
       current_record = IF line_number = 0 THEN <<>> ELSE accepted[Len(accepted)]

\* Every call of next() returns or throws.
NextReturns == (pc = "next") ~> (pc # "next")
=============================================================================
