----------------------------- MODULE ViewReader -----------------------------
(***************************************************************************)
(* ViewReader (csvviewreader.cpp): the reader that copies no bytes.  Its    *)
(* records are views into the buffer's block, so a record that is cut must  *)
(* be brought together there: while the parser needs more data the bytes of *)
(* the record stay unconsumed, the next refill moves them to the front of   *)
(* the block, shift_views moves the views after them, and only then are     *)
(* they consumed.  A record that does not fit in the block is refused.      *)
(***************************************************************************)
EXTENDS ReaderBase, ViewParser, CsvGrammar

VARIABLES
  loop,                  \* where the loop of next() is: at its "top", behind
                         \* refill() ("refilled") or at the call of parse()
  need_to_compact_data,  \* need_to_compact_data
  total                  \* next()'s local `consumed`: the record's bytes so far

loop_vars == <<loop, need_to_compact_data, total>>
vars == <<buffer_vars, parser_vars, reader_vars, loop_vars>>

\* What a view shows: the bytes of the block, whatever has become of them.
Shown(view) == [i \in 1 .. view.len |-> data[view.from + i - 1]]

Text(views) == [k \in 1 .. Len(views) |-> Shown(views[k])]

-----------------------------------------------------------------------------
Init ==
  /\ ReaderInit
  /\ ParserBaseInit
  /\ loop = "top"
  /\ need_to_compact_data = FALSE
  /\ total = 0

\* make_view_parser throws before init() is reached.
RejectQuoting ==
  /\ config.has_quoting
  /\ Rejects("ConfigError")
  /\ UNCHANGED record_size

Construct ==
  \/ /\ RejectQuoting
     /\ UNCHANGED <<parser_vars, loop_vars>>
  \/ /\ ~config.has_quoting
     /\ RejectConfig \/ RejectBuffer \/ ConstructWithoutHeader
     /\ UNCHANGED <<parser_vars, loop_vars>>
  \/ /\ ~config.has_quoting
     /\ ConstructWithHeader
     /\ base_reset
     /\ UNCHANGED <<config, status, loop_vars>>

CallReader ==
  /\ CallNext
  /\ base_reset
  /\ UNCHANGED <<config, status, loop_vars>>

-----------------------------------------------------------------------------
(***************************************************************************)
(* The loop of next().                                                      *)
(***************************************************************************)
InLoop(where) == pc = "next" /\ status = "idle" /\ loop = where

\* next() returns or throws: its locals are gone.
Leaves ==
  /\ loop' = "top"
  /\ need_to_compact_data' = FALSE
  /\ total' = 0

NeedsRefill == buffer_empty \/ need_to_compact_data

\* Mutant of ThrowTooLarge: a record one byte shorter than the block is refused.
ThrowTooSoon ==
  /\ InLoop("top") /\ NeedsRefill
  /\ total + 1 >= N
  /\ ThrowInLine("RecordTooLargeError")
  /\ Leaves
  /\ UNCHANGED <<buffer_vars, parser_vars>>

\* consumed >= capacity(): nothing is consumed and the exception leaves next().
ThrowTooLarge ==
  /\ InLoop("top") /\ NeedsRefill
  /\ total >= N
  /\ ThrowInLine("RecordTooLargeError")
  /\ Leaves
  /\ UNCHANGED <<buffer_vars, parser_vars>>

\* refill() may move the block's bytes: from here to shift_views the views of
\* the record show other bytes than they did.
RefillBlock ==
  /\ InLoop("top") /\ NeedsRefill
  /\ total < N
  /\ refill
  /\ loop' = "refilled"
  /\ UNCHANGED <<parser_vars, reader_vars, need_to_compact_data, total>>

ShiftViews ==
  /\ InLoop("refilled") /\ reading = "ok"
  /\ shift_views(start)
  /\ consume(consumed)
  /\ loop' = "parse"
  /\ need_to_compact_data' = FALSE
  /\ UNCHANGED <<config, pending_cr, incomplete_last_read, consumed, status,
                 reader_vars, total>>

\* The views go out as they are: this branch does not shift them.
RefilledAtEof ==
  /\ InLoop("refilled") /\ reading = "eof"
  /\ consume(consumed)
  /\ IF fields # <<>> THEN SaveRecord(fields, Text(fields)) ELSE ReturnFalse
  /\ Leaves
  /\ UNCHANGED parser_vars

\* Mutant of RefillFailed: a refill that failed is tried again.
RefillRetries ==
  /\ InLoop("refilled") /\ reading \in {"buffer_full", "fail"}
  /\ loop' = "top"
  /\ UNCHANGED <<buffer_vars, parser_vars, reader_vars, need_to_compact_data, total>>

RefillFailed ==
  /\ InLoop("refilled") /\ reading \in {"buffer_full", "fail"}
  /\ consume(consumed)
  /\ ReturnFalse
  /\ Leaves
  /\ UNCHANGED parser_vars

CallParse ==
  /\ InLoop("parse") \/ (InLoop("top") /\ ~NeedsRefill)
  /\ parse(buffer_view, start)
  /\ total' = total + consumed'
  /\ loop' = "parse"
  /\ UNCHANGED <<buffer_vars, reader_vars, need_to_compact_data>>

\* The bytes of the record stay in the buffer.
NeedMoreData ==
  /\ status = "need_more_data"
  /\ status' = "idle"
  /\ loop' = "top"
  /\ need_to_compact_data' = TRUE
  /\ UNCHANGED <<buffer_vars, config, base_members, reader_vars, total>>

\* These parsers never fail.
Complete ==
  /\ status = "complete"
  /\ status' = "idle"
  /\ consume(consumed)
  /\ SaveRecord(fields, Text(fields))
  /\ Leaves
  /\ UNCHANGED <<config, base_members>>

NextStep ==
  \/ ThrowTooLarge
  \/ RefillBlock
  \/ ShiftViews
  \/ RefilledAtEof
  \/ RefillFailed
  \/ CallParse
  \/ NeedMoreData
  \/ Complete

Next ==
  \/ Construct
  \/ CallReader
  \/ NextStep

\* As for Reader: a call that has begun goes on until it returns.
Spec == Init /\ [][Next]_vars /\ WF_vars(NextStep)

-----------------------------------------------------------------------------
TypeOK ==
  /\ ReaderTypeOK
  /\ fields \in Seq(View)
  /\ current_record \in Seq(View)
  /\ pending_cr \in BOOLEAN
  /\ incomplete_last_read \in BOOLEAN
  /\ consumed \in 0 .. N
  /\ status \in {"idle", "need_more_data", "complete"}
  /\ loop \in {"top", "refilled", "parse"}
  /\ need_to_compact_data \in BOOLEAN
  /\ total \in Nat

\* With CRLF a '\r' that ends a chunk is taken for half a line ending: wrong when
\* it is data or the whole of a blank line's first chunk.  The first chunk ends
\* no earlier than the block.
CrSensitive ==
  /\ crlf /\ ~config.mapped_buffer
  /\ \E i \in N .. Len(file) :
       /\ file[i] = CR
       /\ \/ i = Len(file) \/ file[i + 1] # LF
          \/ i = 1 \/ file[i - 1] = LF

\* The bytes of line k, without its newline.
BytesOfLine(k) ==
  LET ends(i) == {j \in 1 .. i : is_newline(file[j])}
  IN  Cardinality({i \in 1 .. Len(file) :
        ~is_newline(file[i]) /\ Cardinality(ends(i)) = k - 1})

\* A last line without a newline, behind other lines of a stream, is moved by
\* the refill that meets the end of the file and its views are not (the README
\* has a run for it).  A single byte survives the move.
LastLineMoves ==
  /\ ~config.mapped_buffer
  /\ Len(file) > 2 /\ ~is_newline(file[Len(file)]) /\ ~is_newline(file[Len(file) - 1])
  /\ \E i \in 1 .. Len(file) : is_newline(file[i])

\* The views handed out show the records of the file, in order, wherever they
\* were cut and moved, read errors and refused records included; a last line
\* whose bytes have moved still has its number of fields; and at the end of the
\* file no record is missing.  (A blank line is a record, as in the test
\* ViewReaderTest.EmptyLines and not as in SPECIFICATION.md:329: see CsvGrammar.)
RecordsOfTheFile ==
  \/ failed \/ pc = "next"
  \/ LET records == AllRecords(config, file)
     IN  /\ Len(parsed) <= Len(records)
         /\ \A k \in 1 .. Len(parsed) :
              \/ parsed[k] = records[k]
              \/ LastLineMoves /\ k = Len(records) /\ Len(parsed[k]) = Len(records[k])
         /\ (outcome = "end" /\ reading = "eof") => Len(parsed) = Len(records)
  \/ CrSensitive

\* Whenever parse() is about to go on with a record, the views so far lie in the
\* block one delimiter apart and the last one ends where the unread bytes begin,
\* so lengthening it takes in the bytes that follow (the contract stated above
\* merge_incomplete_field); and no view, handed out or not, leaves the block.
ViewsAdjoin ==
  LET end(v) == v.from + v.len
  IN  /\ \A k \in 1 .. Len(fields) : end(fields[k]) <= N
      /\ \A k \in 1 .. Len(current_record) : end(current_record[k]) <= N
      /\ InLoop("parse") /\ fields # <<>> =>
           /\ \A k \in 2 .. Len(fields) : fields[k].from = end(fields[k - 1]) + 1
           /\ end(fields[Len(fields)]) = start

\* A record is refused as too large only when its line has at least as many
\* bytes as the block.  (As many, as csvviewreader.cpp:56 tests: SPECIFICATION.md
\* refuses only records that are larger (1271) and nothing of a mapped file (1249),
\* where a file that is one unfinished line has the size of its block and is
\* refused.  After the first refusal next() goes on where it was.)
RefusesOnlyLongLines ==
  [][outcome' = "RecordTooLargeError" /\ ~failed =>
       BytesOfLine(Len(parsed) + 1) >= N]_vars

\* Every call of next() returns or throws.
NextReturns == (pc = "next") ~> (pc # "next")
=============================================================================
