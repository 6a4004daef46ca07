-------------------------- MODULE ViewReaderProofs --------------------------
(***************************************************************************)
(* Proofs about ViewReader, for every set of configurations, every file,    *)
(* every block size and every alphabet: the size policies, the row counts   *)
(* and the contract of RowSource, by the lemmas of ReaderBaseProofs; where  *)
(* the views lie, whatever the block does with its bytes; that what they    *)
(* show is the records of the file; and that only long lines are refused.   *)
(***************************************************************************)
EXTENDS ViewReader, ReaderBaseProofs, FiniteSetTheorems

-----------------------------------------------------------------------------
(***************************************************************************)
(* One call of parse().                                                     *)
(***************************************************************************)
LEMMA BytesScan ==
  ASSUME NEW buffer, Len(buffer) \in Nat
  PROVE  Finds(scan_bytes(buffer), buffer, newline(config.line_ending))
<1> DEFINE newlines == {i \in 0 .. Len(buffer) - 1 : is_newline(buffer[i + 1])}
<1>1. newlines = Places(buffer, newline(config.line_ending))
  BY DEF is_newline, Places
<1>2. {i \in 0 .. Len(buffer) - 1 : is_delim(buffer[i + 1])} = Places(buffer, delimiter)
  BY DEF is_delim, Places
<1>3. newlines # {} => Min(newlines) \in newlines /\ \A y \in newlines : Min(newlines) <= y
  <2>1. newlines \subseteq Nat
    OBVIOUS
  <2> HIDE DEF newlines
  <2> QED
    BY <2>1, MinIsLeast
<1>4. scan_bytes(buffer) =
        [newline_pos |-> IF newlines = {} THEN NoPosition ELSE Min(newlines),
         delim_positions |-> Places(buffer, delimiter)]
  BY <1>2 DEF scan_bytes
<1> HIDE DEF newlines
<1> QED
  BY <1>1, <1>3, <1>4 DEF Finds

\* The scan of either parser.
LEMMA ScanFinds ==
  ASSUME NEW buffer, Len(buffer) \in Nat
  PROVE  Finds(scan(buffer), buffer, newline(config.line_ending))
BY BytesScan, VectorScan DEF scan

\* A '\r' behind the record's last byte is never behind a delimiter, so there is
\* a byte that remove_last_char_from_fields() may take off.
CrIsShown == pending_cr => fields[Len(fields)].len # 0

\* Where the views begin, those of the record before the chunk included.
FirstByte(begin) == IF fields = <<>> THEN begin ELSE fields[1].from

\* A parser in the middle of a record whose views reach up to the chunk.
ReadyFor(begin) ==
  /\ fields \in Seq(View) /\ pending_cr \in BOOLEAN /\ incomplete_last_read \in BOOLEAN
  /\ fields = <<>> => ~pending_cr
  /\ fields # <<>> => /\ incomplete_last_read
                      /\ Spans(fields, fields[1].from, begin)
                      /\ CrIsShown

LEMMA InsertSpans ==
  ASSUME NEW begin \in Nat, ReadyFor(begin), NEW D, NEW taken \in Nat,
         insert_fields(begin, Cut(D, taken))
  PROVE  /\ fields' \in Views
         /\ Spans(fields', FirstByte(begin), begin + taken)
         /\ taken # 0 /\ taken - 1 \notin D => fields'[Len(fields')].len # 0
<1> DEFINE cut == Cut(D, taken)
           views == Moved(cut, begin)
<1>1. /\ cut \in Views /\ Spans(cut, 0, taken)
      /\ taken # 0 /\ taken - 1 \notin D => cut[Len(cut)].len # 0
  BY CutSpans
<1>2. fields' = IF incomplete_last_read /\ fields # <<>>
                THEN Joined(fields, views) ELSE fields \o views
  BY DEF insert_fields, Moved, Joined, Lengthened
<1> HIDE DEF cut
<1>3. /\ views \in Views /\ Len(views) = Len(cut)
      /\ \A k \in 1 .. Len(cut) : views[k].len = cut[k].len
      /\ Spans(views, begin + 0, begin + taken)
  BY <1>1, MovedSpans
<1>4. Len(cut) \in 1 .. Len(cut) /\ begin + 0 = begin
  BY <1>1, ViewsAreViews
<1>5. taken # 0 /\ taken - 1 \notin D => views[Len(views)].len # 0
  BY <1>1, <1>3, <1>4
<1> HIDE DEF views
<1>6. CASE fields = <<>>
  <2>1. fields \o views = views
    BY <1>3, <1>6, ConcatEmptySeq DEF Views
  <2> QED
    BY <1>2, <1>3, <1>4, <1>5, <1>6, <2>1 DEF FirstByte
<1>7. CASE fields # <<>>
  <2>1. /\ fields \in Views /\ Spans(fields, fields[1].from, begin)
        /\ fields' = Joined(fields, views)
    BY <1>2, <1>7 DEF ReadyFor, Views
  <2>2. fields[1].from \in Int
    BY <2>1, ViewsAreViews
  <2> QED
    BY <1>3, <1>4, <1>5, <1>7, <2>1, <2>2, JoinedSpans DEF FirstByte
<1> QED
  BY <1>6, <1>7

\* The newline is a byte of the buffer, and a '\r' is no delimiter.
LEMMA NewlineFound ==
  ASSUME NEW buffer, Len(buffer) \in Nat
  PROVE  LET scanned == scan(buffer)
         IN  /\ scanned.newline_pos \in {NoPosition} \cup 0 .. Len(buffer) - 1
             /\ scanned.newline_pos = NoPosition =>
                  \A i \in 0 .. Len(buffer) - 1 :
                    buffer[i + 1] = CR => i \notin scanned.delim_positions
<1>1. Finds(scan(buffer), buffer, newline(config.line_ending))
  BY ScanFinds
<1>2. scan(buffer).newline_pos \in {NoPosition} \cup 0 .. Len(buffer) - 1
  BY <1>1 DEF Finds, Places
<1>3. ASSUME scan(buffer).newline_pos = NoPosition, NEW i \in 0 .. Len(buffer) - 1,
             buffer[i + 1] = CR
      PROVE  i \notin scan(buffer).delim_positions
  BY <1>1, <1>3, CharAssumption DEF Finds, Places
<1> QED
  BY <1>2, <1>3

LEMMA EndOfLineInBuffer ==
  ASSUME NEW buffer, NEW scanned, NEW length \in Nat,
         scanned.newline_pos \in 0 .. length - 1
  PROVE  EndOfLine(buffer, scanned) \in 0 .. scanned.newline_pos
BY DEF EndOfLine, line_end

\* Shortening the last view keeps the views where they are.
LEMMA LastShortened ==
  ASSUME NEW views \in Views, views[Len(views)].len # 0,
         NEW limit \in Int, \A k \in 1 .. Len(views) : behind(views[k]) <= limit
  PROVE  LET shorter == [views EXCEPT ![Len(views)].len = @ - 1]
         IN  /\ shorter \in Seq(View)
             /\ Len(shorter) = Len(views)
             /\ \A k \in 1 .. Len(shorter) : behind(shorter[k]) <= limit
<1> DEFINE shorter == [views EXCEPT ![Len(views)].len = @ - 1]
           last == [views[Len(views)] EXCEPT !.len = @ - 1]
<1>1. /\ views \in Seq(View) /\ Len(views) \in Nat \ {0} /\ Len(views) \in 1 .. Len(views)
      /\ views[Len(views)] \in View
      /\ \A k \in 1 .. Len(views) : views[k].from \in Nat /\ views[k].len \in Nat
  BY ViewsAreViews
<1>2. last \in View /\ last.from = views[Len(views)].from
      /\ last.len = views[Len(views)].len - 1
  <2>1. views[Len(views)].len \in Nat /\ views[Len(views)].len # 0
    BY <1>1
  <2>2. views[Len(views)].len - 1 \in Nat
    BY <2>1
  <2> QED
    BY <1>1, <2>2 DEF View
<1>3. shorter = [views EXCEPT ![Len(views)] = last]
  OBVIOUS
<1> HIDE DEF last, shorter
<1>4. /\ shorter \in Seq(View) /\ Len(shorter) = Len(views)
      /\ \A k \in 1 .. Len(views) : shorter[k] = IF k = Len(views) THEN last ELSE views[k]
  BY <1>1, <1>2, <1>3, ExceptSeq
<1>5. behind(last) <= limit
  BY <1>1, <1>2 DEF behind
<1> QED
  BY <1>4, <1>5 DEF shorter

\* parse() takes the whole chunk when it needs more data, and otherwise stops at
\* an index.
LEMMA ParseAnswers ==
  ASSUME NEW buffer, NEW begin, Len(buffer) \in Nat, buffer = <<>> => Len(buffer) = 0,
         parse(buffer, begin)
  PROVE  /\ config' = config
         /\ consumed' \in Int
         /\ status' \in {"need_more_data", "complete", "undefined"}
         /\ status' = "need_more_data" => consumed' = Len(buffer)
<1> DEFINE scanned == scan(buffer)
<1>1. scanned.newline_pos \in Int
  BY NewlineFound DEF NoPosition
<1>2. CASE NoBytes(buffer)
  BY <1>2 DEF NoBytes, parse
<1>3. CASE NoNewline(buffer, begin, scanned)
  BY <1>3 DEF NoNewline, parse
<1>4. ASSUME EndsRecord(scanned), status' \in {"complete", "undefined"}
      PROVE  consumed' \in Int
  BY <1>1, <1>4 DEF EndsRecord
<1>5. CASE BlankLineAfterCr(buffer, scanned)
  BY <1>4, <1>5 DEF BlankLineAfterCr, parse
<1>6. CASE BlankLine(buffer, scanned) \/ Line(buffer, begin, scanned)
  BY <1>4, <1>6 DEF BlankLine, Line, parse
<1> QED
  BY <1>2, <1>3, <1>5, <1>6 DEF parse

\* The views end where parse() has stopped, or before; while the record goes on
\* they reach up to the end of the chunk; and no '\r' is taken off a view that
\* shows nothing.
LEMMA ParseKeepsViews ==
  ASSUME NEW buffer, Len(buffer) \in Nat, buffer = <<>> <=> Len(buffer) = 0,
         NEW begin \in Nat, ReadyFor(begin), parse(buffer, begin)
  PROVE  /\ fields' \in Seq(View)
         /\ pending_cr' \in BOOLEAN /\ incomplete_last_read' \in BOOLEAN
         /\ consumed' \in 0 .. Len(buffer)
         /\ status' \in {"need_more_data", "complete"}
         /\ \A k \in 1 .. Len(fields') : behind(fields'[k]) <= begin + consumed'
         /\ status' = "need_more_data" =>
              /\ consumed' = Len(buffer)
              /\ fields' = <<>> => consumed' = 0 /\ fields = <<>> /\ ~pending_cr'
              /\ fields' # <<>> =>
                   /\ incomplete_last_read'
                   /\ Spans(fields', FirstByte(begin), begin + Len(buffer))
                   /\ fields = <<>> => CrIsShown'
<1> DEFINE scanned == scan(buffer)
<1>1. /\ scanned.newline_pos \in {NoPosition} \cup 0 .. Len(buffer) - 1
      /\ scanned.newline_pos = NoPosition =>
           \A i \in 0 .. Len(buffer) - 1 :
             buffer[i + 1] = CR => i \notin scanned.delim_positions
  BY NewlineFound
<1> HIDE DEF scanned
<1>2. /\ fields \in Seq(View) /\ pending_cr \in BOOLEAN /\ incomplete_last_read \in BOOLEAN
      /\ fields = <<>> => ~pending_cr /\ Len(fields) = 0
      /\ fields # <<>> => /\ fields \in Views /\ incomplete_last_read /\ CrIsShown
                          /\ fields[1].from \in Int
                          /\ Spans(fields, fields[1].from, begin)
                          /\ \A k \in 1 .. Len(fields) : behind(fields[k]) <= begin
  <2>1. fields # <<>> => fields \in Views
    BY DEF ReadyFor, Views
  <2>2. fields = <<>> => Len(fields) = 0
    OBVIOUS
  <2>3. fields # <<>> => fields[1].from \in Int
    BY <2>1, ViewsAreViews
  <2> QED
    BY <2>1, <2>2, <2>3 DEF ReadyFor, Spans
<1>3. CASE NoBytes(buffer)
  <2>1. /\ Len(buffer) = 0 /\ consumed' = 0 /\ status' = "need_more_data"
        /\ UNCHANGED <<fields, incomplete_last_read, pending_cr>>
    BY <1>3 DEF NoBytes
  <2> QED
    BY <1>2, <2>1 DEF FirstByte
<1>4. CASE NoNewline(buffer, begin, scanned)
  <2> DEFINE cr == Last(buffer) = CR
  <2>1. /\ Len(buffer) # 0 /\ scanned.newline_pos = NoPosition
        /\ insert_fields(begin, Cut(scanned.delim_positions, Len(buffer)))
        /\ consumed' = Len(buffer) /\ incomplete_last_read' = TRUE
        /\ pending_cr' = (pending_cr \/ cr) /\ status' = "need_more_data"
    BY <1>4 DEF NoNewline
  <2>2. /\ fields' \in Views
        /\ Spans(fields', FirstByte(begin), begin + Len(buffer))
        /\ Len(buffer) # 0 /\ Len(buffer) - 1 \notin scanned.delim_positions =>
             fields'[Len(fields')].len # 0
    BY <2>1, InsertSpans
  <2>3. cr => fields'[Len(fields')].len # 0
    <3> SUFFICES ASSUME cr PROVE Len(buffer) - 1 \notin scanned.delim_positions
      BY <2>1, <2>2
    <3>1. Len(buffer) - 1 \in 0 .. Len(buffer) - 1 /\ (Len(buffer) - 1) + 1 = Len(buffer)
      BY <2>1
    <3>2. buffer[Len(buffer)] = CR
      BY DEF Last
    <3> QED
      BY <1>1, <2>1, <3>1, <3>2
  <2>4. \A k \in 1 .. Len(fields') : behind(fields'[k]) <= begin + consumed'
    BY <2>1, <2>2 DEF Spans
  <2>5. pending_cr' \in BOOLEAN
    BY <1>2, <2>1
  <2>6. fields = <<>> => CrIsShown'
    BY <1>2, <2>1, <2>3 DEF CrIsShown
  <2> QED
    BY <2>1, <2>2, <2>4, <2>5, <2>6 DEF Views
<1>5. ASSUME EndsRecord(scanned)
      PROVE  /\ scanned.newline_pos \in 0 .. Len(buffer) - 1
             /\ consumed' = scanned.newline_pos + 1 /\ consumed' \in 0 .. Len(buffer)
             /\ EndOfLine(buffer, scanned) \in 0 .. scanned.newline_pos
             /\ incomplete_last_read' = FALSE
  <2>1. scanned.newline_pos \in 0 .. Len(buffer) - 1
    BY <1>1, <1>5 DEF EndsRecord
  <2> QED
    BY <1>5, <2>1, EndOfLineInBuffer DEF EndsRecord
<1>6. CASE BlankLineAfterCr(buffer, scanned)
  <2>1. EndsRecord(scanned) /\ pending_cr /\ pending_cr' = FALSE
    BY <1>6 DEF BlankLineAfterCr
  <2>2. fields \in Views /\ fields[Len(fields)].len # 0
    BY <1>2, <2>1 DEF CrIsShown
  <2>3. Last(fields) = fields[Len(fields)]
    BY DEF Last
  <2>4. status' = "complete" /\ fields' = [fields EXCEPT ![Len(fields)].len = @ - 1]
    BY <1>6, <2>2, <2>3 DEF BlankLineAfterCr
  <2>5. /\ fields' \in Seq(View)
        /\ \A k \in 1 .. Len(fields') : behind(fields'[k]) <= begin
    <3>1. \A k \in 1 .. Len(fields) : behind(fields[k]) <= begin
      BY <1>2, <2>2 DEF Views
    <3> DEFINE shorter == [fields EXCEPT ![Len(fields)].len = @ - 1]
    <3>2. begin \in Int
      OBVIOUS
    <3>3. /\ shorter \in Seq(View) /\ Len(shorter) = Len(fields)
          /\ \A k \in 1 .. Len(shorter) : behind(shorter[k]) <= begin
      BY <2>2, <3>1, <3>2, LastShortened
    <3> HIDE DEF shorter
    <3>4. fields' = shorter
      BY <2>4 DEF shorter
    <3> QED
      BY <3>3, <3>4
  <2>6. ASSUME NEW k \in 1 .. Len(fields') PROVE behind(fields'[k]) <= begin + consumed'
    <3>1. behind(fields'[k]) \in Int
      BY <2>5, ViewAt
    <3> QED
      BY <1>5, <2>1, <2>5, <3>1
  <2> QED
    BY <1>5, <2>1, <2>4, <2>5, <2>6
<1>7. CASE BlankLine(buffer, scanned)
  <2>1. EndsRecord(scanned) /\ status' = "complete" /\ UNCHANGED <<fields, pending_cr>>
    BY <1>7 DEF BlankLine
  <2>2. ASSUME NEW k \in 1 .. Len(fields') PROVE behind(fields'[k]) <= begin + consumed'
    <3>1. behind(fields[k]) \in Int
      BY <1>2, <2>1, ViewAt
    <3>2. behind(fields[k]) <= begin
      BY <1>2, <2>1
    <3> QED
      BY <1>5, <2>1, <3>1, <3>2
  <2> QED
    BY <1>2, <1>5, <2>1, <2>2
<1>8. CASE Line(buffer, begin, scanned)
  <2> DEFINE end == EndOfLine(buffer, scanned)
  <2>1. /\ EndsRecord(scanned) /\ status' = "complete" /\ UNCHANGED pending_cr
        /\ insert_fields(begin, Cut(scanned.delim_positions, end))
    BY <1>8 DEF Line
  <2>2. end \in Nat /\ end <= consumed' /\ consumed' \in 0 .. Len(buffer)
    BY <1>5, <2>1
  <2> HIDE DEF end
  <2>3. fields' \in Views /\ Spans(fields', FirstByte(begin), begin + end)
    BY <2>1, <2>2, InsertSpans
  <2>4. ASSUME NEW k \in 1 .. Len(fields') PROVE behind(fields'[k]) <= begin + consumed'
    <3>1. behind(fields'[k]) \in Int
      BY <2>3, ViewsAreViews DEF behind
    <3>2. behind(fields'[k]) <= begin + end
      BY <2>3 DEF Spans
    <3> QED
      BY <2>2, <3>1, <3>2
  <2> QED
    BY <1>2, <1>5, <2>1, <2>2, <2>3, <2>4 DEF Views
<1> QED
  BY <1>3, <1>4, <1>6, <1>7, <1>8 DEF parse, scanned

\* shift_views() moves the views as they are to where the block has them now.
LEMMA ShiftMoves ==
  ASSUME NEW to \in Nat, fields \in Views, NEW b \in Int,
         Spans(fields, fields[1].from, b), shift_views(to)
  PROVE  /\ fields' \in Views
         /\ Spans(fields', to, to + (b - fields[1].from))
         /\ Len(fields') = Len(fields)
         /\ fields'[Len(fields')].len = fields[Len(fields)].len
<1>1. /\ Len(fields) \in 1 .. Len(fields)
      /\ \A k \in 1 .. Len(fields) :
           fields[k] \in View /\ fields[k].from \in Nat /\ fields[k].len \in Nat
      /\ fields[1].from \in Nat
  BY ViewsAreViews
<1> DEFINE offset == to - fields[1].from
<1>2. offset \in Int /\ offset + fields[1].from = to
  BY <1>1
<1>3. fields' = Moved(fields, offset)
  <2>1. ASSUME NEW k \in 1 .. Len(fields)
        PROVE  [fields[k] EXCEPT !.from = to + @ - fields[1].from]
                 = [fields[k] EXCEPT !.from = offset + @]
    <3>1. to + fields[k].from - fields[1].from = offset + fields[k].from
      BY <1>1
    <3> QED
      BY <3>1
  <2> QED
    BY <2>1 DEF shift_views, Moved
<1> HIDE DEF offset
<1>4. /\ Moved(fields, offset) \in Views
      /\ Len(Moved(fields, offset)) = Len(fields)
      /\ \A k \in 1 .. Len(fields) : Moved(fields, offset)[k].len = fields[k].len
      /\ Spans(Moved(fields, offset), offset + fields[1].from, offset + b)
  BY <1>1, <1>2, MovedSpans
<1>5. offset + b = to + (b - fields[1].from)
  BY <1>1 DEF offset
<1> QED
  BY <1>1, <1>2, <1>3, <1>4, <1>5

-----------------------------------------------------------------------------
(***************************************************************************)
(* The rows.                                                                *)
(***************************************************************************)
\* parse() has an answer, and the loop has begun, only inside next().
ParserInv == pc # "next" => status = "idle" /\ loop = "top"

IInv == BaseInv /\ ParserInv

-----------------------------------------------------------------------------
\* A call that ends, by a record or without one.
LEMMA LeaveKeepsInv ==
  ASSUME IInv, pc = "next", config' = config, status' = "idle", Leaves,
         \/ \E result : End(result)
         \/ \E record, text : SaveRecord(record, text)
  PROVE  IInv'
<1>1. BaseInv'
  BY EndKeepsBase, SaveRecordKeepsBase DEF IInv
<1>2. ParserInv'
  BY DEF ParserInv, Leaves
<1> QED
  BY <1>1, <1>2 DEF IInv

\* A turn inside next() that does not end the call.
LEMMA TurnKeepsInv ==
  ASSUME IInv, pc = "next", UNCHANGED reader_vars, config' = config
  PROVE  IInv'
<1>1. BaseInv'
  BY ReaderUnchangedKeepsBase DEF IInv
<1>2. ParserInv'
  BY DEF ParserInv, reader_vars
<1> QED
  BY <1>1, <1>2 DEF IInv

LEMMA InitInv == Init => IInv
BY InitBase DEF Init, ReaderInit, ParserBaseInit, IInv, ParserInv

LEMMA ConstructKeepsInv == ASSUME IInv, Construct PROVE IInv'
<1>1. /\ RejectConfig \/ RejectBuffer \/ ConstructWithoutHeader \/ ConstructWithHeader
           \/ RejectQuoting
      /\ UNCHANGED <<config, status, loop>>
  BY DEF Construct, parser_vars, loop_vars
<1>2. BaseInv'
  <2>1. CASE RejectQuoting
    BY <1>1, <2>1, RejectedKeepsBase DEF RejectQuoting, IInv
  <2> QED
    BY <1>1, <2>1, ConstructKeepsBase DEF IInv
<1>3. pc = "construct"
  BY <1>1 DEF RejectConfig, RejectBuffer, RejectQuoting, Rejects,
     ConstructWithoutHeader, ConstructWithHeader, Constructs
<1>4. ParserInv'
  BY <1>1, <1>3 DEF IInv, ParserInv
<1> QED
  BY <1>2, <1>4 DEF IInv

LEMMA CallReaderKeepsInv == ASSUME IInv, CallReader PROVE IInv'
<1>1. CallNext /\ UNCHANGED <<config, status, loop>>
  BY DEF CallReader, loop_vars
<1>2. BaseInv'
  BY <1>1, CallNextKeepsBase DEF IInv
<1>3. ParserInv'
  BY <1>1 DEF CallNext, IInv, ParserInv
<1> QED
  BY <1>2, <1>3 DEF IInv

\* parse() has an answer only inside next().
LEMMA AnswerInNext ==
  ASSUME IInv, status # "idle"
  PROVE  pc = "next"
BY DEF IInv, ParserInv

LEMMA NextStepKeepsInv == ASSUME IInv, NextStep PROVE IInv'
<1>1. CASE ThrowTooLarge
  BY <1>1, LeaveKeepsInv DEF ThrowTooLarge, InLoop, ThrowInLine, parser_vars
<1>2. CASE RefillBlock
  BY <1>2, TurnKeepsInv DEF RefillBlock, InLoop, parser_vars
<1>3. CASE ShiftViews
  BY <1>3, TurnKeepsInv DEF ShiftViews, InLoop
<1>4. CASE RefilledAtEof
  BY <1>4, LeaveKeepsInv DEF RefilledAtEof, InLoop, ReturnFalse, parser_vars
<1>5. CASE RefillFailed
  BY <1>5, LeaveKeepsInv DEF RefillFailed, InLoop, ReturnFalse, parser_vars
<1>6. CASE CallParse
  BY <1>6, TurnKeepsInv DEF CallParse, InLoop, parse
<1>7. CASE NeedMoreData
  BY <1>7, AnswerInNext, TurnKeepsInv DEF NeedMoreData
<1>8. CASE Complete
  BY <1>8, AnswerInNext, LeaveKeepsInv DEF Complete
<1> QED
  BY <1>1, <1>2, <1>3, <1>4, <1>5, <1>6, <1>7, <1>8 DEF NextStep

LEMMA NextKeepsInv == IInv /\ [Next]_vars => IInv'
<1> SUFFICES ASSUME IInv, [Next]_vars PROVE IInv'
  OBVIOUS
<1>1. CASE Construct
  BY <1>1, ConstructKeepsInv
<1>2. CASE CallReader
  BY <1>2, CallReaderKeepsInv
<1>3. CASE NextStep
  BY <1>3, NextStepKeepsInv
<1>4. CASE UNCHANGED vars
  <2>1. UNCHANGED reader_vars /\ UNCHANGED <<config, status, loop>>
    BY <1>4 DEF vars, parser_vars, loop_vars
  <2>2. BaseInv'
    BY <2>1, ReaderUnchangedKeepsBase DEF IInv
  <2>3. ParserInv'
    BY <2>1 DEF IInv, ParserInv, reader_vars
  <2> QED
    BY <2>2, <2>3 DEF IInv
<1> QED
  BY <1>1, <1>2, <1>3, <1>4 DEF Next

LEMMA InductiveInvariant == Spec => []IInv
BY InitInv, NextKeepsInv, PTL DEF Spec

\* Under every strict policy the rows ViewReader hands out agree in size with
\* the first one that has fields, refused records and failures in between.
THEOREM RowsFit == Spec => []RowsFitThePolicy
<1>1. IInv => RowsFitThePolicy
  BY DEF IInv, BaseInv
<1> QED
  BY <1>1, InductiveInvariant, PTL

\* line_number() is the number of rows handed out and the headers are the first
\* record, whatever failed in between.
THEOREM RowsCounted == Spec => []CountsRows
<1>1. IInv => CountsRows
  BY DEF IInv, BaseInv
<1> QED
  BY <1>1, InductiveInvariant, PTL

-----------------------------------------------------------------------------
(***************************************************************************)
(* ViewReader implements RowSource.  It returns false only over a buffer    *)
(* that is spent: the bytes that were left when a refill brings nothing are *)
(* those parse() has taken, and they are consumed before next() returns.    *)
(***************************************************************************)
BlockInv ==
  /\ N \in Nat /\ size \in Nat /\ start \in Int /\ start <= size
  /\ config.mapped_buffer => N = size
  /\ pc \in {"ready", "next"} => N # 0

\* Whenever the loop is about to refill, the parser has taken every unread byte.
LoopInv ==
  /\ consumed \in Int
  /\ status \in {"idle", "need_more_data"} => total \in Nat
  /\ pc # "next" => ~need_to_compact_data /\ total = 0
  /\ status = "need_more_data" => consumed = size - start /\ total >= consumed
  /\ InLoop("top") /\ NeedsRefill =>
       consumed >= size - start /\ total >= size - start
  /\ InLoop("refilled") /\ reading # "ok" =>
       consumed >= size - start /\ (config.mapped_buffer \/ bits # {})

EndInv ==
  outcome = "end" /\ pc \in {"ready", "next"} =>
    /\ spent
    /\ pc = "next" => /\ fields = <<>> /\ status = "idle" /\ total = 0
                      /\ \/ loop = "top"
                         \/ loop = "refilled" /\ reading # "ok"

SInv == IInv /\ StreamInv /\ BlockInv /\ LoopInv /\ EndInv

\* What the block and the loop say of an empty buffer.
LEMMA EmptyIsDrained ==
  ASSUME BlockInv
  PROVE  buffer_empty <=> start = size
BY DEF BlockInv, buffer_empty, Stream!empty, Mapped!empty

LEMMA ViewLength ==
  ASSUME BlockInv
  PROVE  /\ Len(buffer_view) = size - start /\ Len(buffer_view) \in Nat
         /\ buffer_view = <<>> => Len(buffer_view) = 0
<1>1. size - start \in Nat
  BY DEF BlockInv
<1>2. buffer_view = [i \in 1 .. size - start |-> data[start + i - 1]]
  BY DEF buffer_view, Stream!view, Mapped!view, Stream!available, Mapped!available
<1>3. Len(buffer_view) = size - start
  BY <1>1, <1>2
<1> QED
  BY <1>1, <1>3, EmptySeq

LEMMA InitSource == Init => SInv /\ Source!SourceInit
<1> SUFFICES ASSUME Init PROVE SInv /\ Source!SourceInit
  OBVIOUS
<1>1. /\ ReaderInit /\ outcome # "end" /\ pc = "construct" /\ consumed = 0 /\ total = 0
      /\ need_to_compact_data = FALSE /\ status = "idle"
  BY DEF Init, ReaderInit, ParserBaseInit
<1>2. BlockInv
  <2>1. CASE StreamInit
    BY <1>1, <2>1, ReaderAssumption DEF StreamInit, Stream!Init, BlockInv
  <2>2. CASE MappedInit
    <3>1. file \in Seq(Char) /\ N = size /\ size = Len(file) /\ start = 0
      BY <2>2, ReaderAssumption DEF MappedInit, Mapped!Init, String
    <3> QED
      BY <1>1, <3>1, LenProperties DEF BlockInv
  <2> QED
    BY <1>1, <2>1, <2>2 DEF ReaderInit
<1>3. LoopInv
  BY <1>1 DEF LoopInv, InLoop
<1> QED
  BY <1>1, <1>2, <1>3, InitInv, InitStream, InitIsSourceInit DEF SInv, EndInv

\* The steps between two calls of next().
LEMMA OutsideImplements ==
  ASSUME SInv, Construct \/ CallReader
  PROVE  StreamInv' /\ BlockInv' /\ LoopInv' /\ EndInv' /\ SourceStep
<1>1. /\ UNCHANGED <<buffer_vars, config, status, loop_vars>>
      /\ consumed' = consumed \/ consumed' = 0
  BY DEF Construct, CallReader, CallNext, RejectQuoting, RejectConfig, RejectBuffer,
     Rejects, ConstructWithoutHeader, ConstructWithHeader, Constructs, base_reset,
     parser_vars, base_members
<1>2. ControlInv /\ pc # "next" /\ status = "idle" /\ loop = "top"
      /\ ~need_to_compact_data /\ total = 0
  <2>1. pc # "next"
    BY DEF Construct, CallReader, CallNext, RejectQuoting, RejectConfig, RejectBuffer,
       Rejects, ConstructWithoutHeader, ConstructWithHeader, Constructs
  <2> QED
    BY <2>1 DEF SInv, IInv, BaseInv, ParserInv, LoopInv
<1>3. StreamInv' /\ (spent => spent')
  BY <1>1, UnchangedKeepsStream DEF SInv
<1>4. BlockInv'
  <2>1. pc' \in {"ready", "next"} => N # 0
    <3>1. CASE CallReader
      BY <3>1 DEF CallReader, CallNext, SInv, BlockInv
    <3>2. CASE Construct
      <4>1. pc' = "closed" \/ buffer_good
        BY <3>2 DEF Construct, RejectQuoting, RejectConfig, RejectBuffer, Rejects,
           ConstructWithoutHeader, ConstructWithHeader, Constructs
      <4>2. config.mapped_buffer /\ buffer_good => N # 0
        BY DEF buffer_good, Mapped!good, Mapped!is_null, SInv, BlockInv
      <4>3. ~config.mapped_buffer => N # 0
        BY DEF SInv, StreamInv
      <4> QED
        BY <4>1, <4>2, <4>3
    <3> QED
      BY <3>1, <3>2
  <2> QED
    BY <1>1, <2>1 DEF SInv, BlockInv, buffer_vars
<1>5. LoopInv'
  <2>1. UNCHANGED <<need_to_compact_data, total, loop, status>>
    BY <1>1 DEF loop_vars
  <2>2. consumed' \in Int /\ total' \in Nat
    BY <1>1, <1>2, <2>1 DEF SInv, LoopInv
  <2>3. ASSUME InLoop("top")', NeedsRefill'
        PROVE  consumed' >= size' - start' /\ total' >= size' - start'
    <3>1. UNCHANGED <<start, size>> /\ start = size /\ size \in Nat
      <4>1. UNCHANGED <<start, size>>
        BY <1>1 DEF buffer_vars
      <4>2. buffer_empty'
        BY <1>2, <2>1, <2>3 DEF NeedsRefill
      <4> QED
        BY <1>1, <4>1, <4>2 DEF SInv, BlockInv, buffer_empty, Stream!empty, Mapped!empty
    <3>2. consumed' = 0
      BY <1>2, <2>3 DEF InLoop, Construct, CallReader, CallNext, RejectQuoting,
         RejectConfig, RejectBuffer, Rejects, ConstructWithoutHeader,
         ConstructWithHeader, Constructs, base_reset
    <3>3. size' - start' = 0
      BY <3>1
    <3>4. total' = 0
      BY <1>2, <2>1
    <3> QED
      BY <3>2, <3>3, <3>4
  <2> QED
    BY <1>2, <2>1, <2>2, <2>3 DEF LoopInv, InLoop
<1>6. CASE CallReader
  <2>1. CallNext /\ fields' = <<>> /\ outcome' = outcome /\ pc = "ready"
    BY <1>6 DEF CallReader, CallNext, base_reset
  <2>2. EndInv'
    BY <1>1, <1>2, <1>3, <2>1 DEF SInv, EndInv, loop_vars
  <2> QED
    BY <1>2, <1>3, <1>4, <1>5, <2>1, <2>2, StutterIsSourceStep
<1>7. CASE Construct
  <2>1. pc' = "closed" \/ outcome' = "none"
    BY <1>2, <1>7 DEF Construct, RejectQuoting, RejectConfig, RejectBuffer, Rejects,
       ConstructWithoutHeader, ConstructWithHeader, Constructs, ControlInv
  <2>2. SourceStep
    BY <1>2, <1>7, ConstructIsSourceStep, RejectIsSourceStep DEF Construct, RejectQuoting
  <2> QED
    BY <1>3, <1>4, <1>5, <2>1, <2>2 DEF EndInv
<1> QED
  BY <1>6, <1>7

\* A refill after which a record has not ended: when it brings nothing, the
\* bytes the parser has taken are all there are.
LEMMA RefillImplements ==
  ASSUME SInv, RefillBlock
  PROVE  StreamInv' /\ BlockInv' /\ LoopInv' /\ EndInv' /\ SourceStep
<1>1. /\ pc = "next" /\ status = "idle" /\ loop = "top" /\ NeedsRefill
      /\ total < N /\ refill
      /\ UNCHANGED <<config, consumed, fields, status, pc, outcome, total>>
      /\ loop' = "refilled" /\ UNCHANGED reader_vars
  BY DEF RefillBlock, InLoop, parser_vars, base_members, reader_vars
<1>2. /\ StreamInv /\ ControlInv /\ BlockInv
      /\ consumed \in Int /\ total \in Nat
      /\ consumed >= size - start /\ total >= size - start
  BY <1>1 DEF SInv, IInv, BaseInv, LoopInv, InLoop
<1>3. /\ N \in Nat /\ size \in Nat /\ start \in Int /\ start <= size
      /\ size - start < N
  <2>1. N \in Nat /\ size \in Nat /\ start \in Int /\ start <= size
    BY <1>2 DEF BlockInv
  <2>2. size - start < N
    BY <1>1, <1>2, <2>1
  <2> QED
    BY <2>1, <2>2
<1>4. /\ StreamInv' /\ BlockInv'
      /\ reading' # "ok" => /\ size' - start' = size - start
                            /\ config.mapped_buffer \/ bits' # {}
  <2>1. CASE config.mapped_buffer
    <3>1. UNCHANGED <<N, start, size>>
      BY <2>1, <1>1 DEF refill, Mapped!refill
    <3> QED
      BY <1>1, <1>2, <2>1, <3>1 DEF StreamInv, BlockInv
  <2>2. CASE ~config.mapped_buffer
    <3>1. /\ StreamInv' /\ start' = 0
          /\ reading' # "ok" => size' = size - start /\ bits' # {}
      BY <1>1, <1>2, <1>3, <2>2, StreamRefill DEF refill
    <3>2. N' \in Nat /\ N' # 0 /\ size' \in Nat /\ ~config'.mapped_buffer
      BY <1>1, <2>2, <3>1 DEF StreamInv
    <3>3. BlockInv'
      BY <3>1, <3>2 DEF BlockInv
    <3>4. ASSUME reading' # "ok" PROVE size' - start' = size - start /\ bits' # {}
      BY <1>3, <3>1, <3>4
    <3> QED
      BY <3>1, <3>3, <3>4
  <2> QED
    BY <2>1, <2>2
<1>5. LoopInv'
  <2>1. ASSUME reading' # "ok"
        PROVE  consumed' >= size' - start' /\ (config'.mapped_buffer \/ bits' # {})
    <3>1. consumed' >= size' - start'
      BY <1>1, <1>2, <1>4, <2>1
    <3>2. config'.mapped_buffer \/ bits' # {}
      BY <1>1, <1>4, <2>1
    <3> QED
      BY <3>1, <3>2
  <2> QED
    BY <1>1, <1>2, <2>1 DEF LoopInv, InLoop
<1>6. EndInv'
  <2>1. CASE outcome = "end"
    <3>1. spent /\ fields = <<>> /\ total = 0
      BY <1>1, <2>1 DEF SInv, EndInv
    <3>2. spent' /\ reading' # "ok"
      BY <1>1, <1>2, <3>1, SpentStaysSpent
    <3> QED
      BY <1>1, <3>1, <3>2 DEF EndInv
  <2>2. CASE outcome # "end"
    BY <1>1, <2>2 DEF EndInv
  <2> QED
    BY <2>1, <2>2
<1> QED
  BY <1>1, <1>2, <1>4, <1>5, <1>6, StutterIsSourceStep

\* Consuming what the parser has taken.
LEMMA ConsumeKeepsBlock ==
  ASSUME BlockInv, consumed \in Int, consume(consumed), config' = config,
         pc' \in {"ready", "next"} => pc = "next"
  PROVE  /\ BlockInv'
         /\ consumed >= size - start => start' = size'
<1>1. /\ UNCHANGED <<N, size>>
      /\ start' = start + (IF consumed <= size - start THEN consumed ELSE size - start)
  BY DEF consume, Stream!Consume, Mapped!Consume, Stream!available, Mapped!available,
     Stream!Least, Mapped!Least
<1>2. /\ size \in Nat /\ start \in Int /\ start <= size
  BY DEF BlockInv
<1>3. start' \in Int /\ start' <= size' /\ (consumed >= size - start => start' = size')
  BY <1>1, <1>2
<1> QED
  BY <1>1, <1>3 DEF BlockInv

\* A call that ends by returning false leaves a spent buffer.
LEMMA ReturnFalseImplements ==
  ASSUME SInv, RefilledAtEof \/ RefillFailed, ReturnFalse
  PROVE  StreamInv' /\ BlockInv' /\ LoopInv' /\ EndInv' /\ SourceStep
<1>1. /\ InLoop("refilled") /\ reading # "ok" /\ pc = "next" /\ status = "idle"
      /\ consume(consumed) /\ Leaves /\ End("end")
      /\ UNCHANGED <<config, consumed, status>>
  BY DEF RefilledAtEof, RefillFailed, InLoop, ReturnFalse, parser_vars, base_members
<1>2. StreamInv /\ ControlInv /\ BlockInv /\ consumed \in Int /\ consumed >= size - start
      /\ (config.mapped_buffer \/ bits # {})
  BY <1>1 DEF SInv, IInv, BaseInv, LoopInv
<1>3. StreamInv' /\ UNCHANGED bits
  BY <1>1, <1>2, ConsumeKeepsStream
<1>4. BlockInv' /\ start' = size' /\ pc' # "next"
  BY <1>1, <1>2, ConsumeKeepsBlock DEF End
<1>5. LoopInv'
  BY <1>1, <1>2, <1>4 DEF LoopInv, Leaves, InLoop
<1>6. spent'
  <2>1. buffer_empty'
    BY <1>4 DEF BlockInv, buffer_empty, Stream!empty, Mapped!empty
  <2> QED
    BY <1>1, <1>2, <1>3, <2>1 DEF spent
<1>7. EndInv'
  BY <1>4, <1>6 DEF EndInv
<1> QED
  BY <1>1, <1>2, <1>3, <1>4, <1>5, <1>7, EndIsSourceStep

\* A call that ends by handing out a record or by throwing: not after the end.
LEMMA LeaveImplements ==
  ASSUME SInv, pc = "next", outcome # "end", status' = "idle", Leaves,
         UNCHANGED buffer_vars \/ consume(consumed), UNCHANGED <<config, consumed>>,
         \/ End("RecordTooLargeError")
         \/ \E record, text : SaveRecord(record, text)
  PROVE  StreamInv' /\ BlockInv' /\ LoopInv' /\ EndInv' /\ SourceStep
<1>1. StreamInv /\ ControlInv /\ BlockInv /\ consumed \in Int
  BY DEF SInv, IInv, BaseInv, LoopInv
<1>2. pc' # "next" /\ outcome' # "end"
  BY DEF SaveRecord, Accept, RejectSize, End
<1>3. StreamInv'
  BY <1>1, UnchangedKeepsStream, ConsumeKeepsStream
<1>4. BlockInv'
  <2>1. CASE UNCHANGED buffer_vars
    BY <1>1, <2>1 DEF BlockInv, buffer_vars
  <2>2. CASE consume(consumed)
    BY <1>1, <2>2, ConsumeKeepsBlock
  <2> QED
    BY <2>1, <2>2
<1>5. LoopInv'
  BY <1>1, <1>2 DEF LoopInv, Leaves, InLoop
<1>6. SourceStep
  BY <1>1, EndIsSourceStep, SaveIsSourceStep DEF Source!NextErrors
<1> QED
  BY <1>2, <1>3, <1>4, <1>5, <1>6 DEF EndInv

\* A turn between two refills: not after the end.
LEMMA TurnImplements ==
  ASSUME SInv, ShiftViews \/ CallParse \/ NeedMoreData
  PROVE  StreamInv' /\ BlockInv' /\ LoopInv' /\ EndInv' /\ SourceStep
<1>1. StreamInv /\ ControlInv /\ BlockInv /\ LoopInv
  BY DEF SInv, IInv, BaseInv
<1>2. pc = "next" /\ UNCHANGED reader_vars /\ UNCHANGED <<pc, outcome>>
  BY AnswerInNext DEF SInv, ShiftViews, CallParse, NeedMoreData, InLoop, reader_vars
<1>3. outcome # "end"
  <2>1. ASSUME outcome = "end" PROVE FALSE
    <3>1. /\ spent /\ status = "idle"
          /\ loop = "top" \/ (loop = "refilled" /\ reading # "ok")
      BY <1>2, <2>1 DEF SInv, EndInv
    <3> QED
      BY <3>1 DEF ShiftViews, CallParse, NeedMoreData, InLoop, NeedsRefill, spent
  <2> QED
    BY <2>1
<1>4. EndInv'
  BY <1>2, <1>3 DEF EndInv
<1>5. CASE ShiftViews
  <2>1. /\ consume(consumed) /\ config' = config /\ loop' = "parse" /\ status = "idle"
        /\ UNCHANGED <<consumed, status, total>>
    BY <1>5 DEF ShiftViews, InLoop
  <2>2. StreamInv' /\ BlockInv'
    BY <1>1, <1>2, <2>1, ConsumeKeepsStream, ConsumeKeepsBlock DEF LoopInv
  <2>3. LoopInv'
    BY <1>1, <1>2, <2>1 DEF LoopInv, InLoop
  <2> QED
    BY <1>1, <1>2, <1>4, <2>2, <2>3, StutterIsSourceStep
<1>6. CASE CallParse
  <2>1. /\ parse(buffer_view, start) /\ total' = total + consumed' /\ status = "idle"
        /\ UNCHANGED buffer_vars /\ loop' = "parse"
    BY <1>6 DEF CallParse, InLoop
  <2>2. /\ config' = config /\ consumed' \in Int
        /\ status' \in {"need_more_data", "complete", "undefined"}
        /\ status' = "need_more_data" => consumed' = size - start
    BY <1>1, <2>1, ViewLength, ParseAnswers
  <2>3. StreamInv' /\ BlockInv' /\ UNCHANGED <<start, size>>
    BY <1>1, <1>2, <2>1, <2>2, UnchangedKeepsStream DEF BlockInv, buffer_vars
  <2>4. ASSUME status' = "need_more_data"
        PROVE  consumed' = size' - start' /\ total' >= consumed' /\ total' \in Nat
    <3>1. total \in Nat /\ size \in Nat /\ start \in Int /\ start <= size
      BY <1>1, <2>1 DEF LoopInv, BlockInv
    <3>2. consumed' = size - start /\ total' = total + consumed' /\ UNCHANGED <<start, size>>
      BY <2>1, <2>2, <2>3, <2>4
    <3> QED
      BY <3>1, <3>2
  <2>5. LoopInv'
    BY <1>2, <2>2, <2>4 DEF LoopInv, InLoop
  <2> QED
    BY <1>1, <1>2, <1>4, <2>3, <2>5, StutterIsSourceStep
<1>7. CASE NeedMoreData
  <2>1. /\ status = "need_more_data" /\ loop' = "top"
        /\ UNCHANGED <<buffer_vars, config, consumed, total>>
    BY <1>7 DEF NeedMoreData, base_members
  <2>2. StreamInv' /\ BlockInv' /\ UNCHANGED <<start, size>>
    BY <1>1, <1>2, <2>1, UnchangedKeepsStream DEF BlockInv, buffer_vars
  <2>3. consumed = size - start /\ consumed \in Int /\ total >= consumed /\ total \in Nat
    BY <1>1, <2>1 DEF LoopInv
  <2>4. consumed' >= size' - start' /\ total' >= size' - start'
    <3>1. size - start \in Int
      BY <2>3
    <3> QED
      BY <2>1, <2>2, <2>3, <3>1
  <2>5. LoopInv'
    BY <1>2, <1>7, <2>1, <2>3, <2>4 DEF LoopInv, InLoop, NeedMoreData
  <2> QED
    BY <1>1, <1>2, <1>4, <2>2, <2>5, StutterIsSourceStep
<1> QED
  BY <1>5, <1>6, <1>7

LEMMA NextStepImplements ==
  ASSUME SInv, NextStep
  PROVE  StreamInv' /\ BlockInv' /\ LoopInv' /\ EndInv' /\ SourceStep
<1>1. CASE ThrowTooLarge
  <2>1. /\ pc = "next" /\ total >= N /\ End("RecordTooLargeError") /\ Leaves
        /\ UNCHANGED buffer_vars /\ UNCHANGED <<config, consumed>> /\ status' = "idle"
    BY <1>1 DEF ThrowTooLarge, InLoop, ThrowInLine, parser_vars, base_members
  <2>2. outcome # "end"
    <3>1. N \in Nat /\ N # 0
      BY <2>1 DEF SInv, BlockInv
    <3>2. total # 0
      BY <2>1, <3>1
    <3> QED
      BY <2>1, <3>2 DEF SInv, EndInv
  <2> QED
    BY <2>1, <2>2, LeaveImplements
<1>2. CASE RefillBlock
  BY <1>2, RefillImplements
<1>3. CASE ShiftViews \/ CallParse \/ NeedMoreData
  BY <1>3, TurnImplements
<1>4. CASE (RefilledAtEof \/ RefillFailed) /\ ReturnFalse
  BY <1>4, ReturnFalseImplements
<1>5. CASE RefilledAtEof /\ fields # <<>>
  <2>1. /\ pc = "next" /\ consume(consumed) /\ SaveRecord(fields, Text(fields)) /\ Leaves
        /\ UNCHANGED <<config, consumed>> /\ status' = "idle"
    BY <1>5 DEF RefilledAtEof, InLoop, parser_vars, base_members
  <2>2. outcome # "end"
    BY <1>5, <2>1 DEF SInv, EndInv
  <2> QED
    BY <2>1, <2>2, LeaveImplements
<1>6. CASE Complete
  <2>1. /\ status = "complete" /\ consume(consumed) /\ SaveRecord(fields, Text(fields))
        /\ Leaves /\ UNCHANGED <<config, consumed>> /\ status' = "idle"
    BY <1>6 DEF Complete, base_members
  <2>2. pc = "next"
    BY <2>1, AnswerInNext DEF SInv
  <2>3. outcome # "end"
    BY <2>1, <2>2 DEF SInv, EndInv
  <2> QED
    BY <2>1, <2>2, <2>3, LeaveImplements
<1> QED
  BY <1>1, <1>2, <1>3, <1>4, <1>5, <1>6 DEF NextStep, RefilledAtEof, RefillFailed

LEMMA NextImplements == SInv /\ [Next]_vars => SInv' /\ SourceStep
<1> SUFFICES ASSUME SInv, [Next]_vars PROVE SInv' /\ SourceStep
  OBVIOUS
<1>1. IInv'
  BY NextKeepsInv DEF SInv
<1>2. CASE Construct \/ CallReader
  BY <1>1, <1>2, OutsideImplements DEF SInv
<1>3. CASE NextStep
  BY <1>1, <1>3, NextStepImplements DEF SInv
<1>4. CASE UNCHANGED vars
  <2>1. UNCHANGED <<buffer_vars, config, status, fields, consumed, outcome, pc, loop,
                    need_to_compact_data, total>>
        /\ UNCHANGED reader_vars
    BY <1>4 DEF vars, parser_vars, base_members, loop_vars, reader_vars
  <2>2. UNCHANGED <<N, start, size, reading, bits>> /\ (buffer_empty' <=> buffer_empty)
    BY <2>1 DEF buffer_vars, buffer_empty, Stream!empty, Mapped!empty
  <2>3. StreamInv' /\ EndInv'
    BY <2>1, <2>2, UnchangedKeepsStream DEF SInv, EndInv
  <2>4. BlockInv'
    BY <2>1, <2>2 DEF SInv, BlockInv
  <2>5. LoopInv'
    BY <2>1, <2>2 DEF SInv, LoopInv, InLoop, NeedsRefill
  <2> QED
    BY <1>1, <2>1, <2>3, <2>4, <2>5, StutterIsSourceStep DEF SInv, IInv, BaseInv
<1> QED
  BY <1>2, <1>3, <1>4 DEF Next

\* ViewReader keeps the contract of RowSource too: once next() has returned
\* false no call hands out a row or throws, though a call may leave views, taken
\* bytes and a failed refill behind, for every file, block size and alphabet.
THEOREM EndIsFinal == Spec => ImplementsSource
<1>1. SInv /\ [Next]_vars => SInv' /\ [Source!SourceNext]_(Source!source_vars)
  BY NextImplements DEF SourceStep
<1> QED
  BY <1>1, InitSource, PTL DEF Spec, ImplementsSource, Source!SourceSpec
-----------------------------------------------------------------------------
(***************************************************************************)
(* Where the views lie.  A record that needs more data is brought together  *)
(* at the front of the block once: the refill that follows fills the block  *)
(* or meets the end of what there is, so the views are never asked to move  *)
(* a second time and what they show stays what parse() saw.                 *)
(***************************************************************************)
InBlock(views) == \A k \in 1 .. Len(views) : behind(views[k]) <= N

\* The views show bytes of files, and none of the block's that was never filled.
ShowsBytes(views) ==
  \A k \in 1 .. Len(views) :
    \A i \in views[k].from .. behind(views[k]) - 1 : data[i] \in Char

ViewTypes ==
  /\ fields \in Seq(View) /\ current_record \in Seq(View)
  /\ InBlock(fields) /\ InBlock(current_record) /\ ShowsBytes(fields)
  /\ pending_cr \in BOOLEAN /\ incomplete_last_read \in BOOLEAN
  /\ consumed \in 0 .. N
  /\ status \in {"idle", "need_more_data", "complete"}
  /\ loop \in {"top", "refilled", "parse"}
  /\ need_to_compact_data \in BOOLEAN
  /\ total \in Nat

\* The next refill, if there is one, brings nothing.
NoMoreToCome == IF config.mapped_buffer THEN start = size ELSE bits # {} \/ total >= N

BeforeRefill == status = "need_more_data" \/ InLoop("top")

\* Before a refill the views reach up to the end of the block's bytes.  Either
\* they begin where the unread bytes do, or the refill will bring nothing.
AtTop ==
  /\ Spans(fields, fields[1].from, size)
  /\ consumed = size - start /\ total = size - fields[1].from
  /\ (fields[1].from = start /\ CrIsShown) \/ NoMoreToCome
  /\ InLoop("top") => need_to_compact_data

\* Behind a refill the record's bytes are the first ones unread, but its views
\* may be elsewhere.
AtRefilled ==
  /\ Spans(fields, fields[1].from, fields[1].from + consumed)
  /\ consumed <= size - start /\ total = consumed /\ CrIsShown
  /\ config.mapped_buffer => consumed = size - start
  /\ ~config.mapped_buffer => start = 0 /\ (size = N \/ bits # {})

\* When parse() is called the views end where the unread bytes begin.
AtParse ==
  /\ Spans(fields, fields[1].from, start)
  /\ total = start - fields[1].from /\ CrIsShown
  /\ config.mapped_buffer => start = size
  /\ ~config.mapped_buffer => fields[1].from = 0 /\ (size = N \/ bits # {})

PlaceInv ==
  /\ pc = "next" /\ status # "complete" =>
       /\ fields = <<>> => ~pending_cr /\ total = 0
       /\ fields # <<>> => incomplete_last_read
  /\ fields # <<>> =>
       /\ BeforeRefill => AtTop
       /\ InLoop("refilled") /\ reading = "ok" => AtRefilled
       /\ InLoop("parse") => AtParse

GeoInv == BytesInv /\ RowTypes /\ ViewTypes /\ PlaceInv

LEMMA TextOfViews ==
  ASSUME NEW views \in Seq(View), ShowsBytes(views)
  PROVE  Text(views) \in Seq(String)
<1>1. ASSUME NEW k \in 1 .. Len(views) PROVE Shown(views[k]) \in String
  <2>1. views[k].from \in Nat /\ views[k].len \in Nat
    BY ViewAt
  <2>2. ASSUME NEW i \in 1 .. views[k].len PROVE data[views[k].from + i - 1] \in Char
    <3>1. views[k].from + i - 1 \in views[k].from .. behind(views[k]) - 1
      BY <2>1 DEF behind
    <3> QED
      BY <3>1 DEF ShowsBytes
  <2> QED
    BY <2>1, <2>2, IsASeq DEF Shown, String
<1>2. Len(views) \in Nat
  BY LenProperties
<1> QED
  BY <1>1, <1>2, IsASeq DEF Text

LEMMA InitGeo == Init => GeoInv
<1> SUFFICES ASSUME Init PROVE GeoInv
  OBVIOUS
<1>1. BytesInv /\ RowTypes
  BY InitBytes, InitRows DEF Init
<1>2. /\ fields = <<>> /\ current_record = <<>> /\ Len(fields) = 0 /\ Len(current_record) = 0
      /\ pending_cr = FALSE /\ incomplete_last_read = FALSE /\ consumed = 0
      /\ status = "idle" /\ loop = "top" /\ need_to_compact_data = FALSE /\ total = 0
      /\ pc = "construct"
  BY DEF Init, ReaderInit, ParserBaseInit
<1>3. N \in Nat
  BY <1>1 DEF BytesInv
<1>4. ViewTypes
  <2>1. fields \in Seq(View) /\ current_record \in Seq(View)
    BY <1>2, EmptySeq
  <2>2. InBlock(fields) /\ InBlock(current_record) /\ ShowsBytes(fields)
    BY <1>2 DEF InBlock, ShowsBytes
  <2>3. 0 \in 0 .. N /\ 0 \in Nat
    BY <1>3
  <2> QED
    BY <1>2, <2>1, <2>2, <2>3 DEF ViewTypes
<1>5. PlaceInv
  BY <1>2 DEF PlaceInv
<1> QED
  BY <1>1, <1>4, <1>5 DEF GeoInv

\* Outside a call nothing is asked of the places.
LEMMA PlaceOutside ==
  ASSUME pc' # "next", status' = "idle"
  PROVE  PlaceInv'
BY DEF PlaceInv, BeforeRefill, InLoop

LEMMA OutsideKeepsGeo ==
  ASSUME SInv, GeoInv, Construct \/ CallReader
  PROVE  GeoInv'
<1>1. /\ UNCHANGED <<buffer_vars, config, status, loop_vars>>
      /\ \/ UNCHANGED base_members /\ pc' # "next"
         \/ base_reset /\ pc' = "next"
      /\ \/ RejectConfig \/ RejectBuffer \/ ConstructWithoutHeader \/ ConstructWithHeader
         \/ CallNext \/ (Rejects("ConfigError") /\ UNCHANGED record_size)
  BY DEF Construct, CallReader, CallNext, RejectQuoting, RejectConfig, RejectBuffer,
     Rejects, ConstructWithoutHeader, ConstructWithHeader, Constructs, parser_vars
<1>2. config \in Configs /\ pc # "next" /\ status = "idle" /\ loop = "top" /\ total = 0
  <2>1. pc # "next"
    BY DEF Construct, CallReader, CallNext, RejectQuoting, RejectConfig, RejectBuffer,
       Rejects, ConstructWithoutHeader, ConstructWithHeader, Constructs
  <2> QED
    BY <2>1 DEF SInv, IInv, BaseInv, ControlInv, ParserInv, LoopInv
<1>3. RowTypes' /\ UNCHANGED current_record
  BY <1>1, <1>2, OutsideKeepsRows DEF GeoInv
<1>4. BytesInv' /\ UNCHANGED <<N, data>> /\ N \in Nat
  BY <1>1 DEF GeoInv, BytesInv, buffer_vars
<1>5. CASE UNCHANGED base_members /\ pc' # "next"
  <2>1. UNCHANGED <<fields, pending_cr, incomplete_last_read, consumed>>
    BY <1>5 DEF base_members
  <2>2. ViewTypes'
    BY <1>1, <1>3, <1>4, <2>1 DEF GeoInv, ViewTypes, InBlock, ShowsBytes, loop_vars
  <2>3. PlaceInv'
    BY <1>1, <1>2, <1>5, PlaceOutside
  <2> QED
    BY <1>3, <1>4, <2>2, <2>3 DEF GeoInv
<1>6. CASE base_reset /\ pc' = "next"
  <2>1. /\ fields' = <<>> /\ Len(fields') = 0 /\ pending_cr' = FALSE
        /\ incomplete_last_read' = FALSE /\ consumed' = 0
    BY <1>6 DEF base_reset
  <2>2. ViewTypes'
    <3>1. fields' \in Seq(View)
      BY <2>1, EmptySeq
    <3>2. InBlock(fields)' /\ ShowsBytes(fields)'
      BY <2>1 DEF InBlock, ShowsBytes
    <3>3. InBlock(current_record)' /\ current_record' \in Seq(View)
      BY <1>3, <1>4 DEF GeoInv, ViewTypes, InBlock
    <3>4. consumed' \in 0 .. N'
      BY <1>4, <2>1
    <3> QED
      BY <1>1, <2>1, <3>1, <3>2, <3>3, <3>4 DEF GeoInv, ViewTypes, loop_vars
  <2>3. PlaceInv'
    BY <1>1, <1>2, <2>1 DEF PlaceInv, loop_vars
  <2> QED
    BY <1>3, <1>4, <2>2, <2>3 DEF GeoInv
<1> QED
  BY <1>1, <1>5, <1>6

\* A call that ends hands out its views as they are.
LEMMA LeaveKeepsGeo ==
  ASSUME GeoInv, pc = "next", status' = "idle", Leaves,
         UNCHANGED buffer_vars \/ consume(consumed),
         UNCHANGED <<config, fields, pending_cr, incomplete_last_read, consumed>>,
         \/ \E result \in Outcomes : End(result) /\ failed' \in BOOLEAN /\ parsed' = parsed
         \/ SaveRecord(fields, Text(fields))
  PROVE  GeoInv'
<1>1. pc' # "next"
  BY DEF SaveRecord, Accept, RejectSize, End
<1>2. /\ fields \in Seq(View) /\ InBlock(fields) /\ ShowsBytes(fields)
      /\ consumed \in 0 .. N /\ N \in Nat
      /\ parsed \in Seq(Seq(String)) /\ current_record \in Seq(View)
      /\ InBlock(current_record)
  BY DEF GeoInv, ViewTypes, BytesInv, RowTypes
<1>3. BytesInv' /\ UNCHANGED <<N, data>>
  <2>1. CASE UNCHANGED buffer_vars
    BY <2>1 DEF GeoInv, BytesInv, buffer_vars
  <2>2. CASE consume(consumed)
    BY <1>2, <2>2, ConsumeKeepsBytes DEF GeoInv
  <2> QED
    BY <2>1, <2>2
<1>4. RowTypes' /\ current_record' \in {fields, <<>>, current_record}
  <2>1. Text(fields) \in Seq(String)
    BY <1>2, TextOfViews
  <2>2. CASE SaveRecord(fields, Text(fields))
    BY <2>1, <2>2, SaveKeepsRows DEF GeoInv
  <2>3. ASSUME NEW result \in Outcomes, End(result), failed' \in BOOLEAN, parsed' = parsed
        PROVE  RowTypes' /\ UNCHANGED current_record
    BY <1>2, <2>3, EndKeepsRows DEF GeoInv
  <2> QED
    BY <2>2, <2>3
<1>5. ViewTypes'
  <2>1. current_record' \in Seq(View) /\ InBlock(current_record)'
    <3>1. CASE current_record' = <<>>
      <4>1. Len(current_record') = 0 /\ current_record' \in Seq(View)
        BY <3>1, EmptySeq
      <4> QED
        BY <4>1 DEF InBlock
    <3>2. CASE current_record' \in {fields, current_record}
      BY <1>2, <1>3, <3>2 DEF InBlock
    <3> QED
      BY <1>4, <3>1, <3>2
  <2> QED
    BY <1>3, <2>1 DEF GeoInv, ViewTypes, InBlock, ShowsBytes, Leaves
<1>6. PlaceInv'
  BY <1>1, PlaceOutside
<1> QED
  BY <1>3, <1>4, <1>5, <1>6 DEF GeoInv
\* A refill that brings bytes finds a record that has not been moved yet.
LEMMA RefillKeepsGeo ==
  ASSUME SInv, GeoInv, RefillBlock
  PROVE  GeoInv'
<1>1. /\ pc = "next" /\ status = "idle" /\ loop = "top" /\ loop' = "refilled"
      /\ total < N /\ refill
      /\ UNCHANGED <<config, consumed, fields, pending_cr, incomplete_last_read, status,
                     pc, total, need_to_compact_data, current_record, row_vars,
                     record_size, outcome>>
  BY DEF RefillBlock, InLoop, parser_vars, base_members, reader_vars, row_vars
<1>2. /\ BytesInv' /\ UNCHANGED <<file, N>> /\ N \in Nat
      /\ size' - start' >= size - start
      /\ \A i \in 0 .. N - 1 : data[i] \in Char => data'[i] \in Char
      /\ config.mapped_buffer => /\ UNCHANGED <<start, size>>
                                 /\ reading' = "ok" => start # size
      /\ ~config.mapped_buffer =>
           /\ start' = 0
           /\ reading' = "ok" => bits = {} /\ (size' = N \/ bits' # {})
  BY <1>1, RefillKeepsBytes DEF SInv, GeoInv, BytesInv
<1>3. RowTypes'
  BY <1>1 DEF GeoInv, RowTypes, row_vars
<1>4. ShowsBytes(fields)'
  <2> SUFFICES ASSUME NEW k \in 1 .. Len(fields),
                      NEW i \in fields[k].from .. behind(fields[k]) - 1
               PROVE  data'[i] \in Char
    BY <1>1 DEF ShowsBytes
  <2>1. /\ fields[k].from \in Nat /\ behind(fields[k]) \in Nat
        /\ behind(fields[k]) <= N /\ data[i] \in Char
    BY ViewAt DEF GeoInv, ViewTypes, InBlock, ShowsBytes
  <2>2. i \in 0 .. N - 1
    BY <1>2, <2>1
  <2> QED
    BY <1>2, <2>1, <2>2
<1>5. ViewTypes'
  BY <1>1, <1>2, <1>4 DEF GeoInv, ViewTypes, InBlock
<1>6. ASSUME fields # <<>>, reading' = "ok" PROVE AtRefilled'
  <2>1. AtTop
    BY <1>1, <1>6 DEF GeoInv, PlaceInv, BeforeRefill, InLoop
  <2>2. ~NoMoreToCome
    <3>1. N \in Nat /\ total \in Nat
      BY <1>2 DEF GeoInv, ViewTypes
    <3> QED
      BY <1>1, <1>2, <1>6, <3>1 DEF NoMoreToCome
  <2>3. /\ Spans(fields, start, size) /\ fields[1].from = start /\ CrIsShown
        /\ consumed = size - start /\ total = size - start
    BY <2>1, <2>2 DEF AtTop
  <2>4. /\ size \in Nat /\ start \in Nat /\ start + consumed = size
    BY <2>3 DEF GeoInv, BytesInv
  <2>5. Spans(fields, fields[1].from, fields[1].from + consumed)
    BY <2>3, <2>4
  <2>6. consumed <= size' - start' /\ (config.mapped_buffer => consumed = size' - start')
    BY <1>2, <2>3, <2>4
  <2> QED
    BY <1>1, <1>2, <1>6, <2>3, <2>5, <2>6 DEF AtRefilled, CrIsShown
<1>7. PlaceInv'
  BY <1>1, <1>6 DEF GeoInv, PlaceInv, BeforeRefill, InLoop
<1> QED
  BY <1>2, <1>3, <1>5, <1>7 DEF GeoInv

LEMMA ShiftKeepsGeo ==
  ASSUME SInv, GeoInv, ShiftViews
  PROVE  GeoInv'
<1>1. /\ pc = "next" /\ status = "idle" /\ loop = "refilled" /\ loop' = "parse"
      /\ reading = "ok" /\ need_to_compact_data' = FALSE
      /\ shift_views(start) /\ consume(consumed)
      /\ UNCHANGED <<config, consumed, pending_cr, incomplete_last_read, status,
                     pc, total, current_record, row_vars, record_size, outcome>>
  BY DEF ShiftViews, InLoop, reader_vars, row_vars
<1>2. /\ N \in Nat /\ size \in 0 .. N /\ start \in 0 .. size /\ consumed \in 0 .. N
      /\ \A i \in 0 .. size - 1 : data[i] \in Char
  BY DEF GeoInv, BytesInv, ViewTypes
<1>3. /\ BytesInv' /\ UNCHANGED <<file, N, size, data, reading, bits>>
      /\ start' = start + (IF consumed <= size - start THEN consumed ELSE size - start)
  BY <1>1, <1>2, ConsumeKeepsBytes DEF GeoInv
<1>4. RowTypes'
  BY <1>1 DEF GeoInv, RowTypes, row_vars
<1>5. CASE fields = <<>>
  <2>1. fields' = <<>> /\ Len(fields') = 0
    BY <1>1, <1>5 DEF shift_views
  <2>2. ~pending_cr /\ total = 0
    BY <1>1, <1>5 DEF GeoInv, PlaceInv
  <2>3. ViewTypes'
    <3>1. fields' \in Seq(View)
      BY <2>1, EmptySeq
    <3>2. InBlock(fields)' /\ ShowsBytes(fields)' /\ InBlock(current_record)'
      BY <1>1, <1>3, <2>1 DEF GeoInv, ViewTypes, InBlock, ShowsBytes
    <3> QED
      BY <1>1, <1>3, <3>1, <3>2 DEF GeoInv, ViewTypes
  <2>4. PlaceInv'
    BY <1>1, <2>1, <2>2 DEF PlaceInv
  <2> QED
    BY <1>3, <1>4, <2>3, <2>4 DEF GeoInv
<1>6. CASE fields # <<>>
  <2>1. /\ AtRefilled /\ incomplete_last_read /\ fields \in Views
        /\ fields[1].from \in Nat
    <3>1. AtRefilled /\ incomplete_last_read /\ fields \in Views
      BY <1>1, <1>6 DEF GeoInv, PlaceInv, ViewTypes, InLoop, Views
    <3> QED
      BY <3>1, ViewsAreViews
  <2>2. /\ Spans(fields, fields[1].from, fields[1].from + consumed)
        /\ consumed <= size - start /\ total = consumed /\ CrIsShown
    BY <2>1 DEF AtRefilled
  <2>3. start' = start + consumed /\ start' \in 0 .. size
    BY <1>2, <1>3, <2>2
  <2>4. /\ fields' \in Views /\ Len(fields') = Len(fields)
        /\ fields'[Len(fields)].len = fields[Len(fields)].len
        /\ Spans(fields', start, start')
    <3>1. /\ start \in Nat /\ fields[1].from + consumed \in Int
          /\ start + ((fields[1].from + consumed) - fields[1].from) = start'
      BY <1>2, <2>1, <2>3
    <3> QED
      BY <1>1, <2>1, <2>2, <3>1, ShiftMoves
  <2>5. fields'[1].from = start /\ fields' # <<>> /\ fields' \in Seq(View)
    BY <2>4 DEF Spans, Views
  <2>6. ASSUME NEW k \in 1 .. Len(fields')
        PROVE  /\ behind(fields'[k]) <= size /\ fields'[k].from \in Nat
               /\ behind(fields'[k]) \in Nat
    <3>1. behind(fields'[k]) <= start'
      BY <2>4 DEF Spans
    <3>2. fields'[k].from \in Nat /\ behind(fields'[k]) \in Nat
      BY <2>5, ViewAt
    <3> QED
      BY <1>2, <2>3, <3>1, <3>2
  <2>7. ViewTypes'
    <3>1. InBlock(fields)'
      <4>1. ASSUME NEW k \in 1 .. Len(fields') PROVE behind(fields'[k]) <= N
        BY <1>2, <2>6
      <4> QED
        BY <1>3, <4>1 DEF InBlock
    <3>2. ShowsBytes(fields)'
      <4>1. ASSUME NEW k \in 1 .. Len(fields'),
                   NEW i \in fields'[k].from .. behind(fields'[k]) - 1
            PROVE  data[i] \in Char
        <5>1. i \in 0 .. size - 1
          BY <1>2, <2>6
        <5> QED
          BY <1>2, <5>1
      <4> QED
        BY <1>3, <4>1 DEF ShowsBytes
    <3>3. InBlock(current_record)'
      BY <1>1, <1>3 DEF GeoInv, ViewTypes, InBlock
    <3> QED
      BY <1>1, <1>3, <2>5, <3>1, <3>2, <3>3 DEF GeoInv, ViewTypes
  <2>8. AtParse'
    <3>1. Spans(fields', fields'[1].from, start')
      BY <2>4, <2>5
    <3>2. total' = start' - fields'[1].from
      BY <1>1, <1>2, <2>2, <2>3, <2>5
    <3>3. CrIsShown'
      BY <1>1, <2>2, <2>4 DEF CrIsShown
    <3>4. config.mapped_buffer => start' = size
      BY <1>2, <2>1, <2>3 DEF AtRefilled
    <3>5. ~config.mapped_buffer => fields'[1].from = 0 /\ (size = N \/ bits # {})
      BY <2>1, <2>5 DEF AtRefilled
    <3> QED
      BY <1>1, <1>3, <3>1, <3>2, <3>3, <3>4, <3>5 DEF AtParse
  <2>9. PlaceInv'
    BY <1>1, <2>1, <2>5, <2>8 DEF PlaceInv, BeforeRefill, InLoop
  <2> QED
    BY <1>3, <1>4, <2>7, <2>9 DEF GeoInv
<1> QED
  BY <1>5, <1>6

\* parse() lengthens views that end where its chunk begins.
LEMMA ParseKeepsGeo ==
  ASSUME SInv, GeoInv, CallParse
  PROVE  GeoInv'
<1>1. /\ pc = "next" /\ status = "idle" /\ loop' = "parse"
      /\ parse(buffer_view, start) /\ total' = total + consumed'
      /\ UNCHANGED <<buffer_vars, need_to_compact_data, pc, current_record, row_vars,
                     record_size, outcome>>
      /\ loop = "parse" \/ (loop = "top" /\ ~need_to_compact_data)
  BY DEF CallParse, InLoop, NeedsRefill, reader_vars, row_vars
<1>2. /\ N \in Nat /\ size \in 0 .. N /\ start \in 0 .. size /\ total \in Nat
      /\ \A i \in 0 .. size - 1 : data[i] \in Char
      /\ fields \in Seq(View)
  BY DEF GeoInv, BytesInv, ViewTypes
<1>3. fields = <<>> => ~pending_cr /\ total = 0
  BY <1>1 DEF GeoInv, PlaceInv
<1>4. fields # <<>> => AtParse /\ incomplete_last_read
  BY <1>1 DEF GeoInv, PlaceInv, BeforeRefill, InLoop, AtTop
<1>5. ReadyFor(start)
  BY <1>3, <1>4 DEF GeoInv, ViewTypes, AtParse, ReadyFor
<1>6. /\ Len(buffer_view) = size - start /\ Len(buffer_view) \in Nat
      /\ buffer_view = <<>> <=> Len(buffer_view) = 0
  <2>1. /\ Len(buffer_view) = size - start /\ Len(buffer_view) \in Nat
        /\ buffer_view = <<>> => Len(buffer_view) = 0
    BY ViewLength DEF SInv
  <2>2. Len(buffer_view) = 0 => buffer_view = <<>>
    <3>1. buffer_view = [i \in 1 .. size - start |-> data[start + i - 1]]
      BY DEF buffer_view, Stream!view, Mapped!view, Stream!available, Mapped!available
    <3> QED
      BY <2>1, <3>1
  <2> QED
    BY <2>1, <2>2
<1> DEFINE first == FirstByte(start)
<1>7. /\ config' = config
      /\ fields' \in Seq(View) /\ pending_cr' \in BOOLEAN /\ incomplete_last_read' \in BOOLEAN
      /\ consumed' \in 0 .. size - start
      /\ status' \in {"need_more_data", "complete"}
      /\ \A k \in 1 .. Len(fields') : behind(fields'[k]) <= start + consumed'
      /\ status' = "need_more_data" =>
           /\ consumed' = size - start
           /\ fields' = <<>> => consumed' = 0 /\ fields = <<>> /\ ~pending_cr'
           /\ fields' # <<>> =>
                /\ incomplete_last_read'
                /\ Spans(fields', first, start + (size - start))
                /\ fields = <<>> => CrIsShown'
  <2>1. start \in Nat
    BY <1>2
  <2>2. parse(buffer_view, start)
    BY <1>1
  <2> HIDE DEF first
  <2>3. config' = config
    BY <2>2 DEF parse
  <2> USE DEF first
  <2> QED
    BY <1>5, <1>6, <2>1, <2>2, <2>3, ParseKeepsViews
<1>8. UNCHANGED <<N, size, start, data, file, reading, bits>>
  BY <1>1 DEF buffer_vars
<1>9. BytesInv' /\ RowTypes'
  BY <1>1, <1>8 DEF GeoInv, BytesInv, RowTypes, row_vars
<1>10. ASSUME NEW k \in 1 .. Len(fields')
       PROVE  /\ behind(fields'[k]) <= size /\ fields'[k].from \in Nat
              /\ behind(fields'[k]) \in Nat
  <2>1. behind(fields'[k]) <= start + consumed'
    BY <1>7
  <2>2. fields'[k].from \in Nat /\ behind(fields'[k]) \in Nat
    BY <1>7, ViewAt
  <2> QED
    BY <1>2, <1>7, <2>1, <2>2
<1>11. ViewTypes'
  <2>1. InBlock(fields)'
    <3>1. ASSUME NEW k \in 1 .. Len(fields') PROVE behind(fields'[k]) <= N
      BY <1>2, <1>10
    <3> QED
      BY <1>8, <3>1 DEF InBlock
  <2>2. ShowsBytes(fields)'
    <3>1. ASSUME NEW k \in 1 .. Len(fields'),
                 NEW i \in fields'[k].from .. behind(fields'[k]) - 1
          PROVE  data[i] \in Char
      <4>1. i \in 0 .. size - 1
        BY <1>2, <1>10
      <4> QED
        BY <1>2, <4>1
    <3> QED
      BY <1>8, <3>1 DEF ShowsBytes
  <2>3. InBlock(current_record)'
    BY <1>1, <1>8 DEF GeoInv, ViewTypes, InBlock
  <2>4. consumed' \in 0 .. N /\ consumed' \in Nat
    BY <1>2, <1>7
  <2>5. total' \in Nat
    <3>1. \A m, n \in Nat : m + n \in Nat
      OBVIOUS
    <3>2. total + consumed' \in Nat
      BY <1>2, <2>4, <3>1, Zenon
    <3> QED
      BY <1>1, <3>2, Zenon
  <2> QED
    BY <1>1, <1>7, <1>8, <2>1, <2>2, <2>3, <2>4, <2>5 DEF GeoInv, ViewTypes
<1>12. ASSUME status' = "need_more_data", fields' # <<>> PROVE AtTop'
  <2>1. /\ Spans(fields', first, size) /\ consumed' = size - start
        /\ fields = <<>> => CrIsShown'
    <3>1. start + (size - start) = size
      BY <1>2
    <3> HIDE DEF first
    <3> QED
      BY <1>7, <1>12, <3>1
  <2>2. fields'[1].from = first
    BY <2>1 DEF Spans
  <2>3. total' = size - first /\ first \in Int
    <3>1. CASE fields = <<>>
      BY <1>1, <1>2, <1>3, <2>1, <3>1 DEF FirstByte
    <3>2. CASE fields # <<>>
      <4>1. fields[1].from \in Nat
        <5>1. fields \in Views
          BY <1>2, <3>2 DEF Views
        <5> QED
          BY <5>1, ViewsAreViews
      <4> QED
        BY <1>1, <1>2, <1>4, <2>1, <3>2, <4>1 DEF FirstByte, AtParse
    <3> QED
      BY <3>1, <3>2
  <2>4. (first = start /\ CrIsShown') \/ NoMoreToCome'
    <3>1. CASE fields = <<>>
      BY <2>1, <3>1 DEF FirstByte
    <3>2. CASE fields # <<>>
      <4>1. CASE config.mapped_buffer
        BY <1>4, <1>7, <1>8, <3>2, <4>1 DEF AtParse, NoMoreToCome
      <4>2. CASE ~config.mapped_buffer
        <5>1. first = 0 /\ (size = N \/ bits # {})
          BY <1>4, <3>2, <4>2 DEF AtParse, FirstByte
        <5>2. total' >= N \/ bits # {}
          BY <1>2, <2>3, <5>1
        <5> QED
          BY <1>7, <1>8, <4>2, <5>2 DEF NoMoreToCome
      <4> QED
        BY <4>1, <4>2
    <3> QED
      BY <3>1, <3>2
  <2> HIDE DEF first
  <2>5. ~InLoop("top")'
    BY <1>12 DEF InLoop
  <2> QED
    BY <1>8, <2>1, <2>2, <2>3, <2>4, <2>5 DEF AtTop
<1>13. PlaceInv'
  <2>1. ASSUME status' = "need_more_data", fields' = <<>> PROVE total' = 0 /\ ~pending_cr'
    BY <1>1, <1>3, <1>7, <2>1
  <2>2. status' # "idle"
    BY <1>7
  <2> HIDE DEF first
  <2> QED
    BY <1>7, <1>12, <2>1, <2>2 DEF PlaceInv, BeforeRefill, InLoop
<1> QED
  BY <1>9, <1>11, <1>13 DEF GeoInv

LEMMA NeedMoreKeepsGeo ==
  ASSUME SInv, GeoInv, NeedMoreData
  PROVE  GeoInv'
<1>1. /\ status = "need_more_data" /\ status' = "idle" /\ loop' = "top"
      /\ need_to_compact_data' = TRUE /\ pc = "next"
      /\ UNCHANGED <<buffer_vars, config, fields, pending_cr, incomplete_last_read,
                     consumed, pc, total, current_record, row_vars, record_size, outcome>>
  BY AnswerInNext DEF SInv, NeedMoreData, base_members, reader_vars, row_vars
<1>2. UNCHANGED <<N, size, start, data, file, reading, bits>>
  BY <1>1 DEF buffer_vars
<1>3. BytesInv' /\ RowTypes'
  BY <1>1, <1>2 DEF GeoInv, BytesInv, RowTypes, row_vars
<1>4. ViewTypes'
  BY <1>1, <1>2 DEF GeoInv, ViewTypes, InBlock, ShowsBytes
<1>5. fields # <<>> => AtTop'
  BY <1>1, <1>2 DEF GeoInv, PlaceInv, BeforeRefill, AtTop, CrIsShown, NoMoreToCome
<1>6. PlaceInv'
  BY <1>1, <1>5 DEF GeoInv, PlaceInv, InLoop
<1> QED
  BY <1>3, <1>4, <1>6 DEF GeoInv

LEMMA NextStepKeepsGeo ==
  ASSUME SInv, GeoInv, NextStep
  PROVE  GeoInv'
<1>1. CASE ThrowTooLarge
  <2>1. /\ pc = "next" /\ status' = "idle" /\ Leaves /\ UNCHANGED buffer_vars
        /\ UNCHANGED <<config, fields, pending_cr, incomplete_last_read, consumed>>
        /\ End("RecordTooLargeError") /\ failed' = TRUE /\ parsed' = parsed
    BY <1>1 DEF ThrowTooLarge, InLoop, ThrowInLine, parser_vars, base_members
  <2> QED
    BY <2>1, LeaveKeepsGeo DEF Outcomes
<1>2. CASE RefilledAtEof \/ RefillFailed
  <2>1. /\ pc = "next" /\ status' = "idle" /\ Leaves /\ consume(consumed)
        /\ UNCHANGED <<config, fields, pending_cr, incomplete_last_read, consumed>>
        /\ ReturnFalse \/ SaveRecord(fields, Text(fields))
    BY <1>2 DEF RefilledAtEof, RefillFailed, InLoop, parser_vars, base_members
  <2>2. ReturnFalse => End("end") /\ failed' \in BOOLEAN /\ parsed' = parsed
    BY DEF ReturnFalse, GeoInv, RowTypes
  <2> QED
    BY <2>1, <2>2, LeaveKeepsGeo DEF Outcomes
<1>3. CASE Complete
  <2>1. /\ pc = "next" /\ status' = "idle" /\ Leaves /\ consume(consumed)
        /\ UNCHANGED <<config, fields, pending_cr, incomplete_last_read, consumed>>
        /\ SaveRecord(fields, Text(fields))
    BY <1>3, AnswerInNext DEF SInv, Complete, base_members
  <2> QED
    BY <2>1, LeaveKeepsGeo
<1> QED
  BY <1>1, <1>2, <1>3, RefillKeepsGeo, ShiftKeepsGeo, ParseKeepsGeo, NeedMoreKeepsGeo
  DEF NextStep

LEMMA NextKeepsGeo == SInv /\ GeoInv /\ [Next]_vars => GeoInv'
<1> SUFFICES ASSUME SInv, GeoInv, [Next]_vars PROVE GeoInv'
  OBVIOUS
<1>1. CASE UNCHANGED vars
  <2>1. /\ UNCHANGED <<config, fields, pending_cr, incomplete_last_read, consumed, status,
                       loop, need_to_compact_data, total, pc, record_size, outcome,
                       current_record, headers, parsed, accepted, failed>>
        /\ UNCHANGED <<N, size, start, data, file, reading, bits>>
    BY <1>1 DEF vars, parser_vars, base_members, loop_vars, reader_vars, row_vars,
       buffer_vars
  <2>2. BytesInv' /\ RowTypes'
    BY <2>1 DEF GeoInv, BytesInv, RowTypes
  <2>3. ViewTypes'
    BY <2>1 DEF GeoInv, ViewTypes, InBlock, ShowsBytes
  <2>4. PlaceInv'
    BY <2>1 DEF GeoInv, PlaceInv, BeforeRefill, InLoop, AtTop, AtRefilled, AtParse,
       CrIsShown, NoMoreToCome
  <2> QED
    BY <2>2, <2>3, <2>4 DEF GeoInv
<1> QED
  BY <1>1, OutsideKeepsGeo, NextStepKeepsGeo DEF Next

LEMMA GeoInvariant == Spec => [](SInv /\ GeoInv)
<1>1. Init => SInv /\ GeoInv
  BY InitSource, InitGeo
<1>2. SInv /\ GeoInv /\ [Next]_vars => SInv' /\ GeoInv'
  BY NextImplements, NextKeepsGeo
<1> QED
  BY <1>1, <1>2, PTL DEF Spec

\* Types, among them that no '\r' is ever taken off a view that shows nothing
\* (status is never "undefined") and that the texts handed out are bytes of the
\* file, never of a part of the block that was not filled.
THEOREM TypeCorrect == Spec => []TypeOK
<1>1. SInv /\ GeoInv => TypeOK
  BY DEF SInv, IInv, BaseInv, ControlInv, GeoInv, BytesInv, RowTypes, ViewTypes,
     Outcomes, TypeOK, ReaderTypeOK
<1> QED
  BY <1>1, GeoInvariant, PTL

\* No view leaves the block, and whenever parse() goes on with a record its views
\* are one delimiter apart and end where the unread bytes begin: the compaction
\* protocol keeps the contract of merge_incomplete_field, for every file, block
\* size, vector width and alphabet, read errors and refused records included.
THEOREM ViewsCorrect == Spec => []ViewsAdjoin
<1>1. SInv /\ GeoInv => ViewsAdjoin
  <2> SUFFICES ASSUME SInv, GeoInv PROVE ViewsAdjoin
    OBVIOUS
  <2>1. /\ \A k \in 1 .. Len(fields) : fields[k].from + fields[k].len <= N
        /\ \A k \in 1 .. Len(current_record) :
             current_record[k].from + current_record[k].len <= N
    BY DEF GeoInv, ViewTypes, InBlock, behind
  <2>2. ASSUME InLoop("parse"), fields # <<>>
        PROVE  /\ \A k \in 2 .. Len(fields) :
                    fields[k].from = fields[k - 1].from + fields[k - 1].len + 1
               /\ fields[Len(fields)].from + fields[Len(fields)].len = start
    BY <2>2 DEF GeoInv, PlaceInv, AtParse, Spans, behind
  <2> QED
    BY <2>1, <2>2 DEF ViewsAdjoin
<1> QED
  BY <1>1, GeoInvariant, PTL

-----------------------------------------------------------------------------
(***************************************************************************)
(* The records handed out.  Chunk after chunk the views held are those of   *)
(* the record the grammar's pass is in, if one looks at the file where the  *)
(* block was taken from it, b bytes behind its first: in the block they are *)
(* right only while nothing has been moved.                                 *)
(***************************************************************************)
\* What the views show when the block begins behind byte b of the file.
FileText(views, b) ==
  [k \in 1 .. Len(views) |-> SubSeq(file, b + views[k].from + 1, b + behind(views[k]))]

\* The bytes of the file from behind a up to b are bytes of one line.
OneLine(a, b) == \A i \in a + 1 .. b : ~is_newline(file[i])

\* Some line of the file has ended.
HasNewline == \E i \in 1 .. Len(file) : is_newline(file[i])

\* The reader stands behind byte t in the record that follows those completed,
\* and holds what has been read of it.
Reads(b, t) ==
  /\ t \in 0 .. Len(file)
  /\ parsed = At(t).records
  /\ Held(FileText(fields, b), At(t))
  /\ fields # <<>> => /\ b + fields[1].from \in 0 .. t - 1
                      /\ OneLine(b + fields[1].from, t)
                      /\ crlf => (pending_cr <=> file[t] = CR)

\* next() has given the reader up; at the end of the file with all its records.
Done == spent /\ (AtEnd => Len(parsed) = Len(AllRecords(config, file)))

\* The records so far are those of the file, the last line perhaps excepted.
RowsRead ==
  LET records == AllRecords(config, file)
  IN  /\ Len(parsed) <= Len(records)
      /\ \A k \in 1 .. Len(parsed) :
           \/ parsed[k] = records[k]
           \/ LastLineMoves /\ k = Len(records) /\ Len(parsed[k]) = Len(records[k])

\* The block is a stretch of the file; and the first chunk of a stream is as long
\* as the block, unless it is its last.
ViewFeed ==
  /\ FileInv
  /\ ~config.mapped_buffer /\ bits = {} => pos = 0 \/ size = N

\* The record goes on in a second chunk of a stream: the first was no shorter than
\* the block.
GoesOn == ~config.mapped_buffer /\ fields # <<>>

\* Behind a refill that met the end of the file: the record held is the last one,
\* and its views show it, unless it has been moved.
LastLine ==
  LET s == At(Len(file))
  IN  /\ parsed = s.records
      /\ IF fields = <<>> THEN Fresh(s)
         ELSE /\ ~Fresh(s) /\ Len(fields) = Len(Open(s))
              /\ Text(fields) = Open(s) \/ LastLineMoves

ViewRecords ==
  /\ RowsRead
  /\ outcome = "end" => Done
  /\ pc \in {"construct", "ready"} => Done \/ (Fresh(At(Taken)) /\ parsed = At(Taken).records)
  /\ ~config.mapped_buffer /\ Taken # 0 => spent \/ HasNewline
  /\ pc = "next" /\ status # "complete" /\ fields = <<>> => consumed = 0
  /\ status = "need_more_data" => Reads(base, Taken + consumed)
  /\ InLoop("top") => Reads(base, Taken + consumed) \/ (fields = <<>> /\ Done)
  /\ InLoop("refilled") /\ reading = "ok" =>
       /\ Reads(Taken - fields[1].from, Taken + consumed)
       /\ GoesOn => Taken # 0 /\ Taken + consumed >= N
  /\ InLoop("refilled") /\ reading = "eof" => LastLine \/ (fields = <<>> /\ Done)
  /\ InLoop("refilled") /\ reading \notin {"ok", "eof"} => Done \/ ~AtEnd
  /\ InLoop("parse") => Reads(base, Taken) /\ (GoesOn => Taken >= N)
  /\ status = "complete" =>
       /\ consumed <= size - start /\ Fresh(At(Taken + consumed))
       /\ At(Taken + consumed).records = Append(parsed, Text(fields))

\* Quoting is refused by the constructor.
NoReader == pc \in {"construct", "closed"} /\ parsed = <<>> /\ outcome # "end"

RecordsInv ==
  failed \/ CrSensitive \/ IF config.has_quoting THEN NoReader ELSE ViewRecords

\* The next stretch of a sequence lengthens a stretch.
LEMMA StretchesMeet ==
  ASSUME file \in String, NEW a \in Nat, NEW m \in Nat, NEW b \in Nat,
         a <= m, m <= b, b <= Len(file)
  PROVE  SubSeq(file, a + 1, m) \o SubSeq(file, m + 1, b) = SubSeq(file, a + 1, b)
<1> DEFINE left == SubSeq(file, a + 1, m)
           right == SubSeq(file, m + 1, b)
           whole == SubSeq(file, a + 1, b)
<1>1. file \in Seq(Char) /\ Len(file) \in Nat /\ m <= Len(file) /\ a <= b
  BY LenProperties DEF String
<1>2. /\ left \in Seq(Char) /\ Len(left) = m - a
      /\ \A i \in 1 .. m - a : left[i] = file[a + i]
  BY <1>1, StretchIsSeq, StretchLen, StretchAt
<1>3. /\ right \in Seq(Char) /\ Len(right) = b - m
      /\ \A i \in 1 .. b - m : right[i] = file[m + i]
  BY <1>1, StretchIsSeq, StretchLen, StretchAt
<1>4. /\ whole \in Seq(Char) /\ Len(whole) = b - a
      /\ \A i \in 1 .. b - a : whole[i] = file[a + i]
  BY <1>1, StretchIsSeq, StretchLen, StretchAt
<1> HIDE DEF left, right, whole
<1>5. /\ left \o right \in Seq(Char) /\ Len(left \o right) = Len(left) + Len(right)
      /\ \A i \in 1 .. Len(left) + Len(right) :
           (left \o right)[i] = IF i <= Len(left) THEN left[i] ELSE right[i - Len(left)]
  BY <1>2, <1>3, ConcatProperties
<1>6. Len(left \o right) = Len(whole)
  BY <1>2, <1>3, <1>4, <1>5
<1>7. ASSUME NEW i \in 1 .. Len(whole) PROVE (left \o right)[i] = whole[i]
  <2>1. i \in 1 .. b - a /\ whole[i] = file[a + i]
    BY <1>4, <1>7
  <2>2. CASE i <= m - a
    BY <1>2, <1>5, <1>6, <1>7, <2>1, <2>2
  <2>3. CASE i > m - a
    <3>1. i - (m - a) \in 1 .. b - m /\ m + (i - (m - a)) = a + i
      BY <2>1, <2>3
    <3>2. right[i - (m - a)] = file[a + i]
      BY <1>3, <3>1
    <3>3. (left \o right)[i] = right[i - (m - a)]
      BY <1>2, <1>5, <1>6, <1>7, <2>3
    <3> QED
      BY <2>1, <3>2, <3>3
  <2>4. i <= m - a \/ i > m - a
    BY <2>1
  <2> QED
    BY <2>2, <2>3, <2>4
<1>8. left \o right = whole
  BY <1>4, <1>5, <1>6, <1>7, SeqEqual
<1> QED
  BY <1>8 DEF left, right, whole

\* Views on the file, wherever they lie in the block, show fields.
OnFile(views, b) ==
  \A k \in 1 .. Len(views) :
    b + views[k].from \in Nat /\ b + behind(views[k]) \in Nat /\ b + behind(views[k]) <= Len(file)

LEMMA SpansOnFile ==
  ASSUME file \in String, NEW views \in Views, NEW a \in Int, NEW e \in Int,
         Spans(views, a, e), NEW b \in Int, b + a \in Nat, b + e <= Len(file)
  PROVE  OnFile(views, b)
<1> SUFFICES ASSUME NEW k \in 1 .. Len(views)
             PROVE  /\ b + views[k].from \in Nat /\ b + behind(views[k]) \in Nat
                    /\ b + behind(views[k]) <= Len(file)
  BY DEF OnFile
<1>1. /\ views[k].from \in Nat /\ behind(views[k]) \in Nat /\ a <= views[k].from
      /\ views[k].from <= behind(views[k]) /\ behind(views[k]) <= e
  BY SpansAt
<1>2. Len(file) \in Nat
  BY LenProperties DEF String
<1> QED
  BY <1>1, <1>2

LEMMA FileTextFields ==
  ASSUME file \in String, NEW views \in Views, NEW b \in Int, OnFile(views, b)
  PROVE  /\ FileText(views, b) \in Fields /\ Len(FileText(views, b)) = Len(views)
         /\ \A k \in 1 .. Len(views) : FileText(views, b)[k] =
              SubSeq(file, b + views[k].from + 1, b + behind(views[k]))
<1> DEFINE shown == FileText(views, b)
<1>1. Len(views) \in Nat \ {0} /\ file \in Seq(Char)
  BY ViewsAreViews DEF String
<1>2. ASSUME NEW k \in 1 .. Len(views)
      PROVE  SubSeq(file, b + views[k].from + 1, b + behind(views[k])) \in String
  <2> DEFINE f == b + views[k].from
             e == b + behind(views[k])
  <2>1. f \in Nat /\ e \in Nat /\ e <= Len(file)
    BY DEF OnFile
  <2> HIDE DEF f, e
  <2>2. SubSeq(file, f + 1, e) \in String
    BY <1>1, <2>1, StretchIsSeq DEF String
  <2> QED
    BY <2>2 DEF f, e
<1>3. shown = [k \in 1 .. Len(views) |->
                 SubSeq(file, b + views[k].from + 1, b + behind(views[k]))]
  BY DEF FileText
<1> HIDE DEF shown
<1>4. shown \in [1 .. Len(views) -> String]
  BY <1>2, <1>3
<1>5. shown \in Seq(String) /\ Len(shown) = Len(views)
  BY <1>1, <1>4, IsASeq, LenProperties
<1>6. shown \in Fields
  BY <1>1, <1>5, EmptySeq DEF Fields
<1> QED
  BY <1>3, <1>5, <1>6 DEF shown

\* No views show nothing.
LEMMA NoFileText ==
  ASSUME NEW views \in Seq(View), NEW b
  PROVE  FileText(views, b) = <<>> <=> views = <<>>
<1>1. Len(views) \in Nat /\ (views = <<>> <=> Len(views) = 0)
  BY EmptySeq, LenProperties
<1> DEFINE shown == FileText(views, b)
<1>2. DOMAIN shown = 1 .. Len(views)
  BY DEF FileText
<1>3. CASE views = <<>>
  <2>1. shown = [k \in 1 .. 0 |-> SubSeq(file, b + views[k].from + 1, b + behind(views[k]))]
    BY <1>1, <1>3 DEF FileText
  <2>2. 1 .. 0 = {}
    OBVIOUS
  <2>3. <<>> = [k \in 1 .. 0 |-> SubSeq(file, b + views[k].from + 1, b + behind(views[k]))]
    BY <2>2
  <2> QED
    BY <1>3, <2>1, <2>3
<1>4. CASE views # <<>>
  <2>1. 1 \in DOMAIN shown
    BY <1>1, <1>2, <1>4
  <2>2. 1 \notin DOMAIN << >>
    OBVIOUS
  <2> HIDE DEF shown
  <2>3. shown # <<>>
    BY <2>1, <2>2
  <2> QED
    BY <1>4, <2>3 DEF shown
<1> QED
  BY <1>3, <1>4

\* Moved with the block the views show what they did.
LEMMA SameFileText ==
  ASSUME NEW views \in Seq(View), NEW others \in Seq(View), Len(views) = Len(others),
         NEW b, NEW c,
         \A k \in 1 .. Len(views) :
           b + views[k].from = c + others[k].from /\ b + behind(views[k]) = c + behind(others[k])
  PROVE  FileText(views, b) = FileText(others, c)
<1>1. ASSUME NEW k \in 1 .. Len(views)
      PROVE  SubSeq(file, b + views[k].from + 1, b + behind(views[k]))
               = SubSeq(file, c + others[k].from + 1, c + behind(others[k]))
  BY <1>1
<1> QED
  BY <1>1 DEF FileText

\* D holds the places of the delimiters among the n bytes behind byte t.
DelimitersAt(D, t, n) == \A i \in 0 .. n - 1 : i \in D <=> file[t + i + 1] = delimiter

\* The views cut from these bytes, which the block shows from index begin on.
CutShows(D, n, begin, b, t) ==
  LET views == Moved(Cut(D, n), begin)
  IN  /\ views \in Views /\ Spans(views, begin, begin + n)
      /\ OnFile(views, b)
      /\ FileText(views, b) = Split(SubSeq(file, t + 1, t + n))

\* The fields cut from a chunk show its pieces.
LEMMA CutText ==
  ASSUME file \in String, NEW t \in Nat, NEW n \in Nat, t + n <= Len(file),
         NEW D, DelimitersAt(D, t, n), NEW begin \in Nat, NEW b \in Int, b + begin = t
  PROVE  CutShows(D, n, begin, b, t)
<1> DEFINE cut == Cut(D, n)
           views == Moved(cut, begin)
           e == t + n
           buffer == SubSeq(file, t + 1, e)
<1>1. /\ buffer \in String /\ Len(buffer) = n
      /\ \A i \in 1 .. n : buffer[i] = file[t + i]
      /\ \A q \in 0 .. n : SubSeq(buffer, 1, q) = SubSeq(file, t + 1, t + q)
  BY StretchBytes
<1>2. e \in Nat /\ t <= e /\ e <= Len(file) /\ e - t = n /\ file \in Seq(Char)
  BY DEF String
<1>3. cut \in Views /\ Spans(cut, 0, n)
  BY CutSpans
<1>4. TextIn(buffer, cut) = Split(SubSeq(buffer, 1, n))
  <2>1. ASSUME NEW i \in 0 .. n - 1 PROVE i \in D <=> buffer[i + 1] = delimiter
    <3>1. i + 1 \in 1 .. n /\ t + (i + 1) = t + i + 1
      OBVIOUS
    <3>2. buffer[i + 1] = file[t + i + 1]
      BY <1>1, <3>1
    <3> QED
      BY <3>2 DEF DelimitersAt
  <2>2. n <= Len(buffer) /\ n \in Nat /\ buffer \in String
    BY <1>1
  <2>3. \A i \in 0 .. n - 1 : i \in D <=> buffer[i + 1] = delimiter
    BY <2>1
  <2> HIDE DEF buffer
  <2> QED
    BY <2>2, <2>3, TextInCut
<1>5. SubSeq(buffer, 1, n) = buffer
  BY <1>1
<1> HIDE DEF cut, e
<1>6. /\ views \in Views /\ Len(views) = Len(cut)
      /\ Spans(views, begin + 0, begin + n)
  BY <1>3, MovedSpans
<1>7. begin + 0 = begin /\ b + begin \in Nat /\ b + (begin + n) <= Len(file)
  BY <1>2 DEF e
<1>8. OnFile(views, b)
  <2> HIDE DEF views
  <2> QED
    BY <1>6, <1>7, SpansOnFile
<1>9. ASSUME NEW k \in 1 .. Len(cut)
      PROVE  /\ b + views[k].from = t + cut[k].from
             /\ b + behind(views[k]) = t + (cut[k].from + cut[k].len)
             /\ SubSeq(file, b + views[k].from + 1, b + behind(views[k]))
                  = SubSeq(buffer, cut[k].from + 1, cut[k].from + cut[k].len)
  <2>1. /\ cut[k] \in View /\ cut[k].from \in Nat /\ cut[k].len \in Nat
        /\ behind(cut[k]) <= n
    BY <1>3, ViewsAreViews DEF Spans
  <2> DEFINE f == cut[k].from
             g == cut[k].from + cut[k].len
  <2>2. f \in Nat /\ g \in Nat /\ f <= g /\ g <= n
    BY <2>1 DEF behind
  <2>3. views[k] = [cut[k] EXCEPT !.from = begin + @]
    BY DEF Moved
  <2>4. views[k].from = begin + f /\ views[k].len = cut[k].len
    BY <2>1, <2>3 DEF View
  <2>5. b + views[k].from = t + f /\ b + behind(views[k]) = t + g
    <3> DEFINE l == cut[k].len
               vf == views[k].from
               vl == views[k].len
    <3>1. g = f + l /\ l \in Nat /\ f \in Nat /\ vf = begin + f /\ vl = l
          /\ behind(views[k]) = vf + vl
      BY <2>1, <2>4 DEF behind
    <3> HIDE DEF f, g, l, vf, vl
    <3>2. b + vf = t + f /\ b + (vf + vl) = t + g
      BY <3>1
    <3> QED
      BY <3>1, <3>2 DEF vf
  <2> HIDE DEF f, g
  <2>6. SubSeq(SubSeq(file, t + 1, e), f + 1, g) = SubSeq(file, t + f + 1, t + g)
    BY <1>2, <2>2, StretchOfStretch
  <2> QED
    BY <2>5, <2>6 DEF f, g
<1>10. FileText(views, b) = TextIn(buffer, cut)
  <2> HIDE DEF views, buffer
  <2> QED
    BY <1>6, <1>9 DEF FileText, TextIn
<1> QED
  BY <1>4, <1>5, <1>6, <1>7, <1>8, <1>10 DEF cut, e, CutShows

\* View by view.
LEMMA JoinedAt ==
  ASSUME NEW first \in Views, NEW second \in Views
  PROVE  LET joined == Joined(first, second)
         IN  /\ joined \in Views /\ Len(joined) = Len(first) + Len(second) - 1
             /\ \A k \in 1 .. Len(joined) :
                  /\ k < Len(first) => joined[k] = first[k]
                  /\ k = Len(first) => /\ joined[k].from = first[k].from
                                       /\ joined[k].len = first[k].len + second[1].len
                  /\ k > Len(first) => joined[k] = second[k - Len(first) + 1]
<1> DEFINE longer == Lengthened(first, second[1].len)
           rest == Tail(second)
           joined == Joined(first, second)
           n == Len(first)
<1>1. /\ second \in Seq(View) /\ second # <<>> /\ Len(second) \in Nat \ {0}
      /\ second[1].len \in Nat
  BY ViewsAreViews DEF Views
<1>2. /\ longer \in Views /\ Len(longer) = n
      /\ \A k \in 1 .. n : /\ longer[k].from = first[k].from
                           /\ k < n => longer[k] = first[k]
      /\ longer[n].len = first[n].len + second[1].len
  BY <1>1, LastLengthened
<1>3. /\ rest \in Seq(View) /\ Len(rest) = Len(second) - 1
      /\ \A k \in 1 .. Len(rest) : rest[k] = second[k + 1]
  BY <1>1, HeadTailProperties
<1>4. joined = longer \o rest
  BY DEF Joined
<1>5. n \in Nat \ {0}
  BY ViewsAreViews
<1> HIDE DEF longer, rest, joined, n
<1>6. longer \in Seq(View)
  BY <1>2 DEF Views
<1>7. /\ joined \in Seq(View) /\ Len(joined) = n + Len(rest)
      /\ \A k \in 1 .. n + Len(rest) :
           joined[k] = IF k <= n THEN longer[k] ELSE rest[k - n]
  BY <1>2, <1>3, <1>4, <1>6, ConcatProperties
<1>8. joined \in Views /\ Len(joined) = n + Len(second) - 1
  BY <1>1, <1>3, <1>5, <1>7, EmptySeq DEF Views
<1>9. ASSUME NEW k \in 1 .. Len(joined)
      PROVE  /\ k < n => joined[k] = first[k]
             /\ k = n => /\ joined[k].from = first[k].from
                         /\ joined[k].len = first[k].len + second[1].len
             /\ k > n => joined[k] = second[k - n + 1]
  <2>1. CASE k <= n
    <3>1. k \in 1 .. n /\ joined[k] = longer[k]
      BY <1>5, <1>7, <2>1
    <3> QED
      BY <1>2, <1>5, <2>1, <3>1
  <2>2. CASE k > n
    <3>1. k - n \in 1 .. Len(rest) /\ joined[k] = rest[k - n]
      BY <1>1, <1>3, <1>5, <1>7, <1>8, <2>2
    <3> QED
      BY <1>3, <1>5, <2>2, <3>1
  <2> QED
    BY <1>5, <2>1, <2>2
<1> QED
  BY <1>8, <1>9 DEF joined, n

\* Views lengthened by those of the next chunk show the text lengthened by theirs.
LEMMA JoinedText ==
  ASSUME file \in String, NEW first \in Views, NEW second \in Views,
         NEW a \in Int, NEW m \in Int, NEW e \in Int,
         Spans(first, a, m), Spans(second, m, e),
         NEW b \in Int, b + a \in Nat, b + e <= Len(file)
  PROVE  LET joined == Joined(first, second)
         IN  /\ joined \in Views /\ OnFile(joined, b)
             /\ FileText(joined, b) = Merged(FileText(first, b), FileText(second, b))
<1> DEFINE joined == Joined(first, second)
           fs == FileText(first, b)
           pieces == FileText(second, b)
           merged == Merged(fs, pieces)
           n == Len(first)
<1>0. a <= m /\ m <= e /\ b + m \in Nat /\ b + m <= Len(file)
  <2>1. a <= m /\ m <= e
    BY SpansOrdered
  <2> QED
    BY <2>1, LenProperties DEF String
<1>1. /\ joined \in Views /\ Len(joined) = n + Len(second) - 1
      /\ \A k \in 1 .. Len(joined) :
           /\ k < n => joined[k] = first[k]
           /\ k = n => /\ joined[k].from = first[k].from
                       /\ joined[k].len = first[k].len + second[1].len
           /\ k > n => joined[k] = second[k - n + 1]
  BY JoinedAt
<1>2. Spans(joined, a, e)
  BY JoinedSpans
<1>3. n \in Nat \ {0} /\ Len(second) \in Nat \ {0}
  BY ViewsAreViews
<1>4. OnFile(first, b) /\ OnFile(second, b)
  BY <1>0, SpansOnFile
<1>5. OnFile(joined, b)
  <2> HIDE DEF joined
  <2> QED
    BY <1>1, <1>2, SpansOnFile
<1>6. /\ fs \in Fields /\ Len(fs) = n
      /\ \A k \in 1 .. n : fs[k] = SubSeq(file, b + first[k].from + 1, b + behind(first[k]))
  BY <1>4, FileTextFields
<1>7. /\ pieces \in Fields /\ Len(pieces) = Len(second)
      /\ \A k \in 1 .. Len(second) :
           pieces[k] = SubSeq(file, b + second[k].from + 1, b + behind(second[k]))
  BY <1>4, FileTextFields
<1>8. /\ FileText(joined, b) \in Fields /\ Len(FileText(joined, b)) = Len(joined)
      /\ \A k \in 1 .. Len(joined) : FileText(joined, b)[k] =
           SubSeq(file, b + joined[k].from + 1, b + behind(joined[k]))
  <2> HIDE DEF joined
  <2> QED
    BY <1>1, <1>5, FileTextFields
<1> HIDE DEF joined, fs, pieces, n
<1>9. /\ merged \in Fields /\ Len(merged) = Len(fs) + Len(pieces) - 1
      /\ \A k \in 1 .. Len(merged) : merged[k] =
           IF k < Len(fs) THEN fs[k]
           ELSE IF k = Len(fs) THEN fs[k] \o pieces[1] ELSE pieces[k - Len(fs) + 1]
  BY <1>6, <1>7, MergedAt
<1> HIDE DEF merged
<1>10. Len(merged) = Len(joined)
  BY <1>1, <1>6, <1>7, <1>9
<1>11. ASSUME NEW k \in 1 .. Len(joined) PROVE FileText(joined, b)[k] = merged[k]
  <2>0. FileText(joined, b)[k] = SubSeq(file, b + joined[k].from + 1, b + behind(joined[k]))
    BY <1>8
  <2>1. CASE k < n
    <3>1. k \in 1 .. n
      BY <1>3, <2>1
    <3> QED
      BY <1>1, <1>6, <1>9, <1>10, <2>0, <2>1, <3>1
  <2>2. CASE k > n
    <3>1. k - n + 1 \in 1 .. Len(second) /\ ~(k < n) /\ k # n
      BY <1>1, <1>3, <2>2
    <3> QED
      BY <1>1, <1>6, <1>7, <1>9, <1>10, <2>0, <2>2, <3>1
  <2>3. CASE k = n
    <3>1. /\ n \in 1 .. n /\ 1 \in 1 .. Len(second)
      BY <1>3
    <3>2. /\ first[n].from \in Nat /\ first[n].len \in Nat /\ second[1].from \in Nat
          /\ second[1].len \in Nat /\ behind(first[n]) = second[1].from
      BY <3>1, ViewsAreViews DEF Spans, n
    <3> DEFINE x == b + first[n].from
               y == b + behind(first[n])
               z == b + behind(second[1])
               f == first[n].from
               l == first[n].len
               l2 == second[1].len
    <3>3. /\ x \in Nat /\ y \in Nat /\ z \in Nat /\ z <= Len(file)
      BY <1>4, <3>1 DEF OnFile, n
    <3>4. joined[k].from = f /\ joined[k].len = l + l2
      BY <1>1, <2>3
    <3>5. /\ f \in Nat /\ l \in Nat /\ l2 \in Nat /\ second[1].from = f + l
          /\ behind(first[n]) = f + l /\ behind(second[1]) = (f + l) + l2
          /\ behind(joined[k]) = f + (l + l2)
      BY <3>2, <3>4 DEF behind
    <3>6. x = b + f /\ y = b + (f + l) /\ z = b + ((f + l) + l2)
      BY <3>5
    <3> HIDE DEF x, y, z, f, l, l2
    <3>7. x <= y /\ y <= z /\ b + second[1].from = y /\ b + joined[k].from = x
          /\ b + behind(joined[k]) = z
      <4>1. x <= y /\ y <= z /\ z = b + (f + (l + l2))
        BY ONLY b \in Int, <3>5, <3>6
      <4> QED
        BY ONLY <3>4, <3>5, <3>6, <4>1
    <3>8. SubSeq(file, x + 1, y) \o SubSeq(file, y + 1, z) = SubSeq(file, x + 1, z)
      BY <3>3, <3>7, StretchesMeet
    <3>9. fs[n] = SubSeq(file, x + 1, y) /\ pieces[1] = SubSeq(file, y + 1, z)
      BY <1>6, <1>7, <3>1, <3>7 DEF x, y, z
    <3>10. merged[k] = fs[n] \o pieces[1]
      <4>1. k \in 1 .. Len(merged) /\ ~(k < Len(fs)) /\ k = Len(fs)
        BY <1>3, <1>6, <1>10, <2>3
      <4>2. merged[k] = fs[k] \o pieces[1]
        BY <1>9, <4>1
      <4> QED
        BY <2>3, <4>2
    <3> QED
      BY <2>0, <3>7, <3>8, <3>9, <3>10
  <2> QED
    BY <1>3, <2>1, <2>2, <2>3
<1>12. FileText(joined, b) = merged
  <2>1. Len(FileText(joined, b)) = Len(merged)
    BY <1>8, <1>10
  <2>2. FileText(joined, b) \in Seq(String) /\ merged \in Seq(String)
    BY <1>8, <1>9 DEF Fields
  <2> QED
    BY <1>8, <1>10, <1>11, <2>1, <2>2, SeqEqual
<1> QED
  BY <1>1, <1>5, <1>12 DEF joined, merged, fs, pieces

-----------------------------------------------------------------------------
(***************************************************************************)
(* A call of parse() on the n bytes behind byte t of the file, of which the  *)
(* block shows those from index begin on.                                   *)
(***************************************************************************)
\* The views held show what has been read of the record the pass is in behind byte
\* t of the file, where the block begins behind byte b.
ShowsRecord(b, t) ==
  /\ Held(FileText(fields, b), At(t))
  /\ fields # <<>> => b + fields[1].from \in Nat

\* insert_fields() on a chunk without a newline.
LEMMA InsertsViews ==
  ASSUME ~config.has_quoting, file \in String, NEW t \in Nat, NEW n \in Nat,
         t + n <= Len(file), OneLine(t, t + n),
         NEW D, DelimitersAt(D, t, n), NEW begin \in Nat, NEW b \in Int, b + begin = t,
         ReadyFor(begin), ShowsRecord(b, t), insert_fields(begin, Cut(D, n))
  PROVE  /\ fields' \in Views /\ b + fields'[1].from \in Nat
         /\ FileText(fields', b) = Open(At(t + n))
         /\ At(t + n).records = At(t).records
<1> DEFINE views == Moved(Cut(D, n), begin)
           pieces == Split(SubSeq(file, t + 1, t + n))
<1>1. /\ views \in Views /\ Spans(views, begin, begin + n)
      /\ OnFile(views, b) /\ FileText(views, b) = pieces
  <2>1. CutShows(D, n, begin, b, t)
    BY CutText
  <2> QED
    BY <2>1 DEF CutShows
<1>2. fields' = IF incomplete_last_read /\ fields # <<>>
                THEN Joined(fields, views) ELSE fields \o views
  BY DEF insert_fields, Moved, Joined, Lengthened
<1>3. /\ Open(At(t + n)) = Merged(FileText(fields, b), pieces)
      /\ At(t + n).records = At(t).records
  <2>1. \A i \in t + 1 .. t + n : file[i] # newline(config.line_ending)
    BY DEF OneLine, is_newline
  <2> QED
    BY <2>1, StretchSplits DEF ShowsRecord
<1> HIDE DEF views, pieces
<1>4. fields' \in Views /\ Spans(fields', FirstByte(begin), begin + n)
  BY InsertSpans
<1>5. b + fields'[1].from \in Nat
  <2>1. fields'[1].from = FirstByte(begin)
    BY <1>4 DEF Spans
  <2> QED
    BY <2>1 DEF FirstByte, ShowsRecord
<1>6. FileText(fields', b) = Merged(FileText(fields, b), pieces)
  <2>1. CASE fields = <<>>
    <3>1. fields' = views
      BY <1>1, <1>2, <2>1, ConcatEmptySeq DEF Views
    <3>2. FileText(fields, b) = <<>>
      BY <2>1, NoFileText DEF ReadyFor
    <3> QED
      BY <1>1, <3>1, <3>2 DEF Merged
  <2>2. CASE fields # <<>>
    <3>1. /\ fields \in Views /\ Spans(fields, fields[1].from, begin)
          /\ fields' = Joined(fields, views)
      BY <1>2, <2>2 DEF ReadyFor, Views
    <3>2. fields[1].from \in Int
      BY <3>1, ViewsAreViews
    <3>3. b + fields[1].from \in Nat
      BY <2>2 DEF ShowsRecord
    <3> DEFINE a == fields[1].from
               e == begin + n
    <3>4. a \in Int /\ b + a \in Nat /\ e \in Int /\ b + e <= Len(file)
          /\ Spans(fields, a, begin) /\ Spans(views, begin, e)
      BY <1>1, <3>1, <3>2, <3>3
    <3> HIDE DEF a, e
    <3>5. FileText(Joined(fields, views), b) = Merged(FileText(fields, b), FileText(views, b))
      BY <1>1, <3>1, <3>4, JoinedText
    <3> QED
      BY <1>1, <3>1, <3>5
  <2> QED
    BY <2>1, <2>2
<1> QED
  BY <1>3, <1>4, <1>5, <1>6

\* A newline behind byte j of the file: the record it completes is what has been
\* read of it, without the '\r' that byte j may be.
LEMMA LineCompletes ==
  ASSUME ~config.has_quoting, file \in String, NEW t \in Nat, NEW p \in Nat,
         t + p < Len(file), file[t + p + 1] = newline(config.line_ending),
         OneLine(t, t + p),
         NEW fs, Held(fs, At(t))
  PROVE  LET j == t + p
         IN  /\ Fresh(At(j + 1))
             /\ At(j + 1).records = Append(At(t).records, Row(At(j)))
             /\ Held(Row(At(j)), IF crlf /\ j > 0 /\ file[j] = CR THEN At(j - 1) ELSE At(j))
<1> DEFINE j == t + p
<1>1. j \in Nat /\ j < Len(file) /\ t + p <= Len(file)
  BY LenProperties DEF String
<1>2. At(j).records = At(t).records
  <2>1. \A i \in t + 1 .. t + p : file[i] # newline(config.line_ending)
    BY DEF OneLine, is_newline
  <2> QED
    BY <1>1, <2>1, StretchSplits
<1>3. file[j + 1] = newline(config.line_ending)
  OBVIOUS
<1> HIDE DEF j
<1>4. ReadsByte(At(j), file[j + 1], At(j + 1))
  BY <1>1, PlainStep
<1>5. Fresh(At(j + 1)) /\ At(j + 1).records = Append(At(j).records, Row(At(j)))
  BY <1>3, <1>4 DEF ReadsByte
<1>6. Held(Row(At(j)), IF crlf /\ j > 0 /\ file[j] = CR THEN At(j - 1) ELSE At(j))
  BY <1>1, RowAt
<1> QED
  BY <1>2, <1>5, <1>6 DEF j

\* In CRLF every '\r' behind the first chunk has its '\n', and no chunk ends in the
\* '\r' of a blank line.
LEMMA CrHasLf ==
  ASSUME ~CrSensitive, ~config.mapped_buffer, crlf, Len(file) \in Nat,
         NEW i \in Nat, i <= Len(file), N \in Nat, i >= N, file[i] = CR
  PROVE  /\ i < Len(file) /\ file[i + 1] = LF /\ newline(config.line_ending) = LF
         /\ i # 1 /\ file[i - 1] # LF
<1>1. i \in N .. Len(file)
  OBVIOUS
<1>2. /\ ~(i = Len(file) \/ file[i + 1] # LF)
      /\ ~(i = 1 \/ file[i - 1] = LF)
  BY <1>1 DEF CrSensitive
<1>3. newline(config.line_ending) = LF
  BY NewlineByte
<1> QED
  BY <1>2, <1>3

\* The views without the last byte.
Shortened(views) == [views EXCEPT ![Len(views)].len = @ - 1]

\* Without its last byte the last view shows the field without it.
LEMMA ShortenedText ==
  ASSUME ~config.has_quoting, file \in String, crlf, NEW t \in Nat, t < Len(file),
         file[t + 1] = CR, NEW views \in Views, NEW a \in Int, NEW begin \in Int,
         Spans(views, a, begin), NEW b \in Int, b + a \in Nat, b + begin = t + 1,
         FileText(views, b) = Open(At(t + 1)), views[Len(views)].len # 0
  PROVE  FileText(Shortened(views), b) = Open(At(t))
<1> DEFINE n == Len(views)
           last == [views[n] EXCEPT !.len = @ - 1]
           shorter == [views EXCEPT ![n].len = @ - 1]
           before == At(t).fields
           text == At(t).text
           more == Append(text, CR)
           f == views[n].from
           l == views[n].len
<1>1. /\ n \in Nat \ {0} /\ n \in 1 .. n /\ views \in Seq(View) /\ f \in Nat /\ l \in Nat
      /\ views[n] \in View /\ f + l = begin
  <2>1. n \in Nat \ {0} /\ views \in Seq(View) /\ f \in Nat /\ l \in Nat
    BY ViewsAreViews
  <2>2. n \in 1 .. n
    BY <2>1
  <2>3. views[n] \in View
    BY <2>1, <2>2, ElementOfSeq
  <2>4. f + l = begin
    BY DEF Spans, behind
  <2> QED
    BY <2>1, <2>2, <2>3, <2>4
<1>2. last \in View /\ last.from = f /\ last.len = l - 1
  <2>1. l - 1 \in Nat
    BY <1>1
  <2> QED
    BY <1>1, <2>1 DEF View
<1>3. shorter = [views EXCEPT ![n] = last]
  OBVIOUS
<1> HIDE DEF shorter, last, n
<1>4. /\ shorter \in Seq(View) /\ Len(shorter) = n
      /\ \A k \in 1 .. n : shorter[k] = IF k = n THEN last ELSE views[k]
  BY <1>1, <1>2, <1>3, ExceptSeq DEF n
<1>5. OnFile(views, b)
  <2>1. b + begin <= Len(file)
    BY LenProperties DEF String
  <2> QED
    BY <2>1, SpansOnFile
<1>6. /\ FileText(views, b) \in Fields /\ Len(FileText(views, b)) = n
      /\ \A k \in 1 .. n : FileText(views, b)[k] =
           SubSeq(file, b + views[k].from + 1, b + behind(views[k]))
  BY <1>5, FileTextFields DEF n
<1>7. /\ At(t) \in Passes /\ before \in Seq(String) /\ text \in Seq(Char) /\ CR \in Char
      /\ Open(At(t)) = Append(before, text) /\ Open(At(t + 1)) = Append(before, more)
  <2>1. At(t) \in Passes /\ CR \in Char
    BY PlainStep DEF Char
  <2> QED
    BY <2>1, PassAt, TrimmedAt DEF Open
<1> HIDE DEF before, text
<1>8. /\ more \in Seq(Char) /\ more # <<>> /\ Len(more) = Len(text) + 1
      /\ SubSeq(more, 1, Len(more) - 1) = text /\ Len(text) \in Nat
  <2>1. text \in Seq(Char) /\ CR \in Char
    BY <1>7
  <2> QED
    BY ONLY <2>1, FrontOfAppend
<1> HIDE DEF more
<1>9. /\ Len(Append(before, more)) = Len(before) + 1 /\ Len(before) \in Nat
      /\ Append(before, more)[Len(before) + 1] = more
      /\ \A k \in 1 .. Len(before) : Append(before, more)[k] = before[k]
  BY <1>7, <1>8, FrontOfAppend DEF String
<1>10. /\ Append(before, text) \in Seq(String)
       /\ Len(Append(before, text)) = Len(before) + 1
       /\ Append(before, text)[Len(before) + 1] = text
       /\ \A k \in 1 .. Len(before) : Append(before, text)[k] = before[k]
  BY <1>7, FrontOfAppend DEF String
<1>11. n = Len(before) + 1
  BY <1>6, <1>7, <1>9
<1>12. SubSeq(file, b + f + 1, b + (f + (l - 1))) = text
  <2> DEFINE x == b + f
             piece == SubSeq(file, x + 1, t)
  <2>1. l # 0
    BY DEF n
  <2>2. x \in Nat /\ x <= t /\ b + (f + (l - 1)) = t /\ b + (f + l) = t + 1
    <3>1. a <= f /\ f \in Nat /\ l \in Nat /\ f + l = begin
      BY <1>1 DEF Spans, n
    <3> HIDE DEF f, l
    <3> QED
      BY <2>1, <3>1
  <2> HIDE DEF x, f, l
  <2>3. file \in Seq(Char) /\ Len(file) \in Nat /\ t + 1 <= Len(file)
    BY LenProperties DEF String
  <2>4. SubSeq(file, x + 1, t + 1) = Append(piece, CR) /\ piece \in Seq(Char)
    <3>1. t < Len(file) /\ t <= Len(file) /\ file[t + 1] = CR
      BY <2>3
    <3>2. SubSeq(file, x + 1, t + 1) = Append(piece, file[t + 1])
      BY <2>2, <2>3, <3>1, StretchGrows
    <3>3. piece \in Seq(Char)
      BY <2>2, <2>3, <3>1, StretchIsSeq
    <3> QED
      BY <3>1, <3>2, <3>3
  <2>5. SubSeq(file, x + 1, t + 1) = more
    <3>1. behind(views[n]) = f + l
      BY DEF behind, f, l, n
    <3>2. n \in 1 .. n /\ FileText(views, b)[n] = SubSeq(file, x + 1, t + 1)
      BY <1>1, <1>6, <2>2, <3>1 DEF x, f
    <3>3. FileText(views, b)[n] = more
      BY <1>7, <1>9, <1>11 DEF n
    <3> QED
      BY <3>2, <3>3
  <2> HIDE DEF piece
  <2>6. SubSeq(Append(piece, CR), 1, Len(Append(piece, CR)) - 1) = piece
    BY <1>7, <2>4, FrontOfAppend
  <2>7. piece = text
    BY <1>8, <2>4, <2>5, <2>6
  <2> QED
    BY <2>2, <2>7 DEF piece, x
<1>13. ASSUME NEW k \in 1 .. n
       PROVE  SubSeq(file, b + shorter[k].from + 1, b + behind(shorter[k]))
                = Append(before, text)[k]
  <2>1. CASE k = n
    <3>1. shorter[k].from = f /\ behind(shorter[k]) = f + (l - 1)
      BY <1>2, <1>4, <2>1 DEF behind
    <3> HIDE DEF f, l
    <3> QED
      BY <1>10, <1>11, <1>12, <2>1, <3>1
  <2>2. CASE k # n
    <3>1. k \in 1 .. Len(before) /\ shorter[k] = views[k]
      BY <1>4, <1>9, <1>11, <2>2
    <3>2. SubSeq(file, b + views[k].from + 1, b + behind(views[k])) = before[k]
      BY <1>6, <1>7, <1>9, <3>1
    <3> QED
      BY <1>10, <3>1, <3>2
  <2> QED
    BY <2>1, <2>2
<1>14. FileText(shorter, b) = Append(before, text)
  <2> DEFINE shown == FileText(shorter, b)
             want == Append(before, text)
  <2>1. shown = [k \in 1 .. n |-> SubSeq(file, b + shorter[k].from + 1, b + behind(shorter[k]))]
    BY <1>4 DEF FileText
  <2>2. want \in Seq(String) /\ Len(want) = n
    BY <1>10, <1>11
  <2>3. \A k \in 1 .. n : shown[k] = want[k]
    BY <1>13, <2>1
  <2> HIDE DEF want
  <2>4. \A k \in 1 .. n : want[k] \in String
    BY <2>2, ElementOfSeq
  <2>5. shown = [k \in 1 .. n |-> want[k]]
    BY <1>13, <2>1 DEF want
  <2>6. want = [k \in 1 .. n |-> want[k]]
    BY <2>2
  <2> QED
    BY <2>5, <2>6 DEF want
<1> QED
  BY <1>7, <1>14 DEF shorter, n, Shortened

\* What the scan of a chunk says of the file.
LEMMA ScannedStretch ==
  ASSUME file \in String, NEW t \in Nat, NEW n \in Nat, t + n <= Len(file)
  PROVE  LET scanned == scan(SubSeq(file, t + 1, t + n))
             p == scanned.newline_pos
             D == scanned.delim_positions
         IN  /\ p = NoPosition => OneLine(t, t + n) /\ DelimitersAt(D, t, n)
             /\ p # NoPosition =>
                  /\ p \in 0 .. n - 1 /\ file[t + p + 1] = newline(config.line_ending)
                  /\ OneLine(t, t + p)
                  /\ \A q \in 0 .. p : DelimitersAt(D, t, q)
<1> DEFINE buffer == SubSeq(file, t + 1, t + n)
           nl == newline(config.line_ending)
           scanned == scan(buffer)
           p == scanned.newline_pos
           D == scanned.delim_positions
<1>1. /\ Len(buffer) = n
      /\ \A i \in 1 .. n : buffer[i] = file[t + i]
  BY StretchBytes
<1>2. Finds(scanned, buffer, nl)
  BY <1>1, ScanFinds
<1> HIDE DEF buffer, scanned, nl
<1>3. ASSUME NEW i \in 0 .. n - 1
      PROVE  buffer[i + 1] = file[t + i + 1]
  <2>1. i + 1 \in 1 .. n /\ t + (i + 1) = t + i + 1
    OBVIOUS
  <2> QED
    BY <1>1, <2>1
<1>4. /\ \A i \in 0 .. n - 1 : i \in Places(buffer, nl) <=> file[t + i + 1] = nl
      /\ \A i \in 0 .. n - 1 : i \in Places(buffer, delimiter) <=> file[t + i + 1] = delimiter
      /\ \A i \in Places(buffer, nl) : i \in 0 .. n - 1
  BY <1>1, <1>3 DEF Places
<1>5. ASSUME NEW m \in 0 .. n, \A i \in 0 .. m - 1 : i \notin Places(buffer, nl)
      PROVE  OneLine(t, t + m)
  <2> SUFFICES ASSUME NEW i \in t + 1 .. t + m PROVE file[i] # nl
    BY DEF OneLine, is_newline, nl
  <2> DEFINE k == i - t - 1
  <2>1. k \in 0 .. m - 1 /\ k \in 0 .. n - 1 /\ t + k + 1 = i
    OBVIOUS
  <2> HIDE DEF k
  <2>2. k \notin Places(buffer, nl)
    BY <1>5, <2>1
  <2> QED
    BY <1>4, <2>1, <2>2
<1>6. ASSUME NEW m \in 0 .. n, \A i \in 0 .. m - 1 : i \in D <=> i \in Places(buffer, delimiter)
      PROVE  DelimitersAt(D, t, m)
  <2> SUFFICES ASSUME NEW i \in 0 .. m - 1 PROVE i \in D <=> file[t + i + 1] = delimiter
    BY DEF DelimitersAt
  <2>1. i \in 0 .. n - 1
    OBVIOUS
  <2> QED
    BY <1>4, <1>6, <2>1
<1>7. CASE p = NoPosition
  <2>1. Places(buffer, nl) = {}
    <3>1. \A i \in Places(buffer, nl) : i # NoPosition
      BY <1>4 DEF NoPosition
    <3> QED
      BY <1>2, <1>7, <3>1 DEF Finds
  <2>2. n \in 0 .. n /\ \A i \in 0 .. n - 1 : i \notin Places(buffer, nl)
    BY <2>1
  <2>3. OneLine(t, t + n)
    BY <1>5, <2>2
  <2>4. \A i \in 0 .. n - 1 : i \in D <=> i \in Places(buffer, delimiter)
    BY <1>1, <1>2, <1>7 DEF Finds
  <2>5. DelimitersAt(D, t, n)
    BY <1>6, <2>2, <2>4
  <2> QED
    BY <1>7, <2>3, <2>5 DEF scanned, buffer
<1>8. CASE p # NoPosition
  <2>1. p \in Places(buffer, nl) /\ \A i \in Places(buffer, nl) : p <= i
    BY <1>2, <1>8 DEF Finds
  <2>2. p \in 0 .. n - 1 /\ file[t + p + 1] = nl
    BY <1>4, <2>1
  <2>3. OneLine(t, t + p)
    <3>1. p \in 0 .. n /\ \A i \in 0 .. p - 1 : ~(p <= i)
      BY <2>2
    <3>2. \A i \in 0 .. p - 1 : i \notin Places(buffer, nl)
      BY <2>1, <3>1
    <3> QED
      BY <1>5, <3>1, <3>2
  <2>4. ASSUME NEW q \in 0 .. p PROVE DelimitersAt(D, t, q)
    <3>1. q \in 0 .. n /\ \A i \in 0 .. q - 1 : i \in 0 .. n - 1 /\ i < p
      BY <2>2
    <3>2. \A i \in 0 .. q - 1 : i \in D <=> i \in Places(buffer, delimiter)
      BY <1>1, <1>2, <3>1 DEF Finds
    <3> QED
      BY <1>6, <3>1, <3>2
  <2> QED
    BY <1>8, <2>2, <2>3, <2>4 DEF scanned, buffer, nl
<1> QED
  BY <1>7, <1>8 DEF scanned, buffer

\* What parse() needs, and what it leaves: b is where in the file the block begins.
ParsesAt(b, begin, t) ==
  /\ ReadyFor(begin) /\ ShowsRecord(b, t)
  /\ fields # <<>> => (crlf => (pending_cr <=> file[t] = CR))

\* The record goes on behind the n bytes.
GoesOnAt(b, t, n) ==
  /\ fields' \in Views /\ b + fields'[1].from \in Nat
  /\ FileText(fields', b) = Open(At(t + n)) /\ ~Fresh(At(t + n))
  /\ At(t + n).records = At(t).records /\ OneLine(t, t + n)
  /\ crlf => (pending_cr' <=> file[t + n] = CR)

\* The next record is complete, somewhere in the n bytes.
CompletesAt(b, t, n) ==
  /\ status' = "complete" /\ consumed' \in 1 .. n
  /\ Fresh(At(t + consumed'))
  /\ At(t + consumed').records = Append(At(t).records, FileText(fields', b))

\* The chunk is the n bytes behind byte t, and the scan has found its newline and the
\* delimiters before it.
NewlineScanned(buffer, scanned, t, n) ==
  LET p == scanned.newline_pos
  IN  /\ \A i \in 1 .. n : buffer[i] = file[t + i]
      /\ p \in 0 .. n - 1 /\ file[t + p + 1] = newline(config.line_ending)
      /\ OneLine(t, t + p)
      /\ \A q \in 0 .. p : DelimitersAt(scanned.delim_positions, t, q)

\* parse() on such a chunk.
ParsesLine(buffer, begin, scanned) ==
  \/ BlankLineAfterCr(buffer, scanned)
  \/ BlankLine(buffer, scanned)
  \/ Line(buffer, begin, scanned)

\* A chunk without a newline.
LEMMA NoNewlineReads ==
  ASSUME ~config.has_quoting, file \in String, ~CrSensitive, N \in Nat,
         NEW t \in Nat, NEW n \in Nat, t + n <= Len(file), n # 0,
         NEW begin \in Nat, NEW b \in Int, b + begin = t, ParsesAt(b, begin, t),
         fields # <<>> => ~config.mapped_buffer /\ t >= N,
         OneLine(t, t + n),
         NEW D, DelimitersAt(D, t, n), insert_fields(begin, Cut(D, n)),
         pending_cr' = (pending_cr \/ file[t + n] = CR)
  PROVE  GoesOnAt(b, t, n)
<1>1. /\ fields' \in Views /\ b + fields'[1].from \in Nat
      /\ FileText(fields', b) = Open(At(t + n))
      /\ At(t + n).records = At(t).records
  BY InsertsViews DEF ParsesAt
<1> DEFINE e == t + n
<1>2. e \in Nat /\ e <= Len(file) /\ e # 0 /\ e \in t + 1 .. t + n /\ Len(file) \in Nat
  BY LenProperties DEF String
<1>3. ~Fresh(At(e))
  <2>1. file[e] # newline(config.line_ending)
    BY <1>2 DEF OneLine, is_newline
  <2> HIDE DEF e
  <2> QED
    BY <1>2, <2>1, FreshAt
<1>4. ~(crlf /\ pending_cr)
  <2> SUFFICES ASSUME crlf, pending_cr PROVE FALSE
    OBVIOUS
  <2>1. fields # <<>>
    BY DEF ParsesAt, ReadyFor
  <2>2. file[t] = CR /\ t <= Len(file)
    BY <1>2, <2>1 DEF ParsesAt
  <2>3. file[t + 1] = newline(config.line_ending)
    BY <1>2, <2>1, <2>2, CrHasLf
  <2>4. t + 1 \in t + 1 .. t + n
    OBVIOUS
  <2> QED
    BY <2>3, <2>4 DEF OneLine, is_newline
<1> QED
  BY <1>1, <1>3, <1>4 DEF GoesOnAt

\* A chunk with a newline, at index p.
LEMMA NewlineReads ==
  ASSUME ~config.has_quoting, file \in String, ~CrSensitive, N \in Nat,
         NEW t \in Nat, NEW n \in Nat, t + n <= Len(file),
         NEW begin \in Nat, NEW b \in Int, b + begin = t, ParsesAt(b, begin, t),
         fields # <<>> => ~config.mapped_buffer /\ t >= N,
         NEW buffer, NEW scanned, NewlineScanned(buffer, scanned, t, n),
         ParsesLine(buffer, begin, scanned)
  PROVE  CompletesAt(b, t, n)
<1> DEFINE p == scanned.newline_pos
           j == t + p
           q == EndOfLine(buffer, scanned)
           held == FileText(fields, b)
           at_cr == crlf /\ j > 0 /\ file[j] = CR
<1>0. /\ p \in 0 .. n - 1 /\ file[t + p + 1] = newline(config.line_ending)
      /\ OneLine(t, t + p) /\ \A k \in 0 .. p : DelimitersAt(scanned.delim_positions, t, k)
      /\ \A i \in 1 .. n : buffer[i] = file[t + i]
  BY DEF NewlineScanned
<1> HIDE DEF p
<1>1. /\ p \in Nat /\ p < n /\ j \in Nat /\ t + p < Len(file) /\ j < Len(file)
      /\ Len(file) \in Nat /\ t <= Len(file)
  BY <1>0, LenProperties DEF String
<1>2. Held(held, At(t))
  BY DEF ParsesAt, ShowsRecord
<1>3. /\ Fresh(At(j + 1)) /\ At(j + 1).records = Append(At(t).records, Row(At(j)))
      /\ Held(Row(At(j)), IF at_cr THEN At(j - 1) ELSE At(j))
  BY <1>0, <1>1, <1>2, LineCompletes
<1>4. EndsRecord(scanned)
  BY DEF ParsesLine, BlankLineAfterCr, BlankLine, Line
<1>5. consumed' = p + 1 /\ consumed' \in 1 .. n /\ t + consumed' = j + 1
  <2>1. consumed' = p + 1
    BY <1>4 DEF EndsRecord, p
  <2> QED
    BY ONLY <1>1, <2>1, t \in Nat, n \in Nat
<1>6. q = IF crlf /\ p > 0 /\ file[j] = CR THEN p - 1 ELSE p
  <2>1. p > 0 => p \in 1 .. n
    BY <1>1
  <2> QED
    BY <1>0, <2>1 DEF EndOfLine, line_end, p
<1> HIDE DEF q
<1>7. q \in 0 .. p
  BY <1>1, <1>6
\* A '\r' is pending when it is the byte before the chunk.
<1>8. ASSUME crlf, pending_cr PROVE t # 0 /\ file[t] = CR
  <2>1. fields # <<>> /\ file[t] = CR
    BY <1>8 DEF ParsesAt, ReadyFor
  <2>2. t # 0
    <3> SUFFICES ASSUME t = 0 PROVE FALSE
      OBVIOUS
    <3>1. Fresh(At(t))
      BY <1>1, FreshAt
    <3>2. held = <<>>
      BY <1>2, <3>1 DEF Held
    <3> QED
      BY <2>1, <3>2, NoFileText DEF ParsesAt, ReadyFor
  <2> QED
    BY <2>1, <2>2
<1>9. ASSUME crlf, t # 0, file[t] = CR
      PROVE  /\ pending_cr /\ fields # <<>> /\ p = 0 /\ t # 1
             /\ file[t - 1] # newline(config.line_ending)
  <2>1. newline(config.line_ending) = LF
    BY <1>9, NewlineByte
  <2>2. ~Fresh(At(t))
    BY <1>1, <1>9, <2>1, FreshAt, CharAssumption
  <2>3. held # <<>>
    <3>1. Open(At(t)) # <<>>
      BY <1>1, AtBytes, OpenFields DEF Fields
    <3> QED
      BY <1>2, <2>2, <3>1 DEF Held
  <2>4. fields # <<>>
    BY <2>3, NoFileText DEF ParsesAt, ReadyFor
  <2>5. pending_cr
    BY <1>9, <2>4 DEF ParsesAt
  <2>6. /\ t < Len(file) /\ file[t + 1] = LF /\ t # 1 /\ file[t - 1] # LF
    BY <1>1, <1>9, <2>4, CrHasLf
  <2>7. p = 0
    <3> SUFFICES ASSUME p # 0 PROVE FALSE
      OBVIOUS
    <3>1. t + 1 \in t + 1 .. t + p
      BY <1>1
    <3> QED
      BY <1>0, <2>1, <2>6, <3>1 DEF OneLine, is_newline
  <2> QED
    BY <2>1, <2>4, <2>5, <2>6, <2>7
<1> HIDE DEF held
\* What is left to show.
<1>10. ASSUME status' = "complete", FileText(fields', b) = Row(At(j))
       PROVE  CompletesAt(b, t, n)
  BY <1>3, <1>5, <1>10 DEF CompletesAt
<1>11. CASE p = 0 /\ crlf /\ t # 0 /\ file[t] = CR
  <2>1. pending_cr /\ fields # <<>> /\ t # 1 /\ file[t - 1] # newline(config.line_ending)
    BY <1>9, <1>11
  <2>2. q = 0 /\ j = t
    BY <1>1, <1>6, <1>11
  <2>3. BlankLineAfterCr(buffer, scanned)
    BY <1>11, <2>1, <2>2 DEF ParsesLine, BlankLine, Line, q
  <2>4. /\ fields \in Views /\ Spans(fields, fields[1].from, begin)
        /\ fields[Len(fields)].len # 0
    BY <2>1 DEF ParsesAt, ReadyFor, CrIsShown, Views
  <2>5. /\ status' = "complete"
        /\ fields' = Shortened(fields)
    BY <2>3, <2>4 DEF BlankLineAfterCr, Last, Shortened
  <2> DEFINE c == t - 1
             a == fields[1].from
  <2>6. c \in Nat /\ c < Len(file) /\ c + 1 = t /\ c # 0 /\ c <= Len(file)
    BY <1>1, <1>11, <2>1
  <2>7. file[c + 1] = CR /\ file[c] # newline(config.line_ending)
    BY <1>11, <2>1, <2>6
  <2>8. a \in Int /\ b + a \in Nat /\ Spans(fields, a, begin)
    BY <2>1, <2>4, ViewsAreViews DEF ParsesAt, ShowsRecord
  <2>9. held = Open(At(t))
    <3>1. held # <<>>
      BY <2>1, NoFileText DEF ParsesAt, ReadyFor, held
    <3> QED
      BY <1>2, <3>1 DEF Held
  <2>10. at_cr /\ j - 1 = c
    BY <1>11, <2>2, <2>6
  <2> HIDE DEF a, c, at_cr, j
  <2>11. FileText(Shortened(fields), b) = Open(At(c))
    <3>1. FileText(fields, b) = Open(At(c + 1)) /\ b + begin = c + 1 /\ begin \in Int
      BY <2>6, <2>9 DEF held
    <3>2. crlf
      BY <1>11
    <3> QED
      BY ONLY ~config.has_quoting, file \in String, <3>2, <2>6, <2>7, <2>4, <2>8, b \in Int,
         <3>1, ShortenedText
  <2>12. ~Fresh(At(c))
    BY <2>6, <2>7, FreshAt
  <2>13. Row(At(j)) = Open(At(c))
    BY <1>3, <2>10, <2>12 DEF Held
  <2> QED
    BY <1>10, <2>5, <2>11, <2>13
<1>12. CASE ~(p = 0 /\ crlf /\ t # 0 /\ file[t] = CR)
  <2>2. ~(crlf /\ pending_cr)
    BY <1>8, <1>9, <1>12
  <2>3. Held(Row(At(j)), At(t + q))
    <3>1. at_cr => p > 0 /\ j - 1 = t + q
      BY <1>1, <1>6, <1>12
    <3>2. ~at_cr => j = t + q
      BY <1>1, <1>6
    <3> HIDE DEF j, at_cr
    <3> QED
      BY <1>3, <3>1, <3>2
  <2>4. CASE q = 0
    <3>1. status' = "complete" /\ fields' = fields
      BY <2>2, <2>4 DEF ParsesLine, BlankLineAfterCr, BlankLine, Line, q
    <3>2. t + q = t
      BY <2>4
    <3>3. held = Row(At(j))
      BY <1>2, <2>3, <3>2 DEF Held
    <3>4. FileText(fields', b) = held
      BY <3>1 DEF held
    <3> QED
      BY <1>10, <3>1, <3>3, <3>4
  <2>5. CASE q # 0
    <3>1. /\ status' = "complete"
          /\ insert_fields(begin, Cut(scanned.delim_positions, q))
      BY <2>5 DEF ParsesLine, BlankLineAfterCr, BlankLine, Line, q
    <3>2. /\ q \in Nat /\ t + q <= Len(file) /\ t + q # 0 /\ t + q \in t + 1 .. t + p
          /\ \A i \in t + 1 .. t + q : i \in t + 1 .. t + p
      BY ONLY <1>1, <1>7, <2>5, t \in Nat, n \in Nat
    <3>3. OneLine(t, t + q) /\ DelimitersAt(scanned.delim_positions, t, q)
      BY <1>0, <1>7, <3>2 DEF OneLine
    <3>4. FileText(fields', b) = Open(At(t + q))
      BY <3>1, <3>2, <3>3, InsertsViews DEF ParsesAt
    <3> DEFINE e == t + q
    <3>5. ~Fresh(At(e))
      <4>1. /\ file[e] # newline(config.line_ending)
            /\ e \in Nat /\ e <= Len(file) /\ e # 0
        <5>1. OneLine(t, t + p)
          BY <1>0
        <5> QED
          BY ONLY <3>2, <5>1, t \in Nat DEF OneLine, is_newline
      <4> HIDE DEF e
      <4> QED
        BY <4>1, FreshAt
    <3>6. Row(At(j)) = Open(At(t + q))
      BY <2>3, <3>5 DEF Held
    <3> QED
      BY <1>10, <3>1, <3>4, <3>6
  <2> QED
    BY <2>4, <2>5
<1> QED
  BY <1>11, <1>12

\* parse() on the n bytes behind byte t takes them all and is in a record still, or
\* it has completed the next record of the file.
LEMMA ViewReads ==
  ASSUME ~config.has_quoting, file \in String, ~CrSensitive, N \in Nat,
         NEW t \in Nat, NEW n \in Nat, t + n <= Len(file),
         NEW begin \in Nat, NEW b \in Int, b + begin = t, ParsesAt(b, begin, t),
         fields # <<>> /\ n # 0 => ~config.mapped_buffer /\ t >= N,
         parse(SubSeq(file, t + 1, t + n), begin)
  PROVE  \/ /\ n = 0 /\ status' = "need_more_data" /\ consumed' = 0
            /\ UNCHANGED <<fields, incomplete_last_read, pending_cr>>
         \/ n # 0 /\ status' = "need_more_data" /\ consumed' = n /\ GoesOnAt(b, t, n)
         \/ CompletesAt(b, t, n)
<1> DEFINE buffer == SubSeq(file, t + 1, t + n)
           scanned == scan(buffer)
           p == scanned.newline_pos
           D == scanned.delim_positions
<1>1. /\ buffer \in String /\ Len(buffer) = n
      /\ \A i \in 1 .. n : buffer[i] = file[t + i]
  BY StretchBytes
<1>2. /\ p = NoPosition => OneLine(t, t + n) /\ DelimitersAt(D, t, n)
      /\ p # NoPosition =>
           /\ p \in 0 .. n - 1 /\ file[t + p + 1] = newline(config.line_ending)
           /\ OneLine(t, t + p)
           /\ \A q \in 0 .. p : DelimitersAt(D, t, q)
  BY ScannedStretch
<1>3. \/ NoBytes(buffer)
      \/ NoNewline(buffer, begin, scanned)
      \/ ParsesLine(buffer, begin, scanned)
  BY DEF parse, ParsesLine
<1>4. buffer = <<>> <=> n = 0
  BY <1>1, EmptySeq DEF String
<1> HIDE DEF buffer, scanned
<1>5. CASE NoBytes(buffer)
  BY <1>4, <1>5 DEF NoBytes
<1>6. CASE NoNewline(buffer, begin, scanned)
  <2>1. /\ n # 0 /\ p = NoPosition /\ insert_fields(begin, Cut(D, n))
        /\ consumed' = n /\ status' = "need_more_data"
        /\ pending_cr' = (pending_cr \/ Last(buffer) = CR)
    BY <1>1, <1>4, <1>6 DEF NoNewline
  <2>2. Last(buffer) = file[t + n]
    <3>1. n \in 1 .. n
      BY <2>1
    <3> QED
      BY <1>1, <3>1 DEF Last
  <2>3. pending_cr' = (pending_cr \/ file[t + n] = CR)
    BY <2>1, <2>2
  <2>4. OneLine(t, t + n) /\ DelimitersAt(D, t, n)
    BY <1>2, <2>1
  <2>5. GoesOnAt(b, t, n)
    BY <2>1, <2>3, <2>4, NoNewlineReads
  <2> QED
    BY <2>1, <2>5
<1>7. CASE ParsesLine(buffer, begin, scanned)
  <2>1. p # NoPosition
    BY <1>7 DEF ParsesLine, BlankLineAfterCr, BlankLine, Line, EndsRecord
  <2>2. NewlineScanned(buffer, scanned, t, n)
    BY <1>1, <1>2, <2>1 DEF NewlineScanned
  <2>3. n # 0
    BY <2>2 DEF NewlineScanned
  <2>4. CompletesAt(b, t, n)
    BY <1>7, <2>2, <2>3, NewlineReads
  <2> QED
    BY <2>4
<1> QED
  BY <1>3, <1>5, <1>6, <1>7

-----------------------------------------------------------------------------
(***************************************************************************)
(* The block.                                                               *)
(***************************************************************************)
\* The views show what the block took from the file.
LEMMA TextIsFileText ==
  ASSUME FileInv, BytesInv, NEW views \in Seq(View),
         \A k \in 1 .. Len(views) : behind(views[k]) <= size
  PROVE  Text(views) = FileText(views, base)
<1>1. /\ size \in Nat /\ file \in Seq(Char) /\ Len(file) \in Nat
      /\ base \in Nat /\ base + size <= Len(file)
      /\ \A i \in 0 .. size - 1 : data[i] = file[base + i + 1]
  BY LenProperties DEF BytesInv, FileInv, String
<1>2. ASSUME NEW k \in 1 .. Len(views)
      PROVE  Shown(views[k]) = SubSeq(file, base + views[k].from + 1, base + behind(views[k]))
  <2> DEFINE f == views[k].from
             l == views[k].len
             a == base + f
             e == a + l
             shown == [i \in 1 .. l |-> data[f + i - 1]]
             stretch == SubSeq(file, a + 1, e)
  <2>1. f \in Nat /\ l \in Nat /\ f + l <= size
    BY ViewAt DEF behind
  <2>2. Shown(views[k]) = shown /\ base + behind(views[k]) = base + (f + l)
    BY DEF Shown, behind
  <2> HIDE DEF f, l
  <2>3. /\ a \in Nat /\ e \in Nat /\ a <= e /\ e <= Len(file) /\ e - a = l
        /\ base + (f + l) = e
    BY <1>1, <2>1
  <2>4. ASSUME NEW i \in 1 .. l PROVE shown[i] = file[a + i] /\ file[a + i] \in Char
    <3>1. f + i - 1 \in 0 .. size - 1 /\ base + (f + i - 1) + 1 = a + i /\ a + i \in 1 .. Len(file)
      BY <1>1, <2>1
    <3>2. data[f + i - 1] = file[a + i]
      BY <1>1, <3>1
    <3> QED
      BY <1>1, <3>1, <3>2, ElementOfSeq
  <2>5. shown \in Seq(Char) /\ Len(shown) = l
    <3>1. \A i \in 1 .. l : data[f + i - 1] \in Char
      BY <2>4
    <3>2. shown \in Seq(Char)
      BY <2>1, <3>1, IsASeq
    <3>3. DOMAIN shown = 1 .. l
      OBVIOUS
    <3> QED
      BY <2>1, <3>2, <3>3, LenProperties
  <2> HIDE DEF a, e, shown
  <2>6. /\ stretch \in Seq(Char) /\ Len(stretch) = l
        /\ \A i \in 1 .. l : stretch[i] = file[a + i]
    BY <1>1, <2>3, StretchIsSeq, StretchLen, StretchAt
  <2> HIDE DEF stretch
  <2>7. shown = stretch
    BY <2>4, <2>5, <2>6, SeqEqual
  <2> QED
    BY <2>2, <2>3, <2>7 DEF stretch, a, f
<1> QED
  BY <1>2 DEF Text, FileText

\* Views the bytes of which stay where they are show what they did.
LEMMA TextStays ==
  ASSUME NEW views \in Seq(View),
         \A k \in 1 .. Len(views) :
           \A i \in views[k].from .. behind(views[k]) - 1 : data'[i] = data[i]
  PROVE  Text(views)' = Text(views)
<1>1. ASSUME NEW k \in 1 .. Len(views) PROVE Shown(views[k])' = Shown(views[k])
  <2> DEFINE f == views[k].from
             l == views[k].len
  <2>1. f \in Nat /\ l \in Nat /\ behind(views[k]) = f + l
    BY ViewAt DEF behind
  <2>2. \A i \in f .. (f + l) - 1 : data'[i] = data[i]
    BY <2>1
  <2>3. /\ Shown(views[k]) = [i \in 1 .. l |-> data[f + i - 1]]
        /\ Shown(views[k])' = [i \in 1 .. l |-> data'[f + i - 1]]
    BY DEF Shown
  <2> HIDE DEF f, l
  <2>4. ASSUME NEW i \in 1 .. l PROVE data'[f + i - 1] = data[f + i - 1]
    <3>1. f + i - 1 \in f .. (f + l) - 1
      BY <2>1
    <3> QED
      BY <2>2, <3>1
  <2> QED
    BY <2>3, <2>4
<1> QED
  BY <1>1 DEF Text

\* The bytes a refill that brings nothing may have written over: those to which the
\* unread ones were moved.
Overwritten(i) == ~config.mapped_buffer /\ start # 0 /\ i < size - start

\* A refill: the block is a stretch of the file still, and the reader has consumed as
\* much as before.
LEMMA RefillFile ==
  ASSUME ViewFeed, BytesInv, StreamInv, size - start < N, refill, config' = config
  PROVE  /\ ViewFeed' /\ Taken' = Taken
         /\ reading' \in {"ok", "eof", "fail"}
         /\ reading' = "eof" => /\ AtEnd' /\ base + size = Len(file)
                                /\ \A i \in 0 .. size - 1 : data'[i] = data[i] \/ Overwritten(i)
         /\ reading' = "fail" => ~AtEnd'
         /\ spent => (AtEnd' <=> AtEnd)
<1>1. /\ N \in Nat /\ size \in 0 .. N /\ start \in 0 .. size /\ file \in Seq(Char)
      /\ Len(file) \in Nat
  BY LenProperties DEF BytesInv, String
<1>2. CASE config.mapped_buffer
  <2>1. /\ UNCHANGED <<file, N, data, start, size>>
        /\ reading' = IF size = 0 THEN "fail" ELSE IF start >= size THEN "eof" ELSE "ok"
    BY <1>2 DEF refill, Mapped!refill, Mapped!empty, Mapped!is_null
  <2>2. base' = base /\ base = 0 /\ (AtEnd' <=> AtEnd) /\ (AtEnd <=> size # 0)
    BY <1>2, <2>1 DEF base, AtEnd
  <2>3. ViewFeed' /\ size = Len(file)
    BY <1>2, <2>1, <2>2 DEF ViewFeed, FileInv
  <2>4. Taken' = Taken /\ base + size = Len(file)
    BY <1>1, <1>2, <2>1, <2>2, <2>3 DEF Taken
  <2> QED
    BY <2>1, <2>2, <2>3, <2>4
<1>3. CASE ~config.mapped_buffer
  <2> DEFINE a == size - start
  <2>1. /\ Stream!Refill /\ Stream!available = a /\ a \in Nat /\ a < N
        /\ pos \in 0 .. Len(file) /\ N \in Nat \ {0}
    BY <1>1, <1>3 DEF refill, StreamInv, Stream!available
  <2>2. base = pos - size /\ base \in Nat /\ Taken = pos - a /\ base + size = pos
    BY <1>1, <1>3, <2>1 DEF base, Taken, ViewFeed, FileInv
  <2>3. /\ "eofbit" \in bits => pos = Len(file)
        /\ \A i \in 0 .. size - 1 : data[i] = file[base + i + 1]
    BY <1>3 DEF ViewFeed, FileInv
  <2>4. /\ \A i \in 0 .. a - 1 : Stream!Compacted[i] = data[start + i]
        /\ \A i \in 0 .. size - 1 : Stream!Compacted[i] = data[i] \/ Overwritten(i)
    <3>1. CASE a = 0 \/ start = 0
      <4>1. Stream!Compacted = data
        BY <2>1, <3>1 DEF Stream!Compacted
      <4> QED
        BY <1>1, <3>1, <4>1
    <3>2. CASE a # 0 /\ start # 0
      <4>1. Stream!Compacted = [i \in 0 .. N - 1 |-> IF i < a THEN data[start + i] ELSE data[i]]
        BY <2>1, <3>2 DEF Stream!Compacted
      <4>2. /\ \A i \in 0 .. a - 1 : i \in 0 .. N - 1 /\ i < a
            /\ \A i \in 0 .. size - 1 : i \in 0 .. N - 1
        BY <1>1, <2>1
      <4> QED
        BY <1>3, <3>2, <4>1, <4>2 DEF Overwritten
    <3> QED
      BY <3>1, <3>2
  <2> HIDE DEF a
  <2>5. ASSUME NEW n \in Nat, n <= N - a, n <= Len(file) - pos, NEW b, Stream!RefillWith(n, b),
               "eofbit" \in b => pos + n = Len(file), b = {} => a + n = N
        PROVE  /\ ViewFeed' /\ Taken' = Taken /\ bits' = b
               /\ reading' \in {"ok", "eof", "fail"}
               /\ reading' = "eof" => /\ AtEnd' /\ base + size = Len(file)
                                      /\ \A i \in 0 .. size - 1 :
                                           data'[i] = data[i] \/ Overwritten(i)
               /\ reading' = "fail" => ~AtEnd'
    <3>1. /\ data' = [i \in 0 .. N - 1 |->
                        IF i \in a .. a + n - 1
                        THEN file[pos + i - a + 1] ELSE Stream!Compacted[i]]
          /\ start' = 0 /\ size' = a + n /\ bits' = b /\ pos' = pos + n /\ UNCHANGED <<file, N>>
          /\ reading' = IF n > 0 THEN "ok" ELSE IF "eofbit" \in b THEN "eof" ELSE "fail"
      BY <2>1, <2>5 DEF Stream!RefillWith
    <3>2. base' = pos - a /\ (AtEnd' <=> "eofbit" \in b) /\ Taken' = pos - a
      BY <1>1, <1>3, <2>1, <3>1 DEF base, AtEnd, Taken
    <3>3. pos - a = base + start /\ pos - a \in Nat /\ (pos - a) + (a + n) <= Len(file)
      <4>1. pos - a = base + start
        BY <1>1, <2>1, <2>2 DEF a
      <4> QED
        BY <1>1, <2>1, <2>2, <2>5, <4>1
    <3>4. ASSUME NEW i \in 0 .. size' - 1 PROVE data'[i] = file[base' + i + 1]
      <4>1. i \in 0 .. N - 1 /\ i \in 0 .. (a + n) - 1
        BY <1>1, <2>1, <2>5, <3>1, <3>4
      <4>2. CASE i \in a .. a + n - 1
        <5>1. pos + i - a + 1 = (pos - a) + i + 1
          BY <1>1, <2>1, <4>1
        <5> QED
          BY <3>1, <3>2, <4>1, <4>2, <5>1
      <4>3. CASE i \notin a .. a + n - 1
        <5>1. i \in 0 .. a - 1 /\ start + i \in 0 .. size - 1
          BY <1>1, <2>1, <4>1, <4>3 DEF a
        <5>2. data'[i] = data[start + i]
          BY <2>4, <3>1, <4>1, <4>3, <5>1
        <5>3. base + (start + i) + 1 = (pos - a) + i + 1
          BY <1>1, <2>1, <2>2, <3>3, <5>1
        <5> QED
          BY <2>3, <3>2, <5>1, <5>2, <5>3
      <4> QED
        BY <4>2, <4>3
    <3>5. base' \in Nat /\ base' + size' <= Len(file)
      BY <3>1, <3>2, <3>3
    <3>6. reading' = "eof" => "eofbit" \in b /\ n = 0
      BY <2>5, <3>1
    <3>7. b = {} => size' = N'
      BY <2>5, <3>1
    <3>8. FileInv'
      BY <1>3, <2>5, <3>1, <3>2, <3>4, <3>5, <3>6 DEF FileInv
    <3>9. ViewFeed'
      BY <1>3, <3>1, <3>7, <3>8 DEF ViewFeed
    <3>10. ASSUME reading' = "eof", NEW i \in 0 .. size - 1
           PROVE  data'[i] = data[i] \/ Overwritten(i)
      <4>1. i \in 0 .. N - 1 /\ i \notin a .. a + n - 1
        BY <1>1, <2>1, <3>6, <3>10
      <4> QED
        BY <2>4, <3>1, <4>1
    <3>11. reading' = "eof" => AtEnd' /\ base + size = Len(file)
      BY <2>1, <2>2, <2>5, <3>2, <3>6
    <3>12. reading' = "fail" => "eofbit" \notin b
      BY <3>1
    <3>13. reading' \in {"ok", "eof", "fail"}
      BY <3>1
    <3> QED
      BY <2>2, <3>1, <3>2, <3>9, <3>10, <3>11, <3>12, <3>13
  <2>6. CASE Stream!RefillFull
    BY <2>1, <2>6 DEF Stream!RefillFull
  <2>7. CASE Stream!RefillReads
    <3> DEFINE left == Len(file) - pos
               room == N - a
               n == Stream!Least(room, left)
               b == IF left < room THEN {"eofbit"} ELSE {}
    <3>1. Stream!RefillWith(n, b) /\ bits = {}
      BY <2>1, <2>7 DEF Stream!RefillReads
    <3>2. /\ n \in Nat /\ n <= room /\ n <= left /\ (b # {} => pos + n = Len(file))
          /\ b = {} => n = room
      BY <1>1, <2>1 DEF Stream!Least
    <3> HIDE DEF n
    <3>3. ("eofbit" \in b => pos + n = Len(file)) /\ (b = {} => a + n = N)
      BY <1>1, <2>1, <3>2
    <3> HIDE DEF b
    <3> QED
      BY <1>3, <2>5, <3>1, <3>2, <3>3 DEF spent
  <2>8. CASE Stream!RefillOnSpentStream
    <3>1. Stream!RefillWith(0, bits) /\ bits # {}
      BY <2>8 DEF Stream!RefillOnSpentStream
    <3>2. 0 \in Nat /\ 0 <= N - a /\ 0 <= Len(file) - pos /\ pos + 0 = pos
      BY <1>1, <2>1
    <3>3. /\ ViewFeed' /\ Taken' = Taken /\ bits' = bits
          /\ reading' \in {"ok", "eof", "fail"}
          /\ reading' = "eof" => /\ AtEnd' /\ base + size = Len(file)
                                 /\ \A i \in 0 .. size - 1 : data'[i] = data[i] \/ Overwritten(i)
          /\ reading' = "fail" => ~AtEnd'
      BY <2>3, <2>5, <3>1, <3>2
    <3>4. AtEnd' <=> AtEnd
      BY <1>3, <3>3 DEF AtEnd
    <3> QED
      BY <1>3, <3>3, <3>4
  <2>9. CASE Stream!RefillHitsReadError
    <3>1. /\ bits = {}
          /\ \E n \in 0 .. Stream!Least(N - Stream!available, Len(file) - pos) :
               Stream!RefillWith(n, {"badbit"})
      BY <2>9 DEF Stream!RefillHitsReadError
    <3>2. PICK n \in 0 .. Stream!Least(N - a, Len(file) - pos) :
                 Stream!RefillWith(n, {"badbit"})
      BY <2>1, <3>1
    <3>3. n \in Nat /\ n <= N - a /\ n <= Len(file) - pos
      BY <1>1, <2>1 DEF Stream!Least
    <3>4. "eofbit" \notin {"badbit"} /\ {"badbit"} # {}
      OBVIOUS
    <3> QED
      BY <1>3, <2>5, <3>1, <3>2, <3>3, <3>4 DEF spent
  <2> QED
    BY <2>1, <2>6, <2>7, <2>8, <2>9 DEF Stream!Refill
<1> QED
  BY <1>2, <1>3

-----------------------------------------------------------------------------
(***************************************************************************)
(* What the steps leave alone.                                              *)
(***************************************************************************)
LEMMA SameRecords ==
  ASSUME UNCHANGED <<config, file, N>>
  PROVE  /\ AllRecords(config, file)' = AllRecords(config, file)
         /\ CrSensitive' <=> CrSensitive
         /\ LastLineMoves' <=> LastLineMoves
         /\ HasNewline' <=> HasNewline
         /\ \A i : At(i)' = At(i)
<1>1. AllRecords(config, file)' = AllRecords(config, file)
  OBVIOUS
<1>2. CrSensitive' <=> CrSensitive
  BY DEF CrSensitive, crlf
<1>3. (LastLineMoves' <=> LastLineMoves) /\ (HasNewline' <=> HasNewline)
  BY DEF LastLineMoves, HasNewline, is_newline
<1>4. ASSUME NEW i PROVE At(i)' = At(i)
  BY DEF At
<1> QED
  BY <1>1, <1>2, <1>3, <1>4

LEMMA RowsStay ==
  ASSUME UNCHANGED <<config, file, N, parsed>>, RowsRead
  PROVE  RowsRead'
BY SameRecords DEF RowsRead

LEMMA DoneStays ==
  ASSUME UNCHANGED <<config, file, parsed>>, spent => spent', AtEnd' <=> AtEnd, Done
  PROVE  Done'
BY DEF Done

\* Where the reader stands, told by b and t.
LEMMA ReadsOnAlone ==
  ASSUME UNCHANGED <<config, file, parsed, fields, pending_cr>>, NEW b, NEW t, Reads(b, t)
  PROVE  Reads(b, t)'
BY DEF Reads, Held, Fresh, Open, At, FileText, behind, OneLine, is_newline, crlf

\* Nothing of a record has been read where it begins.
LEMMA NothingHeld ==
  ASSUME file \in String, NEW t \in 0 .. Len(file), NEW b, fields = <<>>
  PROVE  Reads(b, t) <=> Fresh(At(t)) /\ parsed = At(t).records
<1>1. fields \in Seq(View)
  <2>1. <<>> \in Seq(View)
    BY EmptySeq
  <2> QED
    BY <2>1
<1>2. FileText(fields, b) = <<>>
  BY <1>1, NoFileText
<1>3. At(t) \in Passes /\ Open(At(t)) # <<>>
  BY AtBytes, OpenFields DEF Fields
<1>4. Held(FileText(fields, b), At(t)) <=> Fresh(At(t))
  BY <1>2, <1>3 DEF Held
<1> QED
  BY <1>4 DEF Reads

\* Consuming what is there changes nothing of that.
LEMMA ConsumeStays ==
  ASSUME FileInv, BytesInv, NEW bytes \in Nat, consume(bytes), config' = config
  PROVE  /\ UNCHANGED <<file, N, size, data, reading, bits>>
         /\ base' = base /\ (AtEnd' <=> AtEnd) /\ (spent => spent')
         /\ bytes <= size - start => Taken' = Taken + bytes
         /\ bytes >= size - start => start' = size'
<1>1. /\ UNCHANGED <<file, N, size, data, reading, bits>>
      /\ start' = start + (IF bytes <= size - start THEN bytes ELSE size - start)
      /\ size \in Nat /\ start \in 0 .. size
  BY ConsumeKeepsBytes DEF BytesInv
<1>2. base' = base /\ (bytes <= size - start => Taken' = Taken + bytes)
  BY ConsumeKeepsFile
<1>3. AtEnd' <=> AtEnd
  BY <1>1 DEF AtEnd
<1>4. start = size => start' = size'
  BY <1>1
<1>5. spent => spent'
  <2>1. buffer_empty <=> start = size
    BY <1>1 DEF buffer_empty, Stream!empty, Mapped!empty
  <2>2. start' = size' => buffer_empty'
    BY <1>1 DEF buffer_empty, Stream!empty, Mapped!empty
  <2> QED
    BY <1>1, <1>4, <2>1, <2>2 DEF spent
<1> QED
  BY <1>1, <1>2, <1>3, <1>5

\* Every step keeps the block a stretch of the file.
LEMMA NextKeepsFeed ==
  ASSUME SInv, GeoInv, ViewFeed, [Next]_vars
  PROVE  ViewFeed' /\ UNCHANGED <<config, file, N>>
<1>1. BytesInv /\ consumed \in Nat /\ StreamInv
  BY DEF GeoInv, ViewTypes, SInv, BytesInv
<1>2. ASSUME UNCHANGED <<buffer_vars, config>> PROVE ViewFeed' /\ UNCHANGED <<config, file, N>>
  <2>1. FileInv' /\ UNCHANGED <<pos, bits, N, size, file>>
    BY <1>2, FeedUnchanged DEF ViewFeed, buffer_vars
  <2> QED
    BY <1>2, <2>1 DEF ViewFeed
<1>3. ASSUME consume(consumed), config' = config PROVE ViewFeed' /\ UNCHANGED <<config, file, N>>
  <2>1. FileInv' /\ UNCHANGED <<pos, bits, N, size, file>>
    BY <1>1, <1>3, ConsumeKeepsFile, ConsumeStays DEF ViewFeed
  <2> QED
    BY <1>3, <2>1 DEF ViewFeed
<1>4. CASE RefillBlock
  <2>1. refill /\ config' = config /\ total < N /\ total >= size - start
    BY <1>4 DEF RefillBlock, SInv, LoopInv, parser_vars
  <2>2. size - start < N
    BY <1>1, <2>1 DEF BytesInv, GeoInv, ViewTypes
  <2>3. UNCHANGED <<file, N>>
    BY <1>1, <2>1, RefillKeepsBytes
  <2> QED
    BY <1>1, <2>1, <2>2, <2>3, RefillFile
<1>5. CASE Construct \/ CallReader
  <2>1. UNCHANGED <<buffer_vars, config>>
    BY <1>5 DEF Construct, CallReader, RejectQuoting, RejectConfig, RejectBuffer, Rejects,
      ConstructWithoutHeader, ConstructWithHeader, Constructs, CallNext, parser_vars
  <2> QED
    BY <1>2, <2>1
<1>6. CASE ThrowTooLarge \/ CallParse \/ NeedMoreData \/ UNCHANGED vars
  <2>1. UNCHANGED <<buffer_vars, config>>
    BY <1>6 DEF ThrowTooLarge, CallParse, parse, NeedMoreData, parser_vars, vars
  <2> QED
    BY <1>2, <2>1
<1>7. CASE ShiftViews \/ RefilledAtEof \/ RefillFailed \/ Complete
  <2>1. consume(consumed) /\ config' = config
    BY <1>7 DEF ShiftViews, RefilledAtEof, RefillFailed, Complete, parser_vars
  <2> QED
    BY <1>3, <2>1
<1> QED
  BY <1>4, <1>5, <1>6, <1>7 DEF Next, NextStep

-----------------------------------------------------------------------------
(***************************************************************************)
(* The records, step by step, where the configuration asks for no quoting   *)
(* and the file is none of CrSensitive.                                     *)
(***************************************************************************)
\* Between two calls nothing is asked of the loop.
LEMMA RecordsOutside ==
  ASSUME pc' # "next", status' = "idle", RowsRead', outcome' = "end" => Done',
         pc' \in {"construct", "ready"} =>
           Done' \/ (Fresh(At(Taken)) /\ parsed = At(Taken).records)',
         ~config.mapped_buffer' /\ Taken' # 0 => spent' \/ HasNewline'
  PROVE  ViewRecords'
<1>1. \A where : ~InLoop(where)'
  BY DEF InLoop
<1> QED
  BY <1>1 DEF ViewRecords

\* At the beginning the whole file is to come.
LEMMA InitRecords ==
  ASSUME Init
  PROVE  ViewFeed /\ RecordsInv
<1>1. /\ ReaderInit /\ pc = "construct" /\ status = "idle" /\ parsed = <<>>
      /\ outcome = "none"
  BY DEF Init, ReaderInit, ParserBaseInit
<1>2. FeedInv /\ StreamInv /\ BytesInv
  BY <1>1, InitFeed, InitStream, InitBytes
<1>3. Taken = 0 /\ (~config.mapped_buffer => pos = 0)
  BY <1>1 DEF ReaderInit, StreamInit, MappedInit, Stream!Init, Mapped!Init, Taken, base
<1>4. ViewFeed
  BY <1>2, <1>3 DEF FeedInv, ViewFeed
<1>5. file \in String /\ At(0) \in Passes /\ Fresh(At(0)) /\ At(0).records = <<>>
  BY <1>2, AtBytes, StartPass DEF BytesInv
<1>6. RowsRead
  <2>1. AllRecords(config, file) \in Seq(Seq(String))
    BY <1>5, RecordsAreRows
  <2>2. Len(AllRecords(config, file)) \in Nat /\ Len(parsed) = 0
    BY <1>1, <2>1, LenProperties
  <2> QED
    BY <2>2 DEF RowsRead
<1>7. ViewRecords
  <2>1. \A where : ~InLoop(where)
    BY <1>1 DEF InLoop
  <2> QED
    BY <1>1, <1>3, <1>5, <1>6, <2>1 DEF ViewRecords
<1> QED
  BY <1>1, <1>4, <1>7 DEF RecordsInv, NoReader

\* A call that begins holds nothing.
LEMMA CallBegins ==
  ASSUME IInv, GeoInv, ViewFeed, ViewRecords, pc \in {"construct", "ready"}, pc' = "next",
         fields' = <<>>, consumed' = 0,
         UNCHANGED <<config, status, loop_vars, buffer_vars, parsed, outcome>>
  PROVE  ViewRecords'
<1>1. status' = "idle" /\ loop' = "top"
  BY DEF IInv, ParserInv, loop_vars
<1>2. /\ UNCHANGED <<file, N, parsed, config>> /\ base' = base /\ Taken' = Taken
      /\ (AtEnd' <=> AtEnd) /\ (spent => spent')
  BY FeedUnchanged, UnchangedKeepsStream
<1>3. RowsRead' /\ (Done => Done')
  BY <1>2, RowsStay, DoneStays DEF ViewRecords
<1>4. \A i : At(i)' = At(i)
  BY <1>2, SameRecords
<1>5. HasNewline' <=> HasNewline
  BY <1>2, SameRecords
<1>6. Reads(base, Taken + consumed)' \/ Done'
  <2>1. CASE Done
    BY <1>3, <2>1
  <2>2. CASE Fresh(At(Taken)) /\ parsed = At(Taken).records
    <3>1. Taken \in 0 .. Len(file) /\ file \in String
      <4>1. /\ Taken \in Nat /\ size - start \in Nat /\ Taken + (size - start) <= Len(file)
            /\ file \in String
        BY ViewOfFile DEF ViewFeed, GeoInv, BytesInv
      <4>2. Len(file) \in Nat
        BY <4>1, LenProperties DEF String
      <4> QED
        BY <4>1, <4>2
    <3>2. Taken' + consumed' = Taken
      BY <1>2, <3>1
    <3>3. Fresh(At(Taken + consumed))' /\ (parsed = At(Taken + consumed).records)'
      BY <1>2, <1>4, <2>2, <3>2 DEF Fresh
    <3>4. file' \in String /\ (Taken + consumed)' \in 0 .. Len(file')
      BY <1>2, <3>1, <3>2
    <3>5. (FileText(fields, base) = <<>>)'
      <4>1. 1 .. Len(<<>>) = {}
        OBVIOUS
      <4> QED
        BY <4>1 DEF FileText
    <3>6. Held(FileText(fields, base), At(Taken + consumed))'
      BY <3>3, <3>5 DEF Held
    <3> QED
      BY <3>3, <3>4, <3>6 DEF Reads
  <2> QED
    BY <2>1, <2>2 DEF ViewRecords
<1> QED
  BY <1>1, <1>2, <1>3, <1>5, <1>6 DEF ViewRecords, InLoop

\* Where the loop asks for a refill the parser has read all the block has to show.
LEMMA ReadUpToRefill ==
  ASSUME SInv, GeoInv, ViewFeed, ViewRecords, InLoop("top"), NeedsRefill
  PROVE  consumed = size - start /\ Taken + consumed = base + size
<1>1. /\ consumed \in Nat /\ consumed >= size - start /\ size \in Nat /\ start \in 0 .. size
      /\ base \in Nat /\ Taken = base + start
  BY DEF SInv, LoopInv, GeoInv, ViewTypes, BytesInv, ViewFeed, FileInv, Taken
<1>2. CASE fields = <<>>
  <2>1. consumed = 0
    BY <1>2 DEF ViewRecords, InLoop
  <2> QED
    BY <1>1, <2>1
<1>3. CASE fields # <<>>
  <2>1. consumed = size - start
    BY <1>3 DEF GeoInv, PlaceInv, BeforeRefill, AtTop
  <2> QED
    BY <1>1, <2>1
<1> QED
  BY <1>2, <1>3

\* At the end of the file the views still show the record, unless it is LastLineMoves:
\* a single byte is moved over others only.
LEMMA LastLineShown ==
  ASSUME FileInv, BytesInv, fields \in Views, Spans(fields, fields[1].from, size),
         Reads(base, Len(file)), base + size = Len(file),
         ~config.mapped_buffer /\ Taken # 0 => spent \/ HasNewline,
         UNCHANGED fields, \A i \in 0 .. size - 1 : data'[i] = data[i] \/ Overwritten(i)
  PROVE  Text(fields)' = FileText(fields, base) \/ LastLineMoves
<1> DEFINE first == fields[1].from
           n == Len(file)
<1>1. /\ size \in Nat /\ start \in 0 .. size /\ base \in Nat /\ n \in Nat
      /\ file \in String /\ Taken = base + start /\ n = base + size
  BY LenProperties DEF BytesInv, FileInv, Taken, String
<1>2. /\ fields \in Seq(View) /\ first \in Nat /\ Len(fields) \in Nat \ {0}
      /\ fields # <<>> /\ 1 \in 1 .. Len(fields)
  BY ViewsAreViews DEF Views
<1>3. base + first \in 0 .. n - 1 /\ OneLine(base + first, n)
  BY <1>2 DEF Reads
<1>4. \A k \in 1 .. Len(fields) :
        /\ fields[k].from \in Nat /\ first <= fields[k].from /\ behind(fields[k]) <= size
        /\ behind(fields[k]) \in Nat
  BY <1>1, <1>2, SpansAt
<1>5. Text(fields) = FileText(fields, base)
  BY <1>2, <1>4, TextIsFileText
<1> HIDE DEF n, first
<1>6. SUFFICES ASSUME ~LastLineMoves PROVE Text(fields)' = Text(fields)
  BY <1>5
<1>7. ASSUME NEW i \in first .. size - 1 PROVE data'[i] = data[i]
  <2>1. i \in 0 .. size - 1 /\ (data'[i] = data[i] \/ Overwritten(i))
    BY <1>1, <1>2, <1>7
  <2>2. CASE Overwritten(i)
    <3>1. ~config.mapped_buffer /\ start \in 1 .. size - 1 /\ i < size - start
      BY <1>1, <2>1, <2>2 DEF Overwritten
    <3>2. Taken # 0 /\ ~spent
      BY <1>1, <3>1 DEF spent, buffer_empty, Stream!empty
    <3>3. PICK j \in 1 .. n : is_newline(file[j])
      BY <3>1, <3>2 DEF HasNewline, n
    <3>4. n \in 1 .. n /\ n - 1 \in 1 .. n /\ n \in base + first + 1 .. n /\ ~is_newline(file[n])
      <4>1. n \in base + first + 1 .. n /\ n >= 2
        BY <1>1, <1>2, <1>3, <3>1
      <4> QED
        BY <1>1, <1>3, <4>1 DEF OneLine
    <3>5. is_newline(file[n - 1])
      <4>1. n > 2 => is_newline(file[n - 1])
        BY <1>6, <3>1, <3>3, <3>4 DEF LastLineMoves, n
      <4>2. n = 2 => j = n - 1
        <5>1. j # n
          BY <3>3, <3>4
        <5> QED
          BY <3>3, <5>1
      <4> QED
        BY <1>1, <3>3, <3>4, <4>1, <4>2
    <3>6. n - 1 \notin base + first + 1 .. n
      BY <1>3, <3>5 DEF OneLine
    <3>7. first = size - 1
      BY <1>1, <1>2, <1>3, <3>6
    <3> QED
      BY <1>1, <1>7, <3>1, <3>7
  <2> QED
    BY <2>1, <2>2
<1>8. ASSUME NEW k \in 1 .. Len(fields), NEW i \in fields[k].from .. behind(fields[k]) - 1
      PROVE  data'[i] = data[i]
  <2>1. i \in first .. size - 1
    BY <1>1, <1>2, <1>4, <1>8
  <2> QED
    BY <1>7, <2>1
<1>9. \A k \in 1 .. Len(fields) :
        \A i \in fields[k].from .. behind(fields[k]) - 1 : data'[i] = data[i]
  BY <1>8
<1>10. ASSUME NEW views \in Seq(View), views = fields PROVE Text(views)' = Text(views)
  BY <1>9, <1>10, TextStays
<1> QED
  BY <1>2, <1>10 DEF Text, Shown

\* A refill moves bytes or brings bytes; the reader stands where it stood.
LEMMA RefillRecords ==
  ASSUME SInv, GeoInv, ViewFeed, ViewRecords, RefillBlock
  PROVE  ViewRecords'
<1>1. /\ InLoop("top") /\ NeedsRefill /\ refill /\ loop' = "refilled" /\ total < N
      /\ UNCHANGED <<parser_vars, reader_vars, need_to_compact_data, total>>
  BY DEF RefillBlock
<1>2. /\ pc' = "next" /\ status' = "idle"
      /\ UNCHANGED <<config, fields, pending_cr, consumed, parsed, outcome>>
  BY <1>1 DEF parser_vars, base_members, reader_vars, row_vars, InLoop
<1>3. BytesInv /\ StreamInv
  BY DEF GeoInv, SInv
<1>4. /\ consumed \in Nat /\ size \in Nat /\ start \in 0 .. size /\ N \in Nat
      /\ consumed = size - start /\ Taken + consumed = base + size /\ size - start < N
      /\ base \in Nat /\ Taken = base + start /\ Taken + consumed \in Nat
      /\ total >= size - start /\ total \in Nat /\ size <= N
  <2>1. /\ consumed \in Nat /\ size \in Nat /\ start \in 0 .. size /\ N \in Nat
        /\ base \in Nat /\ Taken = base + start /\ total >= size - start /\ total \in Nat
        /\ size <= N
    BY <1>1 DEF SInv, LoopInv, GeoInv, ViewTypes, BytesInv, ViewFeed, FileInv, Taken
  <2>2. consumed = size - start /\ Taken + consumed = base + size
    BY <1>1, ReadUpToRefill
  <2> QED
    BY <1>1, <2>1, <2>2
<1>5. /\ ViewFeed' /\ Taken' = Taken
      /\ reading' \in {"ok", "eof", "fail"}
      /\ reading' = "eof" => /\ AtEnd' /\ base + size = Len(file)
                             /\ \A i \in 0 .. size - 1 : data'[i] = data[i] \/ Overwritten(i)
      /\ reading' = "fail" => ~AtEnd'
      /\ spent => (AtEnd' <=> AtEnd)
  BY <1>1, <1>2, <1>3, <1>4, RefillFile
<1>6. /\ UNCHANGED <<file, N>>
      /\ config.mapped_buffer /\ reading' = "ok" => start # size
      /\ ~config.mapped_buffer /\ reading' = "ok" => bits = {}
  BY <1>1, <1>2, <1>3, RefillKeepsBytes
<1>7. spent => spent' /\ reading' # "ok"
  BY <1>1, <1>2, <1>3, SpentStaysSpent
<1>8. RowsRead' /\ (Done => Done' /\ spent)
  <2>1. RowsRead'
    BY <1>2, <1>6, RowsStay DEF ViewRecords
  <2>2. Done => Done' /\ spent
    BY <1>2, <1>5, <1>6, <1>7 DEF Done
  <2> QED
    BY <2>1, <2>2
<1>9. /\ outcome' = "end" => Done'
      /\ ~config.mapped_buffer' /\ Taken' # 0 => spent' \/ HasNewline'
      /\ fields' = <<>> => consumed' = 0
  <2>1. HasNewline' <=> HasNewline
    BY <1>2, <1>6, SameRecords
  <2> QED
    BY <1>1, <1>2, <1>5, <1>7, <1>8, <2>1 DEF ViewRecords, InLoop
<1>10. /\ reading' = "ok" =>
            /\ Reads(Taken - fields[1].from, Taken + consumed)'
            /\ GoesOn' => Taken' # 0 /\ Taken' + consumed' >= N'
       /\ reading' = "eof" => LastLine' \/ (fields' = <<>> /\ Done')
       /\ reading' \notin {"ok", "eof"} => Done' \/ ~AtEnd'
  <2>1. CASE fields = <<>> /\ Done
    BY <1>2, <1>7, <1>8, <2>1
  <2>2. CASE Reads(base, Taken + consumed)
    <3>1. ASSUME reading' = "ok"
          PROVE  /\ Reads(Taken - fields[1].from, Taken + consumed)'
                 /\ GoesOn' => Taken' # 0 /\ Taken' + consumed' >= N'
      <4>1. /\ (Taken + consumed)' = Taken + consumed
            /\ (Taken - fields[1].from)' = Taken - fields[1].from
        BY <1>2, <1>5
      <4>2. CASE fields = <<>>
        <5>1. Taken + consumed \in 0 .. Len(file) /\ file \in String
          BY <1>3, <2>2 DEF Reads, BytesInv
        <5>2. Reads(Taken - fields[1].from, Taken + consumed)
          BY <2>2, <4>2, <5>1, NothingHeld
        <5>3. ~GoesOn'
          BY <1>2, <4>2 DEF GoesOn
        <5>4. ASSUME NEW b, NEW t, Reads(b, t) PROVE Reads(b, t)'
          BY <1>2, <1>6, <5>4, ReadsOnAlone
        <5> QED
          BY <4>1, <5>2, <5>3, <5>4
      <4>3. CASE fields # <<>>
        <5> DEFINE first == fields[1].from
        <5>1. AtTop
          BY <1>1, <4>3 DEF GeoInv, PlaceInv, BeforeRefill
        <5>2. ~NoMoreToCome
          BY <1>1, <1>4, <1>6, <3>1 DEF NoMoreToCome
        <5>3. first = start /\ total = size - start
          BY <5>1, <5>2 DEF AtTop
        <5>4. Taken - first = base
          BY <1>4, <5>3
        <5>5. Reads(Taken - first, Taken + consumed)
          BY <2>2, <5>4
        <5>6. base + first \in 0 .. (Taken + consumed) - 1
          BY <2>2, <4>3 DEF Reads
        <5>7. ASSUME ~config.mapped_buffer PROVE Taken # 0 /\ Taken + consumed >= N
          <6>1. base = pos - size /\ (pos = 0 \/ size = N)
            BY <1>6, <3>1, <5>7 DEF ViewFeed, base
          <6>2. pos \in Nat
            BY <1>3, <5>7 DEF StreamInv
          <6>3. base + size >= 1 /\ pos = base + size
            BY <1>4, <5>3, <5>6, <6>1, <6>2
          <6>4. size = N
            BY <6>1, <6>3
          <6> QED
            BY <1>4, <6>3, <6>4
        <5>8. GoesOn' => Taken' # 0 /\ Taken' + consumed' >= N'
          BY <1>2, <1>5, <1>6, <5>7 DEF GoesOn
        <5>9. ASSUME NEW b, NEW t, Reads(b, t) PROVE Reads(b, t)'
          BY <1>2, <1>6, <5>9, ReadsOnAlone
        <5> QED
          BY <4>1, <5>5, <5>8, <5>9
      <4> QED
        BY <4>2, <4>3
    <3>2. ASSUME reading' = "eof" PROVE LastLine'
      <4>1. /\ Taken + consumed = Len(file) /\ base + size = Len(file) /\ file \in String
            /\ Reads(base, Len(file)) /\ Len(file) \in Nat
            /\ \A i \in 0 .. size - 1 : data'[i] = data[i] \/ Overwritten(i)
        BY <1>3, <1>4, <1>5, <2>2, <3>2 DEF BytesInv
      <4> DEFINE s == At(Len(file))
      <4>2. s \in Passes /\ Open(s) # <<>> /\ s' = s
        BY <1>2, <1>6, <4>1, AtBytes, OpenFields DEF Fields, At
      <4>3. parsed = s.records /\ Held(FileText(fields, base), s)
        BY <4>1 DEF Reads
      <4>4. CASE fields = <<>>
        <5>1. Fresh(s)
          BY <4>1, <4>4, NothingHeld
        <5> QED
          BY <1>2, <4>2, <4>3, <4>4, <5>1 DEF LastLine, Fresh
      <4>5. CASE fields # <<>>
        <5>1. AtTop /\ fields \in Seq(View) /\ fields \in Views
          BY <1>1, <4>5 DEF GeoInv, ViewTypes, PlaceInv, BeforeRefill, Views
        <5>2. Text(fields)' = FileText(fields, base) \/ LastLineMoves
          <6>1. ~config.mapped_buffer /\ Taken # 0 => spent \/ HasNewline
            BY DEF ViewRecords
          <6>2. FileInv /\ UNCHANGED fields /\ Spans(fields, fields[1].from, size)
            BY <1>2, <5>1 DEF ViewFeed, AtTop
          <6> QED
            BY <1>3, <4>1, <5>1, <6>1, <6>2, LastLineShown
        <5>3. FileText(fields, base) # <<>>
          BY <4>5, <5>1, NoFileText
        <5>4. ~Fresh(s) /\ FileText(fields, base) = Open(s)
          BY <4>3, <5>3 DEF Held
        <5>5. Len(fields) = Len(Open(s))
          <6>1. Spans(fields, fields[1].from, size) /\ fields[1].from \in Nat
            BY <5>1, ViewsAreViews DEF AtTop
          <6>2. base + fields[1].from \in Nat /\ base + size <= Len(file)
            BY <1>4, <4>1, <6>1
          <6>3. OnFile(fields, base)
            BY <1>4, <4>1, <5>1, <6>1, <6>2, SpansOnFile
          <6> QED
            BY <1>4, <4>1, <5>1, <5>4, <6>3, FileTextFields
        <5>6. LastLineMoves' <=> LastLineMoves
          BY <1>2, <1>6, SameRecords
        <5>7. Len(fields') = Len(Open(s)) /\ ~Fresh(s)' /\ Open(s)' = Open(s) /\ fields' # <<>>
              /\ parsed' = s'.records
          BY <1>2, <4>2, <4>3, <4>5, <5>4, <5>5 DEF Fresh, Open
        <5> QED
          BY <1>6, <5>2, <5>4, <5>6, <5>7 DEF LastLine
      <4> QED
        BY <4>4, <4>5
    <3> QED
      BY <1>5, <3>1, <3>2
  <2> QED
    BY <1>1, <2>1, <2>2 DEF ViewRecords
<1> QED
  BY <1>1, <1>2, <1>8, <1>9, <1>10 DEF ViewRecords, InLoop

\* shift_views() sets right where the views are, and only then are their bytes
\* consumed.
LEMMA ShiftRecords ==
  ASSUME SInv, GeoInv, ViewFeed, ViewRecords, ShiftViews
  PROVE  ViewRecords'
<1>1. /\ InLoop("refilled") /\ reading = "ok" /\ shift_views(start) /\ consume(consumed)
      /\ loop' = "parse" /\ pc' = "next" /\ status' = "idle" /\ consumed' = consumed
      /\ UNCHANGED <<config, pending_cr, parsed, outcome>>
  BY DEF ShiftViews, reader_vars, row_vars, InLoop
<1>2. /\ consumed \in Nat /\ BytesInv /\ FileInv /\ file \in String
      /\ start \in Nat /\ base \in Nat /\ Taken = base + start
  BY DEF GeoInv, ViewTypes, BytesInv, ViewFeed, FileInv, Taken
<1>3. /\ UNCHANGED <<file, N>> /\ base' = base /\ (AtEnd' <=> AtEnd) /\ (spent => spent')
      /\ consumed <= size - start => Taken' = Taken + consumed
  BY <1>1, <1>2, ConsumeStays
<1>4. RowsRead' /\ (Done => Done') /\ (HasNewline' <=> HasNewline)
  BY <1>1, <1>3, RowsStay, DoneStays, SameRecords DEF ViewRecords
<1>5. /\ Reads(Taken - fields[1].from, Taken + consumed)
      /\ GoesOn => Taken # 0 /\ Taken + consumed >= N
      /\ ~config.mapped_buffer /\ Taken # 0 => spent \/ HasNewline
      /\ fields = <<>> => consumed = 0
  BY <1>1 DEF ViewRecords, InLoop
<1>6. CASE fields = <<>>
  <2>1. fields' = <<>> /\ Taken' = Taken /\ consumed = 0
    <3>1. 1 .. Len(<<>>) = {}
      OBVIOUS
    <3>2. fields' = <<>>
      BY <1>1, <1>6, <3>1 DEF shift_views
    <3>3. consumed = 0 /\ size - start >= 0 /\ Taken + 0 = Taken
      BY <1>2, <1>5, <1>6 DEF BytesInv
    <3> QED
      BY <1>3, <3>2, <3>3
  <2>2. Reads(base, Taken)
    <3>1. Taken + consumed = Taken
      BY <1>2, <2>1
    <3>2. Reads(Taken - fields[1].from, Taken) /\ Taken \in 0 .. Len(file)
      BY <1>5, <3>1 DEF Reads
    <3> QED
      BY <1>2, <1>6, <3>2, NothingHeld
  <2>3. ASSUME NEW b, NEW t, Reads(b, t) PROVE Reads(b, t)'
    BY <1>1, <1>3, <1>6, <2>1, <2>3, ReadsOnAlone
  <2>4. Reads(base, Taken)' /\ ~GoesOn'
    BY <1>3, <2>1, <2>2, <2>3 DEF GoesOn
  <2>5. ~config.mapped_buffer' /\ Taken' # 0 => spent' \/ HasNewline'
    BY <1>1, <1>3, <1>4, <1>5, <2>1
  <2>6. outcome' = "end" => Done'
    BY <1>1, <1>4 DEF ViewRecords
  <2>7. fields' = <<>> => consumed' = 0
    BY <1>1, <2>1
  <2> QED
    BY <1>1, <1>4, <2>4, <2>5, <2>6, <2>7 DEF ViewRecords, InLoop
<1>7. CASE fields # <<>>
  <2> DEFINE first == fields[1].from
             b == Taken - first
  <2>1. AtRefilled /\ fields \in Views
    BY <1>1, <1>7 DEF GeoInv, PlaceInv, ViewTypes, Views
  <2>2. /\ consumed <= size - start /\ Taken' = Taken + consumed /\ first \in Nat
        /\ Spans(fields, first, first + consumed)
    BY <1>3, <2>1, ViewsAreViews DEF AtRefilled
  <2>3. /\ fields' \in Views /\ Len(fields') = Len(fields) /\ fields'[1].from = start
        /\ fields' = [k \in 1 .. Len(fields) |-> [fields[k] EXCEPT !.from = start + @ - first]]
    <3>1. first + consumed \in Int
      BY <1>2, <2>2
    <3>2. /\ fields' \in Views /\ Len(fields') = Len(fields)
          /\ Spans(fields', start, start + ((first + consumed) - first))
      BY <1>1, <1>2, <2>1, <2>2, <3>1, ShiftMoves
    <3> QED
      BY <1>1, <3>2 DEF Spans, shift_views
  <2>4. ASSUME NEW k \in 1 .. Len(fields)
        PROVE  /\ b + fields[k].from = base + fields'[k].from
               /\ b + behind(fields[k]) = base + behind(fields'[k])
    <3>1. fields'[k] = [fields[k] EXCEPT !.from = start + @ - first]
      BY <2>3, <2>4
    <3>2. fields[k] \in View /\ fields[k].from \in Nat /\ fields[k].len \in Nat
      BY <2>1, <2>4, ViewsAreViews
    <3>3. fields'[k].from = start + fields[k].from - first /\ fields'[k].len = fields[k].len
      BY <3>1, <3>2 DEF View
    <3> DEFINE from == fields[k].from
               len == fields[k].len
               moved == fields'[k].from
    <3>4. /\ from \in Nat /\ len \in Nat /\ moved = start + from - first /\ fields'[k].len = len
          /\ first \in Nat
      BY <2>2, <3>2, <3>3
    <3> HIDE DEF from, len, moved, first
    <3>5. b + from = base + moved /\ b + (from + len) = base + (moved + len)
      BY <1>2, <3>4
    <3> QED
      BY <3>4, <3>5 DEF behind, from, len, moved
  <2> HIDE DEF b
  <2>5. FileText(fields, b) = FileText(fields', base)
    <3>1. /\ fields \in Seq(View) /\ fields' \in Seq(View) /\ Len(fields) = Len(fields')
          /\ \A k \in 1 .. Len(fields) :
               /\ b + fields[k].from = base + fields'[k].from
               /\ b + behind(fields[k]) = base + behind(fields'[k])
      BY <2>1, <2>3, <2>4 DEF Views
    <3> QED
      BY <3>1, SameFileText
  <2>6. /\ Taken + consumed \in 0 .. Len(file) /\ parsed = At(Taken + consumed).records
        /\ Held(FileText(fields', base), At(Taken + consumed))
        /\ Taken \in 0 .. (Taken + consumed) - 1 /\ OneLine(Taken, Taken + consumed)
        /\ crlf => (pending_cr <=> file[Taken + consumed] = CR)
    <3>1. b + first = Taken
      BY <1>2, <2>2 DEF b
    <3>2. Reads(b, Taken + consumed)
      BY <1>5 DEF b
    <3> QED
      BY <1>7, <2>5, <3>1, <3>2 DEF Reads
  <2>7. Reads(base, Taken)'
    <3>1. base' + fields'[1].from = Taken
      BY <1>2, <1>3, <2>3
    <3>2. /\ At(Taken)' = At(Taken + consumed)
          /\ FileText(fields, base)' = FileText(fields', base)
          /\ OneLine(base + fields[1].from, Taken)' <=> OneLine(Taken, Taken + consumed)
      BY <1>1, <1>3, <2>2, <3>1 DEF At, FileText, behind, OneLine, is_newline
    <3>3. Held(FileText(fields, base), At(Taken))'
      BY <2>6, <3>2 DEF Held, Fresh, Open
    <3> QED
      BY <1>1, <1>3, <2>2, <2>6, <3>1, <3>2, <3>3 DEF Reads, crlf
  <2>8. GoesOn' => Taken' >= N'
    BY <1>1, <1>3, <1>5, <1>7, <2>2 DEF GoesOn
  <2>9. ~config.mapped_buffer' /\ Taken' # 0 => spent' \/ HasNewline'
    BY <1>1, <1>3, <1>4, <1>5, <1>7 DEF GoesOn
  <2>10. (outcome' = "end" => Done') /\ fields' # <<>>
    BY <1>1, <1>4, <2>3 DEF ViewRecords, Views
  <2> QED
    BY <1>1, <1>4, <2>7, <2>8, <2>9, <2>10 DEF ViewRecords, InLoop
<1> QED
  BY <1>6, <1>7

\* Behind a refill that brought nothing the bytes read are consumed: what is left is
\* spent.
LEMMA DrainedAtEnd ==
  ASSUME SInv, GeoInv, ViewFeed, InLoop("refilled"), reading # "ok", consume(consumed),
         config' = config
  PROVE  /\ spent' /\ UNCHANGED <<file, N, reading>> /\ (AtEnd' <=> AtEnd)
<1>1. /\ consumed \in Nat /\ BytesInv /\ FileInv /\ consumed >= size - start
      /\ config.mapped_buffer \/ bits # {}
  BY DEF GeoInv, ViewTypes, ViewFeed, SInv, LoopInv
<1>2. UNCHANGED <<file, N, reading, bits>> /\ (AtEnd' <=> AtEnd) /\ start' = size' /\ BytesInv'
  BY <1>1, ConsumeStays, ConsumeKeepsBytes
<1>3. spent'
  BY <1>1, <1>2 DEF spent, buffer_empty, Stream!empty, Mapped!empty, BytesInv
<1> QED
  BY <1>2, <1>3

\* next() returns with the reader given up.
LEMMA GivenUp ==
  ASSUME RowsRead', Done', pc' # "next", status' = "idle"
  PROVE  ViewRecords'
<1>1. spent'
  BY DEF Done
<1> QED
  BY <1>1, RecordsOutside

\* At the end of the file the record held is the last one.
LEMMA LastLineRecords ==
  ASSUME SInv, GeoInv, ViewFeed, ViewRecords, ~config.has_quoting, RefilledAtEof
  PROVE  ViewRecords'
<1>1. /\ InLoop("refilled") /\ reading = "eof" /\ consume(consumed) /\ config' = config
      /\ UNCHANGED parser_vars /\ status' = "idle"
      /\ IF fields # <<>> THEN SaveRecord(fields, Text(fields)) ELSE ReturnFalse
  BY DEF RefilledAtEof, parser_vars, InLoop
<1>2. spent' /\ UNCHANGED <<file, N, config>> /\ (AtEnd' <=> AtEnd) /\ AtEnd
  BY <1>1, DrainedAtEnd DEF ViewFeed, FileInv
<1>3. /\ AllRecords(config, file)' = AllRecords(config, file)
      /\ LastLineMoves' <=> LastLineMoves
  BY <1>2, SameRecords
<1>4. file \in String /\ parsed \in Seq(Seq(String)) /\ Len(file) \in Nat
  BY LenProperties DEF GeoInv, BytesInv, RowTypes, String
<1> DEFINE s == At(Len(file))
           records == AllRecords(config, file)
<1>5. /\ s \in Passes /\ Unquoted(s) /\ s.mode # "bad" /\ Left(s) = Open(s)
      /\ records = IF Fresh(s) THEN s.records ELSE Append(s.records, Open(s))
  <2>1. Unquoted(s)
    BY <1>4, PlainAt
  <2>2. s.mode # "bad" /\ s.mode # "closed_cr"
    BY <2>1 DEF Unquoted
  <2> QED
    BY <1>4, <2>1, <2>2, RecordsAtEnd DEF Left
<1>6. LastLine \/ (fields = <<>> /\ Done)
  BY <1>1 DEF ViewRecords
<1>7. pc' # "next"
  BY <1>1 DEF SaveRecord, Accept, RejectSize, ReturnFalse, End
<1>8. CASE fields = <<>>
  <2>1. parsed' = parsed
    BY <1>1, <1>8 DEF ReturnFalse
  <2>2. RowsRead'
    BY <1>2, <2>1, RowsStay DEF ViewRecords
  <2>3. Len(parsed) = Len(records)
    <3>1. CASE LastLine
      BY <1>5, <1>8, <3>1 DEF LastLine
    <3>2. CASE Done
      BY <1>2, <3>2 DEF Done
    <3> QED
      BY <1>6, <3>1, <3>2
  <2>4. Done'
    BY <1>2, <1>3, <2>1, <2>3 DEF Done
  <2> QED
    BY <1>1, <1>7, <2>2, <2>4, GivenUp
<1>9. CASE fields # <<>>
  <2> DEFINE text == Text(fields)
  <2>1. /\ parsed = s.records /\ ~Fresh(s) /\ Len(fields) = Len(Open(s))
        /\ text = Open(s) \/ LastLineMoves
    BY <1>6, <1>9 DEF LastLine
  <2>2. parsed' = Append(parsed, text)
    BY <1>1, <1>9 DEF SaveRecord, Accept, RejectSize
  <2>3. text \in Seq(String) /\ Len(text) = Len(fields)
    <3>1. fields \in Seq(View) /\ ShowsBytes(fields)
      BY DEF GeoInv, ViewTypes
    <3>2. Len(fields) \in Nat /\ DOMAIN text = 1 .. Len(fields)
      BY <3>1, LenProperties DEF Text
    <3>3. text \in Seq(String)
      BY <3>1, TextOfViews
    <3> QED
      BY <3>2, <3>3, LenProperties
  <2> HIDE DEF text
  <2>4. /\ records = Append(parsed, Open(s)) /\ Len(parsed) \in Nat
        /\ Len(parsed') = Len(parsed) + 1 /\ Len(records) = Len(parsed) + 1
        /\ \A k \in 1 .. Len(parsed) : parsed'[k] = parsed[k] /\ records[k] = parsed[k]
        /\ parsed'[Len(parsed) + 1] = text /\ records[Len(parsed) + 1] = Open(s)
    <3>1. Open(s) \in Seq(String) /\ records = Append(parsed, Open(s))
      BY <1>5, <2>1, LeftIsRow
    <3> QED
      BY <1>4, <2>2, <2>3, <3>1, RowAppended, AppendProperties
  <2>5. ASSUME NEW k \in 1 .. Len(parsed')
        PROVE  \/ parsed'[k] = records[k]
               \/ LastLineMoves /\ k = Len(records) /\ Len(parsed'[k]) = Len(records[k])
    <3>1. CASE k \in 1 .. Len(parsed)
      BY <2>4, <3>1
    <3>2. CASE k = Len(parsed) + 1
      BY <2>1, <2>3, <2>4, <3>2
    <3> QED
      BY <2>4, <2>5, <3>1, <3>2
  <2>6. RowsRead'
    BY <1>3, <2>4, <2>5 DEF RowsRead
  <2>7. Done'
    BY <1>2, <1>3, <2>4 DEF Done
  <2> QED
    BY <1>1, <1>7, <2>6, <2>7, GivenUp
<1> QED
  BY <1>8, <1>9

\* A stream that failed brings nothing more.
LEMMA FailedRecords ==
  ASSUME SInv, GeoInv, ViewFeed, ViewRecords, RefillFailed
  PROVE  ViewRecords'
<1>1. /\ InLoop("refilled") /\ reading \notin {"ok", "eof"} /\ consume(consumed)
      /\ config' = config /\ status' = "idle" /\ ReturnFalse
  BY DEF RefillFailed, parser_vars, InLoop
<1>2. spent' /\ UNCHANGED <<file, N, config, parsed>> /\ (AtEnd' <=> AtEnd) /\ pc' # "next"
  BY <1>1, DrainedAtEnd DEF ReturnFalse, End
<1>3. RowsRead'
  BY <1>2, RowsStay DEF ViewRecords
<1>4. Done \/ ~AtEnd
  BY <1>1 DEF ViewRecords
<1>5. Done'
  BY <1>2, <1>4 DEF Done
<1> QED
  BY <1>1, <1>2, <1>3, <1>5, GivenUp

\* Where parse() is called the views show what has been read up to the unread bytes,
\* and a record that goes on was no shorter than the block.
LEMMA ReadsAtParse ==
  ASSUME SInv, GeoInv, ViewFeed, ViewRecords,
         InLoop("parse") \/ (InLoop("top") /\ ~NeedsRefill)
  PROVE  /\ Reads(base, Taken) /\ ParsesAt(base, start, Taken)
         /\ fields # <<>> /\ size - start # 0 => ~config.mapped_buffer /\ Taken >= N
<1>1. /\ Taken \in Nat /\ file \in String /\ pc = "next" /\ status # "complete"
      /\ fields \in Seq(View) /\ pending_cr \in BOOLEAN /\ incomplete_last_read \in BOOLEAN
  BY ViewOfFile DEF ViewFeed, GeoInv, BytesInv, ViewTypes, InLoop
<1>2. InLoop("top") /\ ~NeedsRefill => fields = <<>> /\ consumed = 0 /\ ~Done
  <2> SUFFICES ASSUME InLoop("top"), ~NeedsRefill PROVE fields = <<>> /\ consumed = 0 /\ ~Done
    OBVIOUS
  <2>1. fields = <<>>
    BY DEF GeoInv, PlaceInv, BeforeRefill, AtTop, NeedsRefill
  <2>2. consumed = 0
    BY <2>1 DEF ViewRecords, InLoop
  <2>3. ~Done
    BY DEF Done, spent, NeedsRefill
  <2> QED
    BY <2>1, <2>2, <2>3
<1>3. Reads(base, Taken) /\ (GoesOn => Taken >= N)
  <2>1. CASE InLoop("parse")
    BY <2>1 DEF ViewRecords
  <2>2. CASE InLoop("top") /\ ~NeedsRefill
    <3>1. Reads(base, Taken + consumed) /\ Taken + consumed = Taken
      BY <1>1, <1>2, <2>2 DEF ViewRecords
    <3> QED
      BY <1>2, <2>2, <3>1 DEF GoesOn
  <2> QED
    BY <2>1, <2>2
<1>4. fields # <<>> => AtParse /\ incomplete_last_read
  BY <1>1, <1>2 DEF GeoInv, PlaceInv
<1>5. ReadyFor(start)
  BY <1>1, <1>4 DEF ReadyFor, AtParse, GeoInv, PlaceInv
<1>6. /\ ShowsRecord(base, Taken)
      /\ fields # <<>> => (crlf => (pending_cr <=> file[Taken] = CR))
  BY <1>1, <1>3 DEF Reads, ShowsRecord
<1>7. fields # <<>> /\ size - start # 0 => ~config.mapped_buffer /\ Taken >= N
  BY <1>3, <1>4 DEF AtParse, GoesOn, GeoInv, BytesInv
<1> QED
  BY <1>3, <1>5, <1>6, <1>7 DEF ParsesAt

\* parse() takes the rest of the block, or it completes a record.
LEMMA ParseRecords ==
  ASSUME SInv, GeoInv, ViewFeed, ViewRecords, ~config.has_quoting, ~CrSensitive, CallParse
  PROVE  ViewRecords'
<1> DEFINE n == size - start
<1>1. /\ InLoop("parse") \/ (InLoop("top") /\ ~NeedsRefill)
      /\ parse(buffer_view, start) /\ config' = config
      /\ UNCHANGED <<buffer_vars, parsed, pc, outcome>>
  BY DEF CallParse, parse, reader_vars, row_vars
<1>2. /\ Taken \in Nat /\ n \in Nat /\ Taken + n <= Len(file)
      /\ buffer_view = SubSeq(file, Taken + 1, Taken + n)
      /\ file \in String /\ N \in Nat /\ start \in Nat /\ base \in Int /\ base + start = Taken
      /\ start + n = size /\ BytesInv /\ FileInv
  <2>1. /\ Taken \in Nat /\ n \in Nat /\ Taken + n <= Len(file)
        /\ buffer_view = SubSeq(file, Taken + 1, Taken + n)
    BY ViewOfFile DEF ViewFeed, GeoInv
  <2>2. /\ file \in String /\ N \in Nat /\ start \in Nat /\ base \in Int /\ base + start = Taken
        /\ start + n = size /\ BytesInv /\ FileInv
    BY DEF GeoInv, BytesInv, ViewFeed, FileInv, Taken
  <2> QED
    BY <2>1, <2>2
<1>3. /\ UNCHANGED <<file, N, start, size, data>> /\ base' = base /\ Taken' = Taken
      /\ (AtEnd' <=> AtEnd) /\ (spent => spent')
  BY <1>1, FeedUnchanged, UnchangedKeepsStream DEF buffer_vars
<1>4. /\ Reads(base, Taken) /\ ParsesAt(base, start, Taken)
      /\ fields # <<>> /\ n # 0 => ~config.mapped_buffer /\ Taken >= N
  BY <1>1, ReadsAtParse
<1>5. /\ fields' \in Seq(View)
      /\ \A k \in 1 .. Len(fields') : behind(fields'[k]) <= start + consumed'
      /\ status' \in {"need_more_data", "complete"}
      /\ status' = "need_more_data" /\ fields' # <<>> =>
           Spans(fields', FirstByte(start), start + n)
  <2>1. /\ Len(buffer_view) = n /\ Len(buffer_view) \in Nat
        /\ buffer_view = <<>> <=> Len(buffer_view) = 0
    <3>1. Len(buffer_view) = n /\ (buffer_view = <<>> => Len(buffer_view) = 0)
      BY ViewLength DEF SInv
    <3>2. buffer_view \in Seq(Char)
      BY <1>2, ViewIsString DEF String
    <3> QED
      BY <1>2, <3>1, <3>2, EmptySeq, LenProperties
  <2>2. ReadyFor(start)
    BY <1>4 DEF ParsesAt
  <2> HIDE DEF n
  <2> QED
    BY <1>1, <1>2, <2>1, <2>2, ParseKeepsViews
<1> HIDE DEF n
<1>6. \/ /\ n = 0 /\ status' = "need_more_data" /\ consumed' = 0
         /\ UNCHANGED <<fields, incomplete_last_read, pending_cr>>
      \/ n # 0 /\ status' = "need_more_data" /\ consumed' = n /\ GoesOnAt(base, Taken, n)
      \/ CompletesAt(base, Taken, n)
  BY <1>1, <1>2, <1>4, ViewReads
<1>7. RowsRead' /\ (Done => Done') /\ (HasNewline' <=> HasNewline)
  BY <1>1, <1>3, RowsStay, DoneStays, SameRecords DEF ViewRecords
<1>8. /\ outcome' = "end" => Done'
      /\ ~config.mapped_buffer' /\ Taken' # 0 => spent' \/ HasNewline'
      /\ pc' = "next" /\ status' # "idle"
  BY <1>1, <1>3, <1>5, <1>7 DEF ViewRecords, InLoop
<1>9. CASE n = 0 /\ status' = "need_more_data" /\ consumed' = 0 /\ UNCHANGED <<fields, pending_cr>>
  <2>1. ASSUME NEW b, NEW t, Reads(b, t) PROVE Reads(b, t)'
    BY <1>1, <1>3, <1>9, <2>1, ReadsOnAlone
  <2>2. Taken' + consumed' = Taken
    BY <1>2, <1>3, <1>9
  <2>3. Reads(base, Taken + consumed)'
    BY <1>3, <1>4, <2>1, <2>2
  <2> QED
    BY <1>7, <1>8, <1>9, <2>3 DEF ViewRecords, InLoop
<1>10. CASE n # 0 /\ status' = "need_more_data" /\ consumed' = n /\ GoesOnAt(base, Taken, n)
  <2> DEFINE t == Taken + n
             first == FirstByte(start)
  <2>1. /\ t \in 0 .. Len(file) /\ Taken <= t - 1
    BY <1>2, <1>10, LenProperties DEF String
  <2>2. /\ fields' # <<>> /\ fields' \in Views /\ base + fields'[1].from \in Nat
        /\ FileText(fields', base) = Open(At(t)) /\ ~Fresh(At(t))
        /\ At(t).records = At(Taken).records /\ OneLine(Taken, t)
        /\ crlf => (pending_cr' <=> file[t] = CR)
    BY <1>10 DEF GoesOnAt, Views
  <2>3. fields'[1].from = first
    BY <1>5, <1>10, <2>2 DEF Spans
  <2>4. base + first \in 0 .. t - 1 /\ OneLine(base + first, t)
    <3>1. CASE fields = <<>>
      <4>1. base + first = Taken
        BY <1>2, <3>1 DEF FirstByte
      <4> QED
        BY <1>2, <2>1, <2>2, <4>1
    <3>2. CASE fields # <<>>
      <4>1. first = fields[1].from
        BY <3>2 DEF FirstByte
      <4>2. base + first \in 0 .. Taken - 1 /\ OneLine(base + first, Taken)
        BY <1>4, <3>2, <4>1 DEF Reads
      <4> HIDE DEF first
      <4>3. ASSUME NEW i \in base + first + 1 .. t PROVE ~is_newline(file[i])
        <5>1. i \in base + first + 1 .. Taken \/ i \in Taken + 1 .. t
          BY <1>2, <2>1, <4>2, <4>3
        <5> QED
          BY <2>2, <4>2, <5>1 DEF OneLine
      <4> QED
        BY <1>2, <2>1, <4>2, <4>3 DEF OneLine
    <3> QED
      BY <3>1, <3>2
  <2> HIDE DEF first
  <2>5. parsed = At(t).records
    BY <1>4, <2>2 DEF Reads
  <2>6. (Taken + consumed)' = t
    BY <1>3, <1>10
  <2> HIDE DEF t
  <2>7. Reads(base, Taken + consumed)'
    <3>1. /\ At(Taken + consumed)' = At(t)
          /\ FileText(fields, base)' = FileText(fields', base)
          /\ OneLine(base + fields[1].from, Taken + consumed)' <=> OneLine(base + first, t)
      BY <1>1, <1>3, <2>3, <2>6 DEF At, FileText, behind, OneLine, is_newline
    <3>2. Held(FileText(fields, base), At(Taken + consumed))'
      BY <2>2, <3>1 DEF Held, Fresh, Open
    <3> QED
      BY <1>1, <1>3, <2>1, <2>2, <2>3, <2>4, <2>5, <2>6, <3>1, <3>2 DEF Reads, crlf
  <2> QED
    BY <1>7, <1>8, <1>10, <2>2, <2>7 DEF ViewRecords, InLoop
<1>11. CASE CompletesAt(base, Taken, n)
  <2>1. /\ status' = "complete" /\ consumed' \in 1 .. n /\ Fresh(At(Taken + consumed'))
        /\ At(Taken + consumed').records = Append(At(Taken).records, FileText(fields', base))
        /\ parsed = At(Taken).records
    BY <1>4, <1>11 DEF CompletesAt, Reads
  <2>2. Text(fields)' = FileText(fields', base)
    <3>1. \A k \in 1 .. Len(fields') : behind(fields'[k]) <= size
      <4>1. ASSUME NEW k \in 1 .. Len(fields') PROVE behind(fields'[k]) \in Nat
        BY <1>5, <4>1, ViewAt
      <4>2. consumed' \in 1 .. n /\ start \in Nat /\ n \in Nat /\ start + n = size /\ size \in Nat
        BY <1>2, <2>1 DEF BytesInv
      <4>3. ASSUME NEW c \in 1 .. n PROVE start + c <= size /\ start + c \in Nat
        BY <4>2
      <4>4. start + consumed' <= size /\ start + consumed' \in Nat
        BY <4>2, <4>3
      <4> QED
        BY <1>5, <4>1, <4>2, <4>4
    <3>2. Text(fields') = FileText(fields', base)
      BY <1>2, <1>5, <3>1, TextIsFileText
    <3>3. \A view : Shown(view)' = Shown(view)
      BY <1>3 DEF Shown
    <3> QED
      BY <3>2, <3>3 DEF Text
  <2>3. /\ consumed' <= size' - start' /\ Fresh(At(Taken + consumed))'
        /\ (At(Taken + consumed).records = Append(parsed, Text(fields)))'
    <3>1. At(Taken + consumed)' = At(Taken + consumed')
      BY <1>1, <1>3 DEF At
    <3>2. consumed' <= size' - start'
      BY <1>2, <1>3, <2>1 DEF n
    <3> QED
      BY <1>1, <2>1, <2>2, <3>1, <3>2 DEF Fresh
  <2> QED
    BY <1>7, <1>8, <2>1, <2>3 DEF ViewRecords, InLoop
<1> QED
  BY <1>6, <1>9, <1>10, <1>11

\* A record that goes on stays where it is until the next refill.
LEMMA NeedMoreRecords ==
  ASSUME SInv, GeoInv, ViewFeed, ViewRecords, NeedMoreData
  PROVE  ViewRecords'
<1>1. /\ status = "need_more_data" /\ status' = "idle" /\ loop' = "top" /\ pc = "next"
      /\ UNCHANGED <<buffer_vars, config, fields, pending_cr, consumed, pc, parsed, outcome>>
  BY AnswerInNext DEF NeedMoreData, base_members, reader_vars, row_vars, SInv
<1>2. /\ UNCHANGED <<file, N>> /\ base' = base /\ Taken' = Taken
      /\ (AtEnd' <=> AtEnd) /\ (spent => spent')
  BY <1>1, FeedUnchanged, UnchangedKeepsStream
<1>3. RowsRead' /\ (Done => Done') /\ (HasNewline' <=> HasNewline)
  BY <1>1, <1>2, RowsStay, DoneStays, SameRecords DEF ViewRecords
<1>4. ASSUME NEW b, NEW t, Reads(b, t) PROVE Reads(b, t)'
  BY <1>1, <1>2, <1>4, ReadsOnAlone
<1>5. Reads(base, Taken + consumed)'
  <2>1. Reads(base, Taken + consumed)
    BY <1>1 DEF ViewRecords
  <2> QED
    BY <1>1, <1>2, <1>4, <2>1
<1> QED
  BY <1>1, <1>2, <1>3, <1>5 DEF ViewRecords, InLoop

\* A record is handed out behind the newline that ends it.
LEMMA CompleteRecords ==
  ASSUME SInv, GeoInv, ViewFeed, ViewRecords, ~config.has_quoting, Complete
  PROVE  ViewRecords'
<1>1. /\ status = "complete" /\ status' = "idle" /\ consume(consumed) /\ config' = config
      /\ SaveRecord(fields, Text(fields))
  BY DEF Complete
<1>2. /\ pc' = "ready" \/ pc' = "closed"
      /\ parsed' = Append(parsed, Text(fields)) /\ outcome' # "end"
  BY <1>1 DEF SaveRecord, Accept, RejectSize, End
<1>3. /\ consumed \in Nat /\ BytesInv /\ FileInv /\ file \in String /\ Taken \in Nat
      /\ size - start \in Nat /\ Taken + (size - start) <= Len(file) /\ Len(file) \in Nat
  BY ViewOfFile, LenProperties DEF GeoInv, ViewTypes, BytesInv, ViewFeed, String
<1>4. /\ consumed <= size - start /\ Fresh(At(Taken + consumed))
      /\ At(Taken + consumed).records = Append(parsed, Text(fields))
  BY <1>1 DEF ViewRecords
<1>5. UNCHANGED <<file, N, config>> /\ Taken' = Taken + consumed
  BY <1>1, <1>3, <1>4, ConsumeStays
<1> DEFINE t == Taken + consumed
<1>6. t \in 0 .. Len(file) /\ Fresh(At(t)) /\ At(t).records = parsed'
  BY <1>2, <1>3, <1>4
<1> HIDE DEF t
<1>7. At(Taken)' = At(t) /\ Taken' = t
  BY <1>5 DEF At, t
<1>8. RowsRead'
  <2>1. Prefix(parsed', AllRecords(config, file))
    BY <1>3, <1>6, RecordsGrow
  <2> QED
    BY <1>5, <2>1, SameRecords DEF Prefix, RowsRead
<1>9. Fresh(At(Taken))' /\ (parsed = At(Taken).records)'
  BY <1>6, <1>7 DEF Fresh
<1>10. Taken' # 0 => HasNewline'
  <2> SUFFICES ASSUME t # 0 PROVE HasNewline
    BY <1>5, <1>7, SameRecords
  <2>1. t - 1 \in Nat /\ t - 1 < Len(file) /\ (t - 1) + 1 = t /\ t \in 1 .. Len(file)
    BY <1>3, <1>6
  <2> QED
    BY ~config.has_quoting, <1>3, <1>6, <2>1, LastByte DEF HasNewline, is_newline
<1> QED
  BY <1>1, <1>2, <1>8, <1>9, <1>10, RecordsOutside

-----------------------------------------------------------------------------
(***************************************************************************)
(* All steps.                                                               *)
(***************************************************************************)
\* next() that has thrown in the middle of a line has done so for good.
LEMMA FailedStays ==
  ASSUME failed, [Next]_vars
  PROVE  failed'
<1>1. CASE Construct
  BY <1>1 DEF Construct, RejectQuoting, RejectConfig, RejectBuffer, ConstructWithoutHeader,
    ConstructWithHeader, Rejects, Constructs, row_vars
<1>2. CASE CallReader \/ UNCHANGED vars
  BY <1>2 DEF CallReader, CallNext, vars, reader_vars, row_vars
<1>3. CASE RefillBlock \/ ShiftViews \/ CallParse \/ NeedMoreData
  BY <1>3 DEF RefillBlock, ShiftViews, CallParse, NeedMoreData, reader_vars, row_vars
<1>4. CASE ThrowTooLarge
  BY <1>4 DEF ThrowTooLarge, ThrowInLine
<1>5. CASE RefilledAtEof \/ RefillFailed \/ Complete
  BY <1>5 DEF RefilledAtEof, RefillFailed, Complete, ReturnFalse, SaveRecord, Accept, RejectSize
<1> QED
  BY <1>1, <1>2, <1>3, <1>4, <1>5 DEF Next, NextStep

\* Where quoting is asked for the constructor throws.
LEMMA NoReaderStays ==
  ASSUME IInv, config.has_quoting, NoReader, [Next]_vars
  PROVE  NoReader'
<1>1. CASE Construct
  <2>1. RejectQuoting
    BY <1>1 DEF Construct
  <2> QED
    BY <2>1 DEF NoReader, RejectQuoting, Rejects, row_vars
<1>2. ~CallReader
  BY DEF NoReader, CallReader, CallNext
<1>3. ~NextStep
  <2>1. pc # "next" /\ status = "idle"
    BY DEF NoReader, IInv, ParserInv
  <2> QED
    BY <2>1 DEF NextStep, ThrowTooLarge, RefillBlock, ShiftViews, RefilledAtEof, RefillFailed,
      CallParse, NeedMoreData, Complete, InLoop
<1>4. CASE UNCHANGED vars
  BY <1>4 DEF NoReader, vars, reader_vars, row_vars
<1> QED
  BY <1>1, <1>2, <1>3, <1>4 DEF Next

\* The constructor and the user's calls.
LEMMA OutsideRecords ==
  ASSUME SInv, GeoInv, ViewFeed, ViewRecords, ~config.has_quoting, Construct \/ CallReader
  PROVE  ViewRecords'
<1>1. IInv /\ pc \in {"construct", "ready"} /\ status = "idle"
  BY DEF SInv, IInv, ParserInv, Construct, CallReader, CallNext, RejectQuoting, RejectConfig,
    RejectBuffer, ConstructWithoutHeader, ConstructWithHeader, Rejects, Constructs
<1>2. CASE \/ CallReader
           \/ ConstructWithHeader /\ base_reset /\ UNCHANGED <<config, status, loop_vars>>
  <2>1. /\ pc' = "next" /\ fields' = <<>> /\ consumed' = 0
        /\ UNCHANGED <<config, status, loop_vars, buffer_vars, parsed, outcome>>
    BY <1>2 DEF CallReader, CallNext, ConstructWithHeader, Constructs, base_reset, row_vars
  <2> QED
    BY <1>1, <2>1, CallBegins
<1>3. CASE /\ RejectConfig \/ RejectBuffer \/ ConstructWithoutHeader
           /\ UNCHANGED <<parser_vars, loop_vars>>
  <2>1. /\ pc' \in {"closed", "ready"} /\ (pc' = "ready" => outcome' = outcome)
        /\ pc' = "closed" => outcome' # "end"
        /\ UNCHANGED <<config, status, buffer_vars, parsed>>
    BY <1>3 DEF RejectConfig, RejectBuffer, ConstructWithoutHeader, Rejects, Constructs,
      parser_vars, row_vars
  <2>2. /\ UNCHANGED <<file, N>> /\ base' = base /\ Taken' = Taken
        /\ (AtEnd' <=> AtEnd) /\ (spent => spent')
    BY <2>1, FeedUnchanged, UnchangedKeepsStream
  <2>3. RowsRead' /\ (Done => Done') /\ (HasNewline' <=> HasNewline)
    BY <2>1, <2>2, RowsStay, DoneStays, SameRecords DEF ViewRecords
  <2>4. At(Taken)' = At(Taken)
    BY <2>1, <2>2 DEF At
  <2>5. /\ outcome' = "end" => Done'
        /\ Done' \/ (Fresh(At(Taken)) /\ parsed = At(Taken).records)'
        /\ ~config.mapped_buffer' /\ Taken' # 0 => spent' \/ HasNewline'
    BY <1>1, <2>1, <2>2, <2>3, <2>4 DEF ViewRecords, Fresh
  <2>6. pc' # "next" /\ status' = "idle"
    BY <1>1, <2>1
  <2> QED
    BY <2>3, <2>5, <2>6, RecordsOutside
<1> QED
  BY <1>2, <1>3 DEF Construct, RejectQuoting

LEMMA StutterRecords ==
  ASSUME ViewRecords, UNCHANGED vars
  PROVE  ViewRecords'
<1>1. /\ UNCHANGED <<buffer_vars, config, file, N, data, start, size, reading>>
      /\ UNCHANGED <<fields, pending_cr, consumed, status, pc, parsed, outcome, loop>>
  BY DEF vars, buffer_vars, parser_vars, base_members, reader_vars, row_vars, loop_vars
<1>2. /\ base' = base /\ Taken' = Taken /\ (AtEnd' <=> AtEnd) /\ (spent => spent')
  BY <1>1, FeedUnchanged, UnchangedKeepsStream
<1>3. RowsRead' /\ (Done => Done') /\ (HasNewline' <=> HasNewline)
  BY <1>1, <1>2, RowsStay, DoneStays, SameRecords DEF ViewRecords
<1>4. ASSUME NEW b, NEW t, Reads(b, t) PROVE Reads(b, t)'
  BY <1>1, <1>4, ReadsOnAlone
<1>5. LastLine => LastLine'
  <2>1. (LastLineMoves' <=> LastLineMoves) /\ At(Len(file))' = At(Len(file))
    BY <1>1, SameRecords DEF At
  <2>2. Text(fields)' = Text(fields)
    BY <1>1 DEF Text, Shown
  <2> QED
    BY <1>1, <2>1, <2>2 DEF LastLine, Fresh, Open
<1>6. /\ (Fresh(At(Taken)) /\ parsed = At(Taken).records)
           => (Fresh(At(Taken)) /\ parsed = At(Taken).records)'
      /\ (/\ Fresh(At(Taken + consumed))
          /\ At(Taken + consumed).records = Append(parsed, Text(fields)))
           => (/\ Fresh(At(Taken + consumed))
               /\ At(Taken + consumed).records = Append(parsed, Text(fields)))'
  <2>1. At(Taken)' = At(Taken) /\ At(Taken + consumed)' = At(Taken + consumed)
    BY <1>1, <1>2 DEF At
  <2>2. Text(fields)' = Text(fields)
    BY <1>1 DEF Text, Shown
  <2> QED
    BY <1>1, <2>1, <2>2 DEF Fresh
<1>7. \A where : InLoop(where)' <=> InLoop(where)
  BY <1>1 DEF InLoop
<1>8. /\ Reads(base, Taken + consumed) => Reads(base, Taken + consumed)'
      /\ Reads(base, Taken) => Reads(base, Taken)'
      /\ Reads(Taken - fields[1].from, Taken + consumed)
           => Reads(Taken - fields[1].from, Taken + consumed)'
  BY <1>1, <1>2, <1>4
<1>9. GoesOn' <=> GoesOn
  BY <1>1 DEF GoesOn
<1> QED
  BY <1>1, <1>2, <1>3, <1>5, <1>6, <1>7, <1>8, <1>9 DEF ViewRecords

LEMMA NextKeepsRecords ==
  ASSUME SInv, GeoInv, ViewFeed, RecordsInv, [Next]_vars
  PROVE  ViewFeed' /\ RecordsInv'
<1>1. ViewFeed' /\ UNCHANGED <<config, file, N>>
  BY NextKeepsFeed
<1>2. CrSensitive' <=> CrSensitive
  BY <1>1, SameRecords
<1>3. CASE failed \/ CrSensitive
  <2>1. failed' \/ CrSensitive'
    BY <1>2, <1>3, FailedStays
  <2> QED
    BY <1>1, <2>1 DEF RecordsInv
<1>4. CASE config.has_quoting /\ NoReader
  <2>1. NoReader' /\ config'.has_quoting
    BY <1>1, <1>4, NoReaderStays DEF SInv
  <2> QED
    BY <1>1, <2>1 DEF RecordsInv
<1>5. CASE ~CrSensitive /\ ~config.has_quoting /\ ViewRecords
  <2>1. CASE ThrowTooLarge
    <3>1. failed'
      BY <2>1 DEF ThrowTooLarge, ThrowInLine
    <3> QED
      BY <1>1, <3>1 DEF RecordsInv
  <2>2. CASE ~ThrowTooLarge
    <3>1. ViewRecords'
      BY <1>5, <2>2, OutsideRecords, RefillRecords, ShiftRecords, LastLineRecords, FailedRecords,
        ParseRecords, NeedMoreRecords, CompleteRecords, StutterRecords DEF Next, NextStep
    <3> QED
      BY <1>1, <1>5, <3>1 DEF RecordsInv
  <2> QED
    BY <2>1, <2>2
<1> QED
  BY <1>3, <1>4, <1>5 DEF RecordsInv

\* The views handed out show the records of the file, in order, wherever they were cut
\* and moved and whatever was read or refused between them; the last line of a stream
\* may have moved under its views; and at the end of the file no record is missing: for
\* every file that is not CrSensitive, every block size, vector width and alphabet.
THEOREM RecordsRead == Spec => []RecordsOfTheFile
<1>1. Init => ViewFeed /\ RecordsInv
  BY InitRecords
<1>2. SInv /\ GeoInv /\ (ViewFeed /\ RecordsInv) /\ [Next]_vars => (ViewFeed /\ RecordsInv)'
  BY NextKeepsRecords
<1>3. GeoInv /\ ViewFeed /\ RecordsInv => RecordsOfTheFile
  <2> SUFFICES ASSUME GeoInv, ViewFeed, RecordsInv, ~failed, ~CrSensitive
               PROVE  RecordsOfTheFile
    BY DEF RecordsOfTheFile
  <2>1. CASE config.has_quoting
    <3>1. parsed = <<>> /\ outcome # "end"
      BY <2>1 DEF RecordsInv, NoReader
    <3>2. AllRecords(config, file) \in Seq(Seq(String))
      BY RecordsAreRows DEF GeoInv, BytesInv
    <3>3. Len(AllRecords(config, file)) \in Nat /\ Len(parsed) = 0
      BY <3>1, <3>2, LenProperties
    <3> QED
      BY <3>1, <3>3 DEF RecordsOfTheFile
  <2>2. CASE ~config.has_quoting
    <3>1. RowsRead /\ (outcome = "end" => Done)
      BY <2>2 DEF RecordsInv, ViewRecords
    <3>2. reading = "eof" => AtEnd
      BY DEF ViewFeed, FileInv
    <3> QED
      BY <3>1, <3>2 DEF RowsRead, Done, RecordsOfTheFile
  <2> QED
    BY <2>1, <2>2
<1> QED
  BY <1>1, <1>2, <1>3, GeoInvariant, PTL DEF Spec

-----------------------------------------------------------------------------
(***************************************************************************)
(* Only long lines are refused.  `total` tells how many bytes of a record   *)
(* have been read, and those are bytes of the line behind the ones whose    *)
(* records parse() has completed.  That needs nothing of what the views     *)
(* show, so the exceptions of RecordsOfTheFile are none here.               *)
(***************************************************************************)
\* The lines of the file that end with its first i bytes.
LinesEnded(i) == Cardinality({j \in 1 .. i : is_newline(file[j])})

\* Behind byte t of the file the reader has read the first `total` bytes of the line
\* that follows those completed.
InLine(t) ==
  /\ t \in 0 .. Len(file) /\ total <= t
  /\ OneLine(t - total, t)
  /\ LinesEnded(t - total) = Len(parsed)

LinesRead ==
  /\ pc \in {"construct", "ready"} => spent \/ LinesEnded(Taken) = Len(parsed)
  /\ pc = "next" /\ status # "complete" => consumed <= total
  /\ status = "need_more_data" => InLine(Taken + consumed)
  /\ InLoop("top") => InLine(Taken + consumed) \/ (spent /\ total = 0)
  /\ InLoop("refilled") /\ reading = "ok" => InLine(Taken + consumed)
  /\ InLoop("parse") => InLine(Taken)
  /\ status = "complete" =>
       consumed <= size - start /\ LinesEnded(Taken + consumed) = Len(parsed) + 1

LinesInv ==
  /\ outcome = "RecordTooLargeError" => failed
  /\ failed \/ LinesRead

LEMMA LinesCount ==
  ASSUME NEW i \in Int
  PROVE  LinesEnded(i) \in Nat
<1>1. IsFiniteSet(1 .. i)
  BY FS_Interval
<1>2. {j \in 1 .. i : is_newline(file[j])} \in SUBSET (1 .. i)
  OBVIOUS
<1> QED
  BY <1>1, <1>2, FS_Subset, FS_CardinalityType DEF LinesEnded

LEMMA LinesSame ==
  ASSUME NEW a \in Nat, NEW b \in Nat, a <= b, OneLine(a, b)
  PROVE  LinesEnded(b) = LinesEnded(a)
<1>1. ASSUME NEW j \in 1 .. b, is_newline(file[j]) PROVE j \in 1 .. a
  BY <1>1 DEF OneLine
<1>2. {j \in 1 .. b : is_newline(file[j])} = {j \in 1 .. a : is_newline(file[j])}
  BY <1>1
<1> QED
  BY <1>2 DEF LinesEnded

LEMMA LinesNext ==
  ASSUME NEW t \in Nat, is_newline(file[t + 1])
  PROVE  LinesEnded(t + 1) = LinesEnded(t) + 1
<1> DEFINE ended == {j \in 1 .. t : is_newline(file[j])}
<1>1. {j \in 1 .. t + 1 : is_newline(file[j])} = ended \cup {t + 1}
  OBVIOUS
<1>2. IsFiniteSet(ended) /\ t + 1 \notin ended
  <2>1. IsFiniteSet(1 .. t) /\ ended \in SUBSET (1 .. t)
    BY FS_Interval
  <2> QED
    BY <2>1, FS_Subset
<1> HIDE DEF ended
<1>3. Cardinality(ended \cup {t + 1}) = Cardinality(ended) + 1
  BY <1>2, FS_AddElement
<1> QED
  BY <1>1, <1>3 DEF LinesEnded, ended

\* A line of which N bytes have been read has N bytes.
LEMMA FullLine ==
  ASSUME file \in String, NEW t, total \in Nat, InLine(t)
  PROVE  /\ BytesOfLine(Len(parsed) + 1) \in Nat
         /\ BytesOfLine(Len(parsed) + 1) >= total
<1> DEFINE a == t - total
           bytes == {i \in 1 .. Len(file) :
                       ~is_newline(file[i]) /\ LinesEnded(i) = (Len(parsed) + 1) - 1}
<1>1. /\ Len(file) \in Nat /\ t \in 0 .. Len(file) /\ a \in Nat /\ a <= t
      /\ OneLine(a, t) /\ LinesEnded(a) = Len(parsed) /\ t - a = total
  BY LenProperties DEF InLine, String
<1>2. LinesEnded(a) \in Nat
  BY <1>1, LinesCount
<1> HIDE DEF a
<1>3. ASSUME NEW i \in a + 1 .. t PROVE i \in bytes
  <2>1. i \in 1 .. Len(file) /\ a <= i /\ i \in Nat
    BY <1>1
  <2>2. OneLine(a, i) /\ ~is_newline(file[i])
    BY <1>1 DEF OneLine
  <2>3. LinesEnded(i) = LinesEnded(a)
    BY <1>1, <2>1, <2>2, LinesSame
  <2> QED
    BY <1>1, <1>2, <2>1, <2>2, <2>3
<1>4. IsFiniteSet(1 .. Len(file)) /\ bytes \in SUBSET (1 .. Len(file))
  BY <1>1, FS_Interval
<1>5. IsFiniteSet(bytes) /\ a + 1 .. t \in SUBSET bytes
  BY <1>3, <1>4, FS_Subset
<1>6. Cardinality(a + 1 .. t) = total
  <2>1. a + 1 \in Int /\ t \in Int /\ (a + 1 > t => total = 0) /\ t - (a + 1) + 1 = total
    BY <1>1
  <2> QED
    BY <2>1, FS_Interval
<1> HIDE DEF bytes
<1>7. Cardinality(bytes) \in Nat /\ Cardinality(bytes) >= total
  <2>1. Cardinality(bytes) \in Nat /\ Cardinality(a + 1 .. t) <= Cardinality(bytes)
    BY <1>5, FS_Subset, FS_CardinalityType
  <2> QED
    BY <1>6, <2>1
<1>8. BytesOfLine(Len(parsed) + 1) = Cardinality(bytes)
  BY DEF BytesOfLine, LinesEnded, bytes
<1> QED
  BY <1>7, <1>8

LEMMA LinesStay ==
  ASSUME UNCHANGED <<config, file>>
  PROVE  /\ \A i : LinesEnded(i)' = LinesEnded(i)
         /\ UNCHANGED <<total, parsed>> => \A t : InLine(t) => InLine(t)'
<1>1. ASSUME NEW i PROVE LinesEnded(i)' = LinesEnded(i)
  BY DEF LinesEnded, is_newline
<1>2. ASSUME UNCHANGED <<total, parsed>>, NEW t, InLine(t) PROVE InLine(t)'
  BY <1>2 DEF InLine, LinesEnded, OneLine, is_newline
<1> QED
  BY <1>1, <1>2

LEMMA InitLines == Init => LinesInv
<1> SUFFICES ASSUME Init PROVE LinesInv
  OBVIOUS
<1>1. /\ ReaderInit /\ pc = "construct" /\ status = "idle" /\ parsed = <<>>
      /\ outcome = "none"
  BY DEF Init, ReaderInit, ParserBaseInit
<1>2. Taken = 0
  BY <1>1 DEF ReaderInit, StreamInit, MappedInit, Stream!Init, Mapped!Init, Taken, base
<1>3. LinesEnded(0) = Len(parsed)
  <2>1. {j \in 1 .. 0 : is_newline(file[j])} = {}
    OBVIOUS
  <2>2. Len(parsed) = 0
    BY <1>1
  <2> QED
    BY <2>1, <2>2, FS_EmptySet DEF LinesEnded
<1> QED
  BY <1>1, <1>2, <1>3 DEF LinesInv, LinesRead, InLoop

\* A call that begins has read nothing.
LEMMA OutsideLines ==
  ASSUME SInv, GeoInv, ViewFeed, LinesRead, Construct \/ CallReader
  PROVE  LinesRead'
<1>1. /\ pc \in {"construct", "ready"} /\ status = "idle" /\ loop = "top" /\ total = 0
  BY DEF SInv, LoopInv, IInv, ParserInv, Construct, CallReader, CallNext, RejectQuoting,
    RejectConfig, RejectBuffer, ConstructWithoutHeader, ConstructWithHeader, Rejects, Constructs
<1>2. /\ UNCHANGED <<config, status, loop, total, buffer_vars, parsed>>
      /\ pc' = "next" => consumed' = 0
      /\ pc' \in {"ready", "next", "closed"}
  BY DEF Construct, CallReader, CallNext, RejectQuoting, RejectConfig, RejectBuffer,
    ConstructWithoutHeader, ConstructWithHeader, Rejects, Constructs, base_reset, loop_vars,
    parser_vars, row_vars
<1>3. UNCHANGED file /\ Taken' = Taken /\ (spent => spent')
  BY <1>2, FeedUnchanged, UnchangedKeepsStream DEF ViewFeed
<1>4. spent' \/ LinesEnded(Taken) = Len(parsed)
  BY <1>1, <1>3 DEF LinesRead
<1>5. \A i : LinesEnded(i)' = LinesEnded(i)
  BY <1>2, <1>3, LinesStay
<1>6. CASE pc' = "next"
  <2>1. Taken \in 0 .. Len(file) /\ file \in String
    <3>1. /\ Taken \in Nat /\ size - start \in Nat /\ Taken + (size - start) <= Len(file)
          /\ file \in String
      BY ViewOfFile DEF ViewFeed, GeoInv, BytesInv
    <3>2. Len(file) \in Nat
      BY <3>1, LenProperties DEF String
    <3> QED
      BY <3>1, <3>2
  <2>2. Taken' + consumed' = Taken /\ Taken - 0 = Taken /\ total' = 0
    BY <1>1, <1>2, <1>3, <1>6, <2>1
  <2>3. LinesEnded(Taken) = Len(parsed) => InLine(Taken + consumed)'
    <3>1. OneLine(Taken, Taken)'
      BY <1>3, <2>1 DEF OneLine
    <3>2. (Taken + consumed)' = Taken /\ ((Taken + consumed) - total)' = Taken
      <4>1. PICK t \in Nat : Taken' = t /\ Taken = t
        BY <1>3, <2>1
      <4>2. t + 0 = t /\ (t + 0) - 0 = t
        OBVIOUS
      <4>3. consumed' = 0 /\ total' = 0
        BY <1>2, <1>6, <2>2
      <4> QED
        BY <4>1, <4>2, <4>3
    <3>3. LinesEnded(Taken)' = LinesEnded(Taken)
      BY <1>3, <1>5
    <3> QED
      BY <1>2, <1>3, <2>1, <2>2, <3>1, <3>2, <3>3 DEF InLine
  <2> QED
    BY <1>1, <1>2, <1>4, <1>6, <2>2, <2>3 DEF LinesRead, InLoop
<1>7. CASE pc' # "next"
  <2>1. LinesEnded(Taken)' = LinesEnded(Taken)
    BY <1>3, <1>5
  <2> QED
    BY <1>1, <1>2, <1>4, <1>7, <2>1 DEF LinesRead, InLoop
<1> QED
  BY <1>6, <1>7

LEMMA RefillLines ==
  ASSUME SInv, GeoInv, ViewFeed, LinesRead, RefillBlock
  PROVE  LinesRead'
<1>1. /\ InLoop("top") /\ NeedsRefill /\ refill /\ loop' = "refilled" /\ total < N
      /\ pc' = "next" /\ status' = "idle"
      /\ UNCHANGED <<config, consumed, parsed, total>>
  BY DEF RefillBlock, parser_vars, base_members, reader_vars, row_vars, InLoop
<1>2. BytesInv /\ StreamInv /\ size - start < N
  <2>1. /\ total >= size - start /\ total \in Nat /\ N \in Nat /\ size \in Nat
        /\ start \in 0 .. size /\ BytesInv /\ StreamInv
    BY <1>1 DEF SInv, LoopInv, GeoInv, ViewTypes, BytesInv
  <2> QED
    BY <1>1, <2>1
<1>3. Taken' = Taken
  BY <1>1, <1>2, RefillFile
<1>4. UNCHANGED file
  BY <1>1, <1>2, RefillKeepsBytes
<1>5. consumed' <= total'
  BY <1>1 DEF LinesRead, InLoop
<1>6. reading' = "ok" => InLine(Taken + consumed)'
  <2> SUFFICES ASSUME reading' = "ok" PROVE InLine(Taken + consumed)'
    OBVIOUS
  <2>1. ~spent
    BY <1>1, <1>2, SpentStaysSpent
  <2>2. InLine(Taken + consumed)
    BY <1>1, <2>1 DEF LinesRead
  <2>3. \A t : InLine(t) => InLine(t)'
    BY <1>1, <1>4, LinesStay
  <2> QED
    BY <1>1, <1>3, <2>2, <2>3
<1> QED
  BY <1>1, <1>5, <1>6 DEF LinesRead, InLoop

LEMMA ShiftLines ==
  ASSUME SInv, GeoInv, ViewFeed, LinesRead, ShiftViews
  PROVE  LinesRead'
<1>1. /\ InLoop("refilled") /\ reading = "ok" /\ consume(consumed)
      /\ loop' = "parse" /\ pc' = "next" /\ status' = "idle"
      /\ UNCHANGED <<config, consumed, parsed, total>>
  BY DEF ShiftViews, reader_vars, row_vars, InLoop
<1>2. /\ consumed \in Nat /\ size \in Nat /\ start \in 0 .. size /\ BytesInv /\ FileInv
      /\ InLine(Taken + consumed) /\ consumed <= total
  BY <1>1 DEF GeoInv, ViewTypes, BytesInv, ViewFeed, LinesRead, InLoop
<1>3. consumed <= size - start
  <2>1. CASE fields = <<>>
    <3>1. total = 0
      BY <1>1, <2>1 DEF GeoInv, PlaceInv, InLoop
    <3> QED
      BY <1>2, <3>1
  <2>2. CASE fields # <<>>
    BY <1>1, <2>2 DEF GeoInv, PlaceInv, AtRefilled
  <2> QED
    BY <2>1, <2>2
<1>4. UNCHANGED file /\ Taken' = Taken + consumed
  BY <1>1, <1>2, <1>3, ConsumeStays
<1>5. InLine(Taken)'
  <2>1. \A t : InLine(t) => InLine(t)'
    BY <1>1, <1>4, LinesStay
  <2> QED
    BY <1>2, <1>4, <2>1
<1> QED
  BY <1>1, <1>2, <1>5 DEF LinesRead, InLoop

\* Whatever next() returns or throws but for a refusal leaves the lines counted or the
\* buffer spent.
LEMMA EndLines ==
  ASSUME SInv, GeoInv, ViewFeed, LinesRead, RefilledAtEof \/ RefillFailed
  PROVE  LinesRead'
<1>1. /\ InLoop("refilled") /\ reading # "ok" /\ consume(consumed) /\ config' = config
      /\ pc' # "next" /\ status' = "idle"
  BY DEF RefilledAtEof, RefillFailed, SaveRecord, Accept, RejectSize, ReturnFalse, End,
    parser_vars, InLoop
<1>2. spent'
  BY <1>1, DrainedAtEnd
<1> QED
  BY <1>1, <1>2 DEF LinesRead, InLoop

\* parse() is called behind the bytes that have been read of the line.
LEMMA LineAtParse ==
  ASSUME SInv, GeoInv, ViewFeed, LinesRead,
         InLoop("parse") \/ (InLoop("top") /\ ~NeedsRefill)
  PROVE  InLine(Taken)
<1>1. CASE InLoop("parse")
  BY <1>1 DEF LinesRead
<1>2. CASE InLoop("top") /\ ~NeedsRefill
  <2>1. fields = <<>> /\ total = 0
    BY <1>2 DEF GeoInv, PlaceInv, BeforeRefill, AtTop, NeedsRefill, InLoop
  <2>2. consumed = 0
    <3>1. consumed \in Nat /\ consumed <= total
      BY <1>2 DEF GeoInv, ViewTypes, LinesRead, InLoop
    <3> QED
      BY <2>1, <3>1
  <2>3. InLine(Taken + consumed)
    BY <1>2 DEF LinesRead, spent, NeedsRefill
  <2>4. Taken + 0 = Taken
    <3>1. Taken \in Nat
      BY ViewOfFile DEF ViewFeed, GeoInv
    <3> QED
      BY <3>1
  <2> QED
    BY <2>2, <2>3, <2>4
<1> QED
  BY <1>1, <1>2

\* parse() reads on to the end of the chunk or behind the newline.
LEMMA ParseLines ==
  ASSUME SInv, GeoInv, ViewFeed, LinesRead, CallParse
  PROVE  LinesRead'
<1> DEFINE n == size - start
           scanned == scan(buffer_view)
           p == scanned.newline_pos
<1>0. PICK t \in Nat : t = Taken
  BY ViewOfFile DEF ViewFeed, GeoInv
<1>1. /\ InLoop("parse") \/ (InLoop("top") /\ ~NeedsRefill)
      /\ parse(buffer_view, start) /\ config' = config /\ total' = total + consumed'
      /\ UNCHANGED <<buffer_vars, parsed, pc>> /\ pc = "next" /\ status' # "idle"
  BY DEF CallParse, parse, NoBytes, NoNewline, BlankLineAfterCr, BlankLine, Line, reader_vars,
    row_vars, InLoop
<1>2. /\ t \in Nat /\ n \in Nat /\ t + n <= Len(file) /\ Len(file) \in Nat
      /\ buffer_view = SubSeq(file, t + 1, t + n) /\ Len(buffer_view) = n
      /\ file \in String /\ BytesInv /\ FileInv /\ total \in Nat
  BY <1>0, ViewOfFile, ViewLength, LenProperties
     DEF ViewFeed, GeoInv, BytesInv, ViewTypes, String, SInv
<1>3. UNCHANGED <<file, start, size>> /\ Taken' = t
  BY <1>0, <1>1, <1>2, FeedUnchanged DEF buffer_vars
<1>4. InLine(t)
  BY <1>0, <1>1, LineAtParse
<1>5. /\ p = NoPosition => OneLine(t, t + n)
      /\ p # NoPosition => /\ p \in 0 .. n - 1 /\ file[t + p + 1] = newline(config.line_ending)
                           /\ OneLine(t, t + p)
  BY <1>2, ScannedStretch
<1>6. \/ n = 0 /\ consumed' = 0 /\ status' = "need_more_data"
      \/ p = NoPosition /\ consumed' = n /\ status' = "need_more_data"
      \/ p # NoPosition /\ consumed' = p + 1 /\ status' # "need_more_data"
  <2>1. buffer_view = <<>> => n = 0
    BY <1>2
  <2> HIDE DEF n
  <2> QED
    BY <1>1, <1>2, <2>1 DEF parse, NoBytes, NoNewline, EndsRecord, BlankLineAfterCr, BlankLine, Line
<1> HIDE DEF n, p, scanned
<1>7. /\ \A i : LinesEnded(i)' = LinesEnded(i)
      /\ \A i, j : OneLine(i, j)' <=> OneLine(i, j)
  BY <1>1, <1>3, LinesStay DEF OneLine, is_newline
<1>8. PICK a \in Nat : /\ a <= t /\ OneLine(a, t) /\ LinesEnded(a) = Len(parsed)
                       /\ a + total = t
  <2>1. t - total \in Nat /\ t - total <= t /\ (t - total) + total = t
    BY <1>2, <1>4 DEF InLine
  <2> QED
    BY <1>4, <2>1 DEF InLine
<1>9. ASSUME NEW c \in 0 .. n, consumed' = c
      PROVE  /\ consumed' <= total' /\ (Taken + consumed)' = t + c /\ total' <= t + c
             /\ ((Taken + consumed) - total)' = a /\ t + c \in 0 .. Len(file)
  <2>1. Taken' = t /\ total' = total + c
    BY <1>1, <1>3, <1>9
  <2>2. c <= total + c /\ (t + c) - (total + c) = a /\ t + c \in 0 .. Len(file) /\ total + c <= t + c
    BY <1>2, <1>8
  <2>3. (Taken + consumed)' = t + c /\ ((Taken + consumed) - total)' = (t + c) - (total + c)
    BY <1>9, <2>1
  <2> QED
    BY <1>9, <2>1, <2>2, <2>3
<1>10. ASSUME NEW c \in 0 .. n, OneLine(t, t + c) PROVE OneLine(a, t + c)
  <2>1. ASSUME NEW i \in a + 1 .. t + c PROVE ~is_newline(file[i])
    <3>1. i \in a + 1 .. t \/ i \in t + 1 .. t + c
      BY <1>2, <1>8, <2>1
    <3> QED
      BY <1>8, <1>10, <3>1 DEF OneLine
  <2> QED
    BY <2>1 DEF OneLine
<1>11. CASE status' = "need_more_data"
  <2>1. PICK c \in 0 .. n : consumed' = c /\ OneLine(t, t + c)
    <3>1. CASE n = 0 /\ consumed' = 0
      <4>1. OneLine(t, t + 0)
        BY <1>2 DEF OneLine
      <4> QED
        BY <1>2, <3>1, <4>1
    <3>2. CASE p = NoPosition /\ consumed' = n
      <4>1. n \in 0 .. n
        BY <1>2
      <4> QED
        BY <1>5, <3>2, <4>1
    <3> QED
      BY <1>6, <1>11, <3>1, <3>2
  <2>2. InLine(Taken + consumed)'
    <3>1. OneLine(a, t + c)' /\ (LinesEnded(a) = Len(parsed))'
      BY <1>1, <1>7, <1>8, <1>10, <2>1
    <3>2. /\ (Taken + consumed)' = t + c /\ total' <= t + c /\ ((Taken + consumed) - total)' = a
          /\ t + c \in 0 .. Len(file)
      BY <1>9, <2>1
    <3>3. /\ OneLine((Taken + consumed) - total, Taken + consumed)'
          /\ (LinesEnded((Taken + consumed) - total) = Len(parsed))'
      BY ONLY <3>1, <3>2 DEF OneLine, LinesEnded, is_newline
    <3> QED
      BY <1>3, <3>2, <3>3 DEF InLine
  <2>3. consumed' <= total'
    BY <1>9, <2>1
  <2> QED
    BY <1>1, <1>11, <2>2, <2>3 DEF LinesRead, InLoop
<1>12. CASE status' # "need_more_data"
  <2>1. p \in 0 .. n - 1 /\ consumed' = p + 1 /\ is_newline(file[t + p + 1]) /\ OneLine(t, t + p)
    BY <1>5, <1>6, <1>12 DEF is_newline
  <2>2. p + 1 \in 0 .. n /\ p \in 0 .. n /\ t + p \in Nat /\ a <= t + p
        /\ t + (p + 1) = (t + p) + 1
    BY <1>2, <1>8, <2>1
  <2>3. LinesEnded(t + (p + 1)) = Len(parsed) + 1
    <3>1. OneLine(a, t + p)
      BY <1>10, <2>1, <2>2
    <3>2. LinesEnded(t + p) = Len(parsed)
      BY <1>8, <2>2, <3>1, LinesSame
    <3>3. LinesEnded((t + p) + 1) = LinesEnded(t + p) + 1
      BY <2>1, <2>2, LinesNext
    <3> QED
      BY <2>2, <3>2, <3>3
  <2>4. consumed' <= total' /\ (Taken + consumed)' = t + (p + 1)
    BY <1>9, <2>1, <2>2
  <2>5. (LinesEnded(Taken + consumed) = Len(parsed) + 1)'
    BY <1>1, <1>7, <2>3, <2>4
  <2>6. (consumed <= size - start)'
    <3>1. p + 1 <= n
      BY <1>2, <2>1
    <3> QED
      BY <1>3, <2>1, <3>1 DEF n
  <2> QED
    BY <1>1, <1>12, <2>4, <2>5, <2>6 DEF LinesRead, InLoop
<1> QED
  BY <1>11, <1>12

\* The bytes read stay where they are until the next refill.
LEMMA NeedMoreLines ==
  ASSUME SInv, GeoInv, ViewFeed, LinesRead, NeedMoreData
  PROVE  LinesRead'
<1>1. /\ status = "need_more_data" /\ status' = "idle" /\ loop' = "top" /\ pc = "next"
      /\ UNCHANGED <<buffer_vars, config, consumed, pc, parsed, total>>
  BY AnswerInNext DEF NeedMoreData, base_members, reader_vars, row_vars, SInv
<1>2. UNCHANGED file /\ Taken' = Taken
  BY <1>1, FeedUnchanged DEF ViewFeed
<1>3. InLine(Taken + consumed) /\ consumed <= total
  BY <1>1 DEF LinesRead
<1>4. InLine(Taken + consumed)'
  <2>1. \A t : InLine(t) => InLine(t)'
    BY <1>1, <1>2, LinesStay
  <2>2. (Taken + consumed)' = Taken + consumed
    BY <1>1, <1>2
  <2> QED
    BY <1>3, <2>1, <2>2
<1> QED
  BY <1>1, <1>3, <1>4 DEF LinesRead, InLoop

\* A record is handed out or refused for its size behind the line's newline.
LEMMA CompleteLines ==
  ASSUME SInv, GeoInv, ViewFeed, LinesRead, Complete
  PROVE  LinesRead'
<1>1. /\ status = "complete" /\ status' = "idle" /\ consume(consumed) /\ config' = config
      /\ pc' # "next" /\ parsed' = Append(parsed, Text(fields))
  BY DEF Complete, SaveRecord, Accept, RejectSize, End
<1>2. /\ consumed <= size - start /\ LinesEnded(Taken + consumed) = Len(parsed) + 1
      /\ consumed \in Nat /\ BytesInv /\ FileInv
  BY <1>1 DEF LinesRead, GeoInv, ViewTypes, ViewFeed
<1>3. UNCHANGED file /\ Taken' = Taken + consumed
  BY <1>1, <1>2, ConsumeStays
<1>4. Len(parsed') = Len(parsed) + 1
  <2>1. Text(fields) \in Seq(String)
    BY TextOfViews DEF GeoInv, ViewTypes
  <2>2. parsed \in Seq(Seq(String))
    BY DEF GeoInv, RowTypes
  <2> QED
    BY <1>1, <2>1, <2>2, AppendProperties
<1>5. (LinesEnded(Taken) = Len(parsed))'
  <2>1. \A i : LinesEnded(i)' = LinesEnded(i)
    BY <1>1, <1>3, LinesStay
  <2> QED
    BY <1>2, <1>3, <1>4, <2>1
<1> QED
  BY <1>1, <1>5 DEF LinesRead, InLoop

LEMMA StutterLines ==
  ASSUME LinesRead, ViewFeed, UNCHANGED vars
  PROVE  LinesRead'
<1>1. /\ UNCHANGED <<buffer_vars, config, file, start, size, reading>>
      /\ UNCHANGED <<consumed, status, pc, parsed, loop, total>>
  BY DEF vars, buffer_vars, parser_vars, base_members, reader_vars, row_vars, loop_vars
<1>2. Taken' = Taken /\ (spent => spent')
  BY <1>1, FeedUnchanged, UnchangedKeepsStream DEF ViewFeed
<1>3. /\ \A i : LinesEnded(i)' = LinesEnded(i)
      /\ \A t : InLine(t) => InLine(t)'
  BY <1>1, LinesStay
<1>4. /\ InLine(Taken + consumed) => InLine(Taken + consumed)'
      /\ InLine(Taken) => InLine(Taken)'
      /\ LinesEnded(Taken)' = LinesEnded(Taken)
      /\ LinesEnded(Taken + consumed)' = LinesEnded(Taken + consumed)
  <2>1. (Taken + consumed)' = Taken + consumed
    BY <1>1, <1>2
  <2> QED
    BY <1>2, <1>3, <2>1
<1>5. \A where : InLoop(where)' <=> InLoop(where)
  BY <1>1 DEF InLoop
<1> QED
  BY <1>1, <1>2, <1>4, <1>5 DEF LinesRead

\* No other step throws RecordTooLargeError.
LEMMA OnlyThrowRefuses ==
  ASSUME [Next]_vars, ~ThrowTooLarge, outcome' = "RecordTooLargeError"
  PROVE  outcome = "RecordTooLargeError"
<1>1. CASE Construct
  BY <1>1 DEF Construct, RejectQuoting, RejectConfig, RejectBuffer, ConstructWithoutHeader,
    ConstructWithHeader, Rejects, Constructs
<1>2. CASE CallReader \/ UNCHANGED vars
  BY <1>2 DEF CallReader, CallNext, vars, reader_vars
<1>3. CASE RefillBlock \/ ShiftViews \/ CallParse \/ NeedMoreData
  BY <1>3 DEF RefillBlock, ShiftViews, CallParse, NeedMoreData, reader_vars
<1>4. CASE RefilledAtEof \/ RefillFailed \/ Complete
  BY <1>4 DEF RefilledAtEof, RefillFailed, Complete, ReturnFalse, SaveRecord, Accept, RejectSize,
    End
<1> QED
  BY <1>1, <1>2, <1>3, <1>4 DEF Next, NextStep

LEMMA NextKeepsLines ==
  ASSUME SInv, GeoInv, ViewFeed, LinesInv, [Next]_vars
  PROVE  LinesInv'
<1>1. CASE failed
  BY <1>1, FailedStays DEF LinesInv
<1>2. CASE ThrowTooLarge
  BY <1>2 DEF ThrowTooLarge, ThrowInLine, LinesInv
<1>3. CASE ~failed /\ ~ThrowTooLarge
  <2>1. outcome' # "RecordTooLargeError"
    BY <1>3, OnlyThrowRefuses DEF LinesInv
  <2>2. LinesRead'
    BY <1>3, OutsideLines, RefillLines, ShiftLines, EndLines, ParseLines, NeedMoreLines,
      CompleteLines, StutterLines DEF LinesInv, Next, NextStep
  <2> QED
    BY <2>1, <2>2 DEF LinesInv
<1> QED
  BY <1>1, <1>2, <1>3

\* A record is refused as too large only when its line has at least as many bytes as
\* the block: the bytes of the record that next() counts in `consumed`, over all the
\* chunks, are bytes of one line, the one behind those completed; for every file, block
\* size, vector width, configuration and read error.
THEOREM RefusesLong == Spec => RefusesOnlyLongLines
<1>1. Init => LinesInv /\ ViewFeed
  BY InitLines, InitRecords
<1>2. SInv /\ GeoInv /\ (LinesInv /\ ViewFeed) /\ [Next]_vars => (LinesInv /\ ViewFeed)'
  BY NextKeepsLines, NextKeepsFeed
<1>3. SInv /\ GeoInv /\ (LinesInv /\ ViewFeed) /\ [Next]_vars =>
        [outcome' = "RecordTooLargeError" /\ ~failed =>
           BytesOfLine(Len(parsed) + 1) >= N]_vars
  <2> SUFFICES ASSUME SInv, GeoInv, LinesInv, [Next]_vars,
                      outcome' = "RecordTooLargeError", ~failed
               PROVE  BytesOfLine(Len(parsed) + 1) >= N
    OBVIOUS
  <2>1. InLoop("top") /\ total >= N
    BY OnlyThrowRefuses DEF LinesInv, ThrowTooLarge
  <2>2. /\ total \in Nat /\ file \in String /\ N \in Nat \ {0}
    BY <2>1 DEF GeoInv, ViewTypes, BytesInv, SInv, BlockInv, InLoop
  <2>3. InLine(Taken + consumed)
    BY <2>1, <2>2 DEF LinesInv, LinesRead
  <2>4. BytesOfLine(Len(parsed) + 1) \in Nat /\ BytesOfLine(Len(parsed) + 1) >= total
    BY <2>2, <2>3, FullLine
  <2> QED
    BY <2>1, <2>2, <2>4
<1> QED
  BY <1>1, <1>2, <1>3, GeoInvariant, PTL DEF Spec, RefusesOnlyLongLines
=============================================================================
