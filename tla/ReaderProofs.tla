---------------------------- MODULE ReaderProofs ----------------------------
(***************************************************************************)
(* Proofs about Reader, for every set of configurations, every file, every  *)
(* block size and every alphabet: the size policies, the row counts and the *)
(* contract of RowSource, by the lemmas of ReaderBaseProofs; then what      *)
(* depends on the parsers: that the vectorised one does what the simple one *)
(* does, that fields are strings, and that no cursor leaves its chunk; and  *)
(* what the simple parser makes of a chunk, against the grammar.            *)
(***************************************************************************)
EXTENDS Reader, ReaderBaseProofs

\* parse() is at work or has an answer only inside next().
ParserInv == pc # "next" => status = "idle"

\* The row handed out last is the current one; before the first row there is
\* none.
RecordInv ==
  /\ pc = "construct" \/ in_ctor => current_record = <<>>
  /\ pc # "closed" /\ ~in_ctor =>
       current_record = IF line_number = 0 THEN <<>> ELSE accepted[Len(accepted)]

IInv == BaseInv /\ ParserInv /\ RecordInv

-----------------------------------------------------------------------------
(***************************************************************************)
(* What the parsers leave alone.                                            *)
(***************************************************************************)
\* parse() never writes the configuration.
LEMMA ParseKeepsConfig ==
  ASSUME NEW buffer, parse(buffer)
  PROVE  config' = config
<1>1. ASSUME Strict!Parse(buffer) PROVE config' = config
  BY <1>1 DEF Strict!Parse, Strict!ParseAfterCr, Strict!ParseAfterQuote, Strict!ParseOn
<1>2. ASSUME Lenient!Parse(buffer) PROVE config' = config
  BY <1>2 DEF Lenient!Parse, Lenient!ParseAfterCr, Lenient!ParseAfterQuote, Lenient!ParseOn
<1>3. ASSUME Simple!Parse(buffer) PROVE config' = config
  BY <1>3 DEF Simple!Parse
<1>4. ASSUME Simd!Parse(buffer) PROVE config' = config
  BY <1>4 DEF Simd!Parse
<1> QED
  BY <1>1, <1>2, <1>3, <1>4 DEF parse

\* A turn of a parser's loop happens inside parse() and keeps the configuration.
LEMMA ParseStepKeepsConfig ==
  ASSUME parse_step
  PROVE  config' = config /\ status = "parsing"
<1>1. ASSUME Strict!Step PROVE config' = config /\ status = "parsing"
  BY <1>1 DEF Strict!Step, Strict!NewlineEndsRecord, Strict!BareNewlineFails,
     Strict!DelimEndsField, Strict!QuoteOpensField, Strict!StrayQuoteFails,
     Strict!SkipByte, Strict!EscapedQuote, Strict!QuoteEndsChunk,
     Strict!QuoteThenCr, Strict!QuoteThenDelim, Strict!QuoteThenNewline,
     Strict!QuoteThenDataFails, Strict!ChunkEnds, Strict!OnQuoteInQuotes,
     Strict!ClosesBefore, Strict!OnByte
<1>2. ASSUME Lenient!Step PROVE config' = config /\ status = "parsing"
  BY <1>2 DEF Lenient!Step, Lenient!NewlineEndsRecord, Lenient!DelimEndsField,
     Lenient!EscapedQuote, Lenient!QuoteEndsChunk, Lenient!QuoteCloses,
     Lenient!QuoteOpensField, Lenient!SkipByte, Lenient!ChunkEnds, Lenient!OnByte
<1> QED
  BY <1>1, <1>2 DEF parse_step

-----------------------------------------------------------------------------
(***************************************************************************)
(* The ends of a call.                                                      *)
(***************************************************************************)
LEMMA EndKeepsInv ==
  ASSUME IInv, pc = "next", NEW result, End(result),
         config' = config, status' = "idle"
  PROVE  IInv'
<1>1. BaseInv'
  BY EndKeepsBase DEF IInv
<1>2. ParserInv'
  BY DEF ParserInv
<1>3. RecordInv'
  BY DEF IInv, RecordInv, End, BaseInv, ControlInv
<1> QED
  BY <1>1, <1>2, <1>3 DEF IInv

LEMMA SaveRecordKeepsInv ==
  ASSUME IInv, pc = "next", NEW text, SaveRecord(text, text),
         config' = config, status' = "idle"
  PROVE  IInv'
<1>1. CASE Accept(text, text)
  <2>1. BaseInv'
    BY <1>1, AcceptKeepsBase DEF IInv
  <2>2. ParserInv'
    BY DEF ParserInv
  <2>3. RecordInv'
    <3>1. accepted'[Len(accepted')] = text
      BY <1>1, AppendedRecord DEF IInv, BaseInv, Accept
    <3>2. pc' = "ready" /\ in_ctor' = FALSE
      BY <1>1 DEF Accept
    <3>3. CASE in_ctor
      BY <1>1, <3>2, <3>3 DEF Accept, RecordInv
    <3>4. CASE ~in_ctor
      <4>1. line_number' # 0 /\ current_record' = text
        BY <1>1, <3>4 DEF Accept, IInv, BaseInv, ControlInv
      <4> QED
        BY <3>1, <3>2, <4>1 DEF RecordInv
    <3> QED
      BY <3>3, <3>4
  <2> QED
    BY <2>1, <2>2, <2>3 DEF IInv
<1>2. CASE RejectSize(text)
  BY <1>2, EndKeepsInv DEF RejectSize
<1> QED
  BY <1>1, <1>2 DEF SaveRecord

-----------------------------------------------------------------------------
(***************************************************************************)
(* The invariant.                                                           *)
(***************************************************************************)
\* A step that changes neither the reader nor the configuration, and gives a
\* parser an answer only inside next().
LEMMA ReaderUnchangedKeepsInv ==
  ASSUME IInv, UNCHANGED reader_vars, config' = config,
         pc = "next" \/ status' = status
  PROVE  IInv'
<1>1. BaseInv'
  BY ReaderUnchangedKeepsBase DEF IInv
<1>2. ParserInv' /\ RecordInv'
  BY DEF reader_vars, row_vars, IInv, ParserInv, RecordInv
<1> QED
  BY <1>1, <1>2 DEF IInv

LEMMA InitInv == Init => IInv
<1> SUFFICES ASSUME Init PROVE IInv
  OBVIOUS
<1>1. BaseInv
  BY InitBase DEF Init
<1>2. ParserInv /\ RecordInv
  BY DEF Init, ReaderInit, ParserInit, ParserBaseInit, ParserInv, RecordInv
<1> QED
  BY <1>1, <1>2 DEF IInv

LEMMA ConstructKeepsInv == ASSUME IInv, Construct PROVE IInv'
<1>1. /\ RejectConfig \/ RejectBuffer \/ ConstructWithoutHeader \/ ConstructWithHeader
      /\ UNCHANGED <<config, status>>
  BY DEF Construct, parser_vars, locals
<1>2. BaseInv'
  BY <1>1, ConstructKeepsBase DEF IInv
<1>3. pc = "construct" /\ UNCHANGED <<accepted, line_number, current_record>>
  BY <1>1 DEF RejectConfig, RejectBuffer, Rejects, ConstructWithoutHeader,
     ConstructWithHeader, Constructs, row_vars
<1>4. ParserInv'
  BY <1>1, <1>3 DEF IInv, ParserInv
<1>5. RecordInv'
  BY <1>3 DEF IInv, RecordInv, BaseInv, ControlInv
<1> QED
  BY <1>2, <1>4, <1>5 DEF IInv

LEMMA CallReaderKeepsInv == ASSUME IInv, CallReader PROVE IInv'
<1>1. CallNext /\ UNCHANGED <<config, status>>
  BY DEF CallReader, locals
<1>2. BaseInv'
  BY <1>1, CallNextKeepsBase DEF IInv
<1>3. ParserInv' /\ RecordInv'
  BY <1>1 DEF CallNext, row_vars, IInv, ParserInv, RecordInv
<1> QED
  BY <1>2, <1>3 DEF IInv

LEMMA RefillKeepsInv == ASSUME IInv, RefillBuffer PROVE IInv'
<1>1. pc = "next" /\ status = "idle" /\ UNCHANGED <<config, status>>
  BY DEF RefillBuffer, parser_vars, locals
<1>2. CASE RefillBrings
  BY <1>1, <1>2, ReaderUnchangedKeepsInv DEF RefillBrings
<1>3. CASE RefillAtEof
  BY <1>1, <1>3, SaveRecordKeepsInv, EndKeepsInv DEF RefillAtEof, ReturnFalse
<1>4. CASE RefillFails
  BY <1>1, <1>4, EndKeepsInv DEF RefillFails, ReturnFalse
<1> QED
  BY <1>2, <1>3, <1>4 DEF RefillBuffer

\* parse() has an answer only inside next().
LEMMA AnswerInNext ==
  ASSUME IInv, NEW result \in ParseStatus, ParseReturns(result)
  PROVE  pc = "next" /\ config' = config /\ status' = "idle"
BY DEF ParseReturns, ParseStatus, IInv, ParserInv

LEMMA NextStepKeepsInv == ASSUME IInv, NextStep PROVE IInv'
<1>1. CASE RefillBuffer
  BY <1>1, RefillKeepsInv
<1>2. CASE CallParse
  BY <1>2, ParseKeepsConfig, ReaderUnchangedKeepsInv DEF CallParse
<1>3. CASE ParseStep
  <2>1. config' = config /\ status = "parsing" /\ UNCHANGED reader_vars
    BY <1>3, ParseStepKeepsConfig DEF ParseStep
  <2>2. pc = "next"
    BY <2>1 DEF IInv, ParserInv
  <2> QED
    BY <2>1, <2>2, ReaderUnchangedKeepsInv
<1>4. CASE NeedMoreData
  BY <1>4, AnswerInNext, ReaderUnchangedKeepsInv DEF NeedMoreData, ParseStatus
<1>5. CASE Complete
  BY <1>5, AnswerInNext, SaveRecordKeepsInv DEF Complete, ParseStatus
<1>6. CASE ParseFails
  BY <1>6, AnswerInNext, EndKeepsInv DEF ParseFails, ParseStatus, ThrowInLine
<1> QED
  BY <1>1, <1>2, <1>3, <1>4, <1>5, <1>6 DEF NextStep

LEMMA NextKeepsInv == IInv /\ [Next]_vars => IInv'
<1> SUFFICES ASSUME IInv, [Next]_vars PROVE IInv'
  OBVIOUS
<1>1. CASE Construct
  BY <1>1, ConstructKeepsInv
<1>2. CASE CallReader
  BY <1>2, CallReaderKeepsInv
<1>3. CASE NextStep
  BY <1>3, NextStepKeepsInv
<1>4. CASE UNCHANGED vars
  BY <1>4, ReaderUnchangedKeepsInv DEF vars, parser_vars, locals
<1> QED
  BY <1>1, <1>2, <1>3, <1>4 DEF Next

LEMMA InductiveInvariant == Spec => []IInv
BY InitInv, NextKeepsInv, PTL DEF Spec

\* Under every strict policy the rows handed out agree in size with the first
\* one that has fields, for every file, block size and configuration.
THEOREM RowsFit == Spec => []RowsFitThePolicy
<1>1. IInv => RowsFitThePolicy
  BY DEF IInv, BaseInv
<1> QED
  BY <1>1, InductiveInvariant, PTL

\* line_number() and current_record() tell the rows handed out, whatever
\* failed in between.
THEOREM RowsCounted == Spec => []LineNumberCountsRows
<1>1. IInv => LineNumberCountsRows
  BY DEF IInv, BaseInv, RecordInv, LineNumberCountsRows
<1> QED
  BY <1>1, InductiveInvariant, PTL

\* Until the constructor is done nothing has been accepted, parse() is at work
\* only inside next(), and a reader with a header that is ready has read it.
THEOREM Control == Spec => [](ControlInv /\ ParserInv)
<1>1. IInv => ControlInv /\ ParserInv
  BY DEF IInv, BaseInv
<1> QED
  BY <1>1, InductiveInvariant, PTL

-----------------------------------------------------------------------------
(***************************************************************************)
(* Reader implements RowSource.  The end is final because next() returns    *)
(* false only over a buffer that is spent, and because the next call starts *)
(* with a parser that holds no fields: it parses nothing, its refill brings *)
(* nothing, and there is no last record to hand out.                        *)
(***************************************************************************)
EndInv ==
  outcome = "end" /\ pc \in {"ready", "next"} =>
    /\ spent
    /\ pc = "next" => status = "idle" /\ fields = <<>>

SInv == IInv /\ StreamInv /\ EndInv

LEMMA InitSource == Init => SInv /\ Source!SourceInit
<1> SUFFICES ASSUME Init PROVE SInv /\ Source!SourceInit
  OBVIOUS
<1>1. ReaderInit /\ outcome # "end"
  BY DEF Init, ReaderInit
<1> QED
  BY <1>1, InitInv, InitStream, InitIsSourceInit DEF SInv, EndInv

LEMMA ConstructImplements ==
  ASSUME SInv, Construct
  PROVE  StreamInv' /\ EndInv' /\ SourceStep
<1>1. /\ RejectConfig \/ RejectBuffer \/ ConstructWithoutHeader \/ ConstructWithHeader
      /\ config' = config
  BY DEF Construct, parser_vars
<1>2. /\ UNCHANGED buffer_vars
      /\ pc' = "closed" \/ outcome' = "none"
  BY <1>1 DEF RejectConfig, RejectBuffer, Rejects, ConstructWithoutHeader,
     ConstructWithHeader, Constructs, SInv, IInv, BaseInv, ControlInv
<1>3. StreamInv' /\ EndInv'
  BY <1>1, <1>2, UnchangedKeepsStream DEF SInv, EndInv
<1> QED
  BY <1>1, <1>3, ConstructIsSourceStep DEF SInv, IInv, BaseInv

LEMMA CallImplements ==
  ASSUME SInv, CallReader
  PROVE  StreamInv' /\ EndInv' /\ SourceStep
<1>1. /\ CallNext /\ UNCHANGED <<config, status>> /\ fields' = <<>>
      /\ UNCHANGED <<buffer_vars, outcome>> /\ pc = "ready" /\ pc' = "next"
  BY DEF CallReader, CallNext, locals, reset, base_reset
<1>2. StreamInv' /\ (spent => spent')
  BY <1>1, UnchangedKeepsStream DEF SInv
<1>3. EndInv'
  BY <1>1, <1>2 DEF SInv, EndInv, IInv, ParserInv
<1> QED
  BY <1>1, <1>2, <1>3, StutterIsSourceStep DEF SInv, IInv, BaseInv

\* A refill whose answer ends the call.
LEMMA RefillImplements ==
  ASSUME SInv, RefillBuffer
  PROVE  StreamInv' /\ EndInv' /\ SourceStep
<1>1. /\ pc = "next" /\ buffer_empty /\ refill /\ config' = config
      /\ UNCHANGED parser_vars
  BY DEF RefillBuffer, parser_vars
<1>2. StreamInv' /\ (reading' # "ok" => spent')
  BY <1>1, RefillLeavesSpent DEF SInv
<1>3. outcome = "end" => spent /\ fields = <<>> /\ reading' # "ok"
  BY <1>1, SpentStaysSpent DEF SInv, EndInv
<1>4. ControlInv
  BY DEF SInv, IInv, BaseInv
<1>5. CASE RefillBrings
  <2>1. EndInv'
    BY <1>3, <1>5 DEF RefillBrings, EndInv, reader_vars
  <2> QED
    BY <1>2, <1>4, <1>5, <2>1, StutterIsSourceStep DEF RefillBrings
<1>6. CASE reading' # "ok" /\ ReturnFalse
  <2>1. pc' # "next" /\ End("end")
    BY <1>6 DEF ReturnFalse, End
  <2>2. EndInv'
    BY <1>2, <1>6, <2>1 DEF EndInv
  <2> QED
    BY <1>1, <1>2, <1>4, <2>1, <2>2, EndIsSourceStep
<1>7. CASE RefillAtEof /\ fields # <<>>
  <2>1. SaveRecord(fields, fields) /\ outcome # "end"
    BY <1>3, <1>7 DEF RefillAtEof
  <2>2. outcome' # "end"
    BY <2>1 DEF SaveRecord, Accept, RejectSize, End
  <2> QED
    BY <1>1, <1>2, <1>4, <2>1, <2>2, SaveIsSourceStep DEF EndInv
<1>8. CASE RefillAtEof /\ fields = <<>>
  BY <1>6, <1>8 DEF RefillAtEof
<1>9. CASE RefillFails
  BY <1>6, <1>9 DEF RefillFails
<1> QED
  BY <1>5, <1>7, <1>8, <1>9 DEF RefillBuffer

\* After the end there is nothing to parse.
LEMMA ParsingBeforeTheEnd ==
  ASSUME SInv, NextStep, ~RefillBuffer
  PROVE  pc = "next" /\ outcome # "end" /\ config' = config
<1> USE DEF SInv, IInv
<1>1. CASE CallParse
  BY <1>1, ParseKeepsConfig DEF CallParse, EndInv, spent
<1>2. CASE ParseStep
  BY <1>2, ParseStepKeepsConfig DEF ParseStep, EndInv, ParserInv
<1>3. ASSUME NEW result \in {"need_more_data", "complete", "fail"}, ParseReturns(result)
      PROVE  pc = "next" /\ outcome # "end" /\ config' = config
  BY <1>3 DEF ParseReturns, EndInv, ParserInv
<1> QED
  BY <1>1, <1>2, <1>3 DEF NextStep, NeedMoreData, Complete, ParseFails

LEMMA ParsingImplements ==
  ASSUME SInv, NextStep, ~RefillBuffer
  PROVE  StreamInv' /\ EndInv' /\ SourceStep
<1>1. pc = "next" /\ outcome # "end" /\ config' = config
  BY ParsingBeforeTheEnd
<1>2. StreamInv /\ ControlInv
  BY DEF SInv, IInv, BaseInv
<1>3. StreamInv'
  <2>1. UNCHANGED buffer_vars \/ consume(consumed)
    BY DEF NextStep, CallParse, ParseStep, NeedMoreData, Complete, ParseFails,
       ParseReturns
  <2> QED
    BY <1>1, <1>2, <2>1, UnchangedKeepsStream, ConsumeKeepsStream
<1>4. CASE CallParse \/ ParseStep \/ NeedMoreData
  <2>1. UNCHANGED reader_vars /\ outcome' = outcome
    BY <1>4 DEF CallParse, ParseStep, NeedMoreData, reader_vars
  <2> QED
    BY <1>1, <1>2, <1>3, <2>1, StutterIsSourceStep DEF EndInv
<1>5. CASE Complete
  <2>1. SaveRecord(fields, fields)
    BY <1>5 DEF Complete
  <2>2. outcome' # "end"
    BY <2>1 DEF SaveRecord, Accept, RejectSize, End
  <2> QED
    BY <1>1, <1>2, <1>3, <2>1, <2>2, SaveIsSourceStep DEF EndInv
<1>6. CASE ParseFails
  <2>1. End("ParseError")
    BY <1>6 DEF ParseFails, ThrowInLine
  <2>2. outcome' # "end"
    BY <2>1 DEF End
  <2> QED
    BY <1>1, <1>2, <1>3, <2>1, <2>2, EndIsSourceStep DEF EndInv, Source!NextErrors
<1> QED
  BY <1>4, <1>5, <1>6 DEF NextStep

LEMMA NextImplements == SInv /\ [Next]_vars => SInv' /\ SourceStep
<1> SUFFICES ASSUME SInv, [Next]_vars PROVE SInv' /\ SourceStep
  OBVIOUS
<1>1. IInv'
  BY NextKeepsInv DEF SInv
<1>2. CASE Construct
  BY <1>1, <1>2, ConstructImplements DEF SInv
<1>3. CASE CallReader
  BY <1>1, <1>3, CallImplements DEF SInv
<1>4. CASE NextStep
  BY <1>1, <1>4, RefillImplements, ParsingImplements DEF SInv
<1>5. CASE UNCHANGED vars
  <2>1. UNCHANGED <<buffer_vars, config, status, fields, outcome, pc>>
        /\ UNCHANGED reader_vars
    BY <1>5 DEF vars, parser_vars, locals, members, base_members, reader_vars
  <2>2. StreamInv' /\ EndInv'
    BY <2>1, UnchangedKeepsStream DEF SInv, EndInv
  <2> QED
    BY <1>1, <2>1, <2>2, StutterIsSourceStep DEF SInv, IInv, BaseInv
<1> QED
  BY <1>2, <1>3, <1>4, <1>5 DEF Next

\* A reader keeps the contract of RowSource: once next() has returned false no
\* call hands out a row or throws, and a call that fails counts nothing, for
\* every file, block size, configuration and alphabet.
THEOREM EndIsFinal == Spec => ImplementsSource
<1>1. SInv /\ [Next]_vars => SInv' /\ [Source!SourceNext]_(Source!source_vars)
  BY NextImplements DEF SourceStep
<1> QED
  BY <1>1, InitSource, PTL DEF Spec, ImplementsSource, Source!SourceSpec

-----------------------------------------------------------------------------
(***************************************************************************)
(* What the loops of add_field make of a raw field, byte by byte.           *)
(***************************************************************************)
\* The copies of the strict parser, with the byte they start from.
Copies == [text : String, pair : BOOLEAN]

NoCopy == [text |-> <<>>, pair |-> FALSE]

\* The copy of raw byte by byte.
CopiesOf(copy, raw) ==
  /\ copy \in [0 .. Len(raw) -> Copies]
  /\ copy[0] = NoCopy
  /\ \A i \in 1 .. Len(raw) : copy[i] = Strict!CopyByte(copy[i - 1], raw[i])

\* One byte more: the second quote of a pair adds nothing.
LEMMA StrictCopyByte ==
  ASSUME NEW copy \in Copies, NEW c \in Char
  PROVE  /\ Strict!CopyByte(copy, c) \in Copies
         /\ Len(Strict!CopyByte(copy, c).text) =
              IF copy.pair /\ c = quote_char THEN Len(copy.text) ELSE Len(copy.text) + 1
         /\ Strict!CopyByte(copy, c).pair = (c = quote_char /\ ~copy.pair)
<1>1. copy.text \in Seq(Char) /\ copy.pair \in BOOLEAN
  BY DEF Copies, String
<1>2. Append(copy.text, c) \in Seq(Char) /\ Len(Append(copy.text, c)) = Len(copy.text) + 1
  BY <1>1, AppendProperties
<1>3. CASE copy.pair /\ c = quote_char
  BY <1>1, <1>3 DEF Strict!CopyByte, Strict!is_quote, Copies, String
<1>4. CASE ~(copy.pair /\ c = quote_char)
  <2>1. Strict!CopyByte(copy, c) = [text |-> Append(copy.text, c), pair |-> c = quote_char]
    BY <1>4 DEF Strict!CopyByte, Strict!is_quote
  <2> QED
    BY <1>1, <1>2, <1>4, <2>1 DEF Copies, String
<1> QED
  BY <1>3, <1>4

\* The copy the recursion of add_field computes is the one stepped byte by byte.
LEMMA StrictCopies ==
  ASSUME NEW raw \in String
  PROVE  \E copy : CopiesOf(copy, raw) /\ Strict!Copy(raw) = copy[Len(raw)]
<1> DEFINE n == Len(raw)
           step == [i \in 1 .. n |-> [copy \in Copies |-> Strict!CopyByte(copy, raw[i])]]
           copy[i \in 0 .. n] == IF i = 0 THEN NoCopy ELSE Strict!CopyByte(copy[i - 1], raw[i])
<1>1. Strict!Copy(raw) = copy[n]
  BY DEF Strict!Copy, NoCopy
<1>2. NoCopy \in Copies /\ n \in Nat
  <2>1. <<>> \in Seq(Char)
    BY EmptySeq
  <2> QED
    BY <2>1, LenProperties DEF NoCopy, Copies, String
<1>3. \A i \in 1 .. n : raw[i] \in Char
  BY ElementOfSeq DEF String
<1> HIDE DEF n, copy
<1>4. step \in Steps(Copies, n)
  <2>1. ASSUME NEW i \in 1 .. n, NEW x \in Copies PROVE Strict!CopyByte(x, raw[i]) \in Copies
    BY <1>3, StrictCopyByte
  <2> QED
    BY <2>1 DEF Steps
<1>5. PICK f \in [0 .. n -> Copies] : Iterates(f, NoCopy, step, n)
  <2> HIDE DEF step
  <2> QED
    BY <1>2, <1>4, Recursion
<1>6. ASSUME NEW i \in 1 .. n PROVE f[i] = Strict!CopyByte(f[i - 1], raw[i])
  <2>1. f[i - 1] \in Copies
    BY <1>2
  <2> QED
    BY <1>5, <2>1 DEF Iterates
<1>7. f = [i \in 0 .. n |-> IF i = 0 THEN NoCopy ELSE Strict!CopyByte(f[i - 1], raw[i])]
  BY <1>5, <1>6 DEF Iterates
<1>8. copy = [i \in 0 .. n |-> IF i = 0 THEN NoCopy ELSE Strict!CopyByte(copy[i - 1], raw[i])]
  BY <1>7, Zenon DEF copy
<1>9. copy[0] = NoCopy /\ \A i \in 1 .. n : copy[i] = Strict!CopyByte(copy[i - 1], raw[i])
  BY <1>2, <1>8
<1> DEFINE good == {i \in 0 .. n : copy[i] \in Copies}
<1>10. 0 .. n \subseteq good
  <2>1. 0 \in good
    BY <1>2, <1>9
  <2>2. ASSUME NEW i \in 1 .. n, i - 1 \in good PROVE i \in good
    BY <1>3, <1>9, <2>2, StrictCopyByte
  <2> HIDE DEF good
  <2> QED
    BY <1>2, <2>1, <2>2, IndexInduction
<1>11. copy \in [0 .. n -> Copies]
  BY <1>8, <1>10
<1>12. CopiesOf(copy, raw)
  BY <1>9, <1>11 DEF CopiesOf, n
<1> QED
  BY <1>1, <1>12 DEF n

\* A copy goes on with the byte behind it.
LEMMA StrictCopyGrows ==
  ASSUME NEW raw \in String, NEW c \in Char
  PROVE  /\ Strict!Copy(raw) \in Copies
         /\ Strict!Copy(Append(raw, c)) = Strict!CopyByte(Strict!Copy(raw), c)
<1> DEFINE more == Append(raw, c)
           n == Len(raw)
<1>1. /\ more \in String /\ n \in Nat /\ Len(more) = n + 1
      /\ \A i \in 1 .. n : more[i] = raw[i]
      /\ more[n + 1] = c
  BY AppendProperties, LenProperties DEF String
<1>2. PICK f : CopiesOf(f, raw) /\ Strict!Copy(raw) = f[n]
  BY StrictCopies
<1>3. PICK g : CopiesOf(g, more) /\ Strict!Copy(more) = g[n + 1]
  <2> HIDE DEF more, n
  <2> QED
    BY <1>1, StrictCopies
<1> HIDE DEF more
<1> DEFINE same == {i \in 0 .. n : f[i] = g[i]}
<1>4. /\ f[0] = g[0]
      /\ \A i \in 1 .. n : f[i] = Strict!CopyByte(f[i - 1], raw[i])
      /\ \A i \in 1 .. n + 1 : g[i] = Strict!CopyByte(g[i - 1], more[i])
  BY <1>1, <1>2, <1>3 DEF CopiesOf
<1>5. 0 .. n \subseteq same
  <2>1. 0 \in same
    BY <1>1, <1>4
  <2>2. ASSUME NEW i \in 1 .. n, i - 1 \in same PROVE i \in same
    <3>1. i \in 1 .. n + 1 /\ more[i] = raw[i]
      BY <1>1
    <3> QED
      BY <1>4, <2>2, <3>1
  <2> HIDE DEF same, n
  <2> QED
    BY <1>1, <2>1, <2>2, IndexInduction
<1>6. n \in 0 .. n /\ n + 1 \in 1 .. n + 1 /\ (n + 1) - 1 = n
  BY <1>1
<1>7. f[n] = g[n] /\ g[n + 1] = Strict!CopyByte(g[n], c)
  BY <1>1, <1>4, <1>5, <1>6
<1>8. f[n] \in Copies
  BY <1>2, <1>6 DEF CopiesOf
<1> QED
  BY <1>2, <1>3, <1>7, <1>8 DEF more

\* Nothing to copy.
LEMMA StrictCopyEmpty == Strict!Copy(<<>>) = NoCopy
<1>1. <<>> \in String /\ Len(<<>>) = 0
  BY EmptySeq DEF String
<1>2. PICK f : CopiesOf(f, <<>>) /\ Strict!Copy(<<>>) = f[0]
  BY <1>1, StrictCopies
<1> QED
  BY <1>2 DEF CopiesOf

\* A field of the strict parser is a string.
LEMMA UnescapedIsString ==
  ASSUME NEW raw \in String
  PROVE  Strict!Unescaped(raw) \in String
<1>1. quote_char \in Char
  BY DEF Char
<1>2. Strict!Copy(raw).text \in String
  BY <1>1, StrictCopyGrows DEF Copies
<1> QED
  BY <1>2 DEF Strict!Unescaped

\* The copies of the lenient parser.
LenientCopies == [text : String, quoting : BOOLEAN, pair : BOOLEAN]

\* One byte more in the lenient pass.
LEMMA LenientCopyByte ==
  ASSUME NEW copy \in LenientCopies, NEW raw \in String, NEW i \in 1 .. Len(raw)
  PROVE  Lenient!CopyByte(copy, raw, i) \in LenientCopies
<1>1. copy.text \in Seq(Char) /\ copy.quoting \in BOOLEAN /\ copy.pair \in BOOLEAN
      /\ raw[i] \in Char
  BY ElementOfSeq DEF LenientCopies, String
<1>2. Append(copy.text, raw[i]) \in Seq(Char)
  BY <1>1, AppendProperties
<1>3. Lenient!CopyByte(copy, raw, i) \in
        { [copy EXCEPT !.pair = FALSE], [copy EXCEPT !.quoting = FALSE],
          [text |-> Append(copy.text, raw[i]), quoting |-> copy.quoting,
           pair |-> copy.quoting /\ raw[i] = quote_char] }
  BY DEF Lenient!CopyByte, Lenient!is_quote
<1>4. [copy EXCEPT !.pair = FALSE] \in LenientCopies
      /\ [copy EXCEPT !.quoting = FALSE] \in LenientCopies
  BY <1>1 DEF LenientCopies
<1>5. [text |-> Append(copy.text, raw[i]), quoting |-> copy.quoting,
       pair |-> copy.quoting /\ raw[i] = quote_char] \in LenientCopies
  BY <1>1, <1>2 DEF LenientCopies, String
<1> QED
  BY <1>3, <1>4, <1>5

\* The copy the recursion of add_field computes is the one stepped byte by byte.
UnquotesOf(copy, raw, in_quoting) ==
  /\ copy \in [0 .. Len(raw) -> LenientCopies]
  /\ copy[0] = [text |-> <<>>, quoting |-> in_quoting, pair |-> FALSE]
  /\ \A i \in 1 .. Len(raw) : copy[i] = Lenient!CopyByte(copy[i - 1], raw, i)

LEMMA UnquotedSteps ==
  ASSUME NEW raw \in String, NEW in_quoting \in BOOLEAN
  PROVE  \E copy : /\ UnquotesOf(copy, raw, in_quoting)
                   /\ Lenient!Unquoted(raw, in_quoting) = copy[Len(raw)].text
<1> DEFINE n == Len(raw)
           first == [text |-> <<>>, quoting |-> in_quoting, pair |-> FALSE]
           step == [i \in 1 .. n |->
                      [copy \in LenientCopies |-> Lenient!CopyByte(copy, raw, i)]]
           copy[i \in 0 .. n] == IF i = 0 THEN first ELSE Lenient!CopyByte(copy[i - 1], raw, i)
<1>1. Lenient!Unquoted(raw, in_quoting) = copy[n].text
  BY DEF Lenient!Unquoted
<1>2. first \in LenientCopies /\ n \in Nat
  <2>1. <<>> \in Seq(Char)
    BY EmptySeq
  <2> QED
    BY <2>1, LenProperties DEF LenientCopies, String
<1>3. step \in Steps(LenientCopies, n)
  <2>1. \A i \in 1 .. n : \A x \in LenientCopies :
          Lenient!CopyByte(x, raw, i) \in LenientCopies
    BY LenientCopyByte
  <2> HIDE DEF n
  <2> QED
    BY <2>1 DEF Steps
<1> HIDE DEF n, first, copy
<1>4. PICK f \in [0 .. n -> LenientCopies] : Iterates(f, first, step, n)
  <2> HIDE DEF step
  <2> QED
    BY <1>2, <1>3, Recursion
<1>5. ASSUME NEW i \in 1 .. n PROVE f[i] = Lenient!CopyByte(f[i - 1], raw, i)
  <2>1. f[i - 1] \in LenientCopies
    BY <1>2
  <2> QED
    BY <1>4, <2>1 DEF Iterates
<1>6. f = [i \in 0 .. n |-> IF i = 0 THEN first ELSE Lenient!CopyByte(f[i - 1], raw, i)]
  BY <1>4, <1>5 DEF Iterates
<1>7. copy = [i \in 0 .. n |-> IF i = 0 THEN first ELSE Lenient!CopyByte(copy[i - 1], raw, i)]
  BY <1>6, Zenon DEF copy
<1>8. copy[0] = first
      /\ \A i \in 1 .. n : copy[i] = Lenient!CopyByte(copy[i - 1], raw, i)
  BY <1>2, <1>7
<1> DEFINE good == {i \in 0 .. n : copy[i] \in LenientCopies}
<1>9. 0 .. n \subseteq good
  <2>1. 0 \in good
    BY <1>2, <1>8
  <2>2. ASSUME NEW i \in 1 .. n, i - 1 \in good PROVE i \in good
    BY <1>8, <2>2, LenientCopyByte DEF n
  <2> HIDE DEF good
  <2> QED
    BY <1>2, <2>1, <2>2, IndexInduction
<1>10. copy \in [0 .. n -> LenientCopies]
  BY <1>7, <1>9
<1>11. UnquotesOf(copy, raw, in_quoting)
  BY <1>8, <1>10 DEF UnquotesOf, n, first
<1> QED
  BY <1>1, <1>11 DEF n

\* A field of the lenient parser is a string.
LEMMA UnquotedIsString ==
  ASSUME NEW raw \in String, NEW in_quoting \in BOOLEAN
  PROVE  Lenient!Unquoted(raw, in_quoting) \in String
<1>1. PICK copy : /\ UnquotesOf(copy, raw, in_quoting)
                  /\ Lenient!Unquoted(raw, in_quoting) = copy[Len(raw)].text
  BY UnquotedSteps
<1>2. Len(raw) \in 0 .. Len(raw)
  BY LenProperties DEF String
<1> QED
  BY <1>1, <1>2 DEF UnquotesOf, LenientCopies

\* That copy looks at the byte behind a quote.  The same is told by a pass that
\* does not look ahead, but remembers a quote until the byte behind it comes; it
\* is where the grammar's pass stands, when the field began in that mode.
FieldModes == {"plain", "quoted", "closed"}
FieldPasses == [text : String, mode : FieldModes]

FieldByte(z, c) ==
  CASE z.mode = "plain"  -> [text |-> Append(z.text, c), mode |-> "plain"]
    [] z.mode = "quoted" -> IF c = quote_char
                            THEN [text |-> z.text, mode |-> "closed"]
                            ELSE [text |-> Append(z.text, c), mode |-> "quoted"]
    [] z.mode = "closed" -> [text |-> Append(z.text, c),
                             mode |-> IF c = quote_char THEN "quoted" ELSE "plain"]

FieldPass(raw, mode) ==
  LET pass[i \in 0 .. Len(raw)] ==
        IF i = 0 THEN [text |-> <<>>, mode |-> mode] ELSE FieldByte(pass[i - 1], raw[i])
  IN  pass[Len(raw)]

PassesOf(pass, raw, mode) ==
  /\ pass \in [0 .. Len(raw) -> FieldPasses]
  /\ pass[0] = [text |-> <<>>, mode |-> mode]
  /\ \A i \in 1 .. Len(raw) : pass[i] = FieldByte(pass[i - 1], raw[i])

LEMMA FieldByteIs ==
  ASSUME NEW z \in FieldPasses, NEW c \in Char
  PROVE  FieldByte(z, c) \in FieldPasses
<1>1. z.text \in Seq(Char) /\ z.mode \in FieldModes /\ z = [text |-> z.text, mode |-> z.mode]
  BY DEF FieldPasses, String
<1>2. Append(z.text, c) \in String
  BY <1>1, AppendProperties DEF String
<1>3. \E text \in {z.text, Append(z.text, c)} : \E mode \in FieldModes :
        FieldByte(z, c) = [text |-> text, mode |-> mode]
  <2>1. CASE z.mode = "plain"
    BY <2>1 DEF FieldByte, FieldModes
  <2>2. CASE z.mode = "quoted"
    BY <2>2 DEF FieldByte, FieldModes
  <2>3. CASE z.mode = "closed"
    BY <2>3 DEF FieldByte, FieldModes
  <2> QED
    BY <1>1, <2>1, <2>2, <2>3 DEF FieldModes
<1> QED
  BY <1>1, <1>2, <1>3 DEF FieldPasses, String

LEMMA FieldPassSteps ==
  ASSUME NEW raw \in String, NEW mode \in FieldModes
  PROVE  \E pass : PassesOf(pass, raw, mode) /\ FieldPass(raw, mode) = pass[Len(raw)]
<1> DEFINE n == Len(raw)
           first == [text |-> <<>>, mode |-> mode]
           step == [i \in 1 .. n |-> [z \in FieldPasses |-> FieldByte(z, raw[i])]]
           pass[i \in 0 .. n] == IF i = 0 THEN first ELSE FieldByte(pass[i - 1], raw[i])
<1>1. FieldPass(raw, mode) = pass[n]
  BY DEF FieldPass
<1>2. first \in FieldPasses /\ n \in Nat
  <2>1. <<>> \in Seq(Char)
    BY EmptySeq
  <2> QED
    BY <2>1, LenProperties DEF FieldPasses, String
<1>3. \A i \in 1 .. n : raw[i] \in Char
  BY ElementOfSeq DEF String
<1> HIDE DEF n, first, pass
<1>4. step \in Steps(FieldPasses, n)
  <2>1. ASSUME NEW i \in 1 .. n, NEW z \in FieldPasses PROVE FieldByte(z, raw[i]) \in FieldPasses
    BY <1>3, FieldByteIs
  <2> QED
    BY <2>1 DEF Steps
<1>5. PICK f \in [0 .. n -> FieldPasses] : Iterates(f, first, step, n)
  <2> HIDE DEF step
  <2> QED
    BY <1>2, <1>4, Recursion
<1>6. ASSUME NEW i \in 1 .. n PROVE f[i] = FieldByte(f[i - 1], raw[i])
  <2>1. f[i - 1] \in FieldPasses
    BY <1>2
  <2> QED
    BY <1>5, <2>1 DEF Iterates
<1>7. f = [i \in 0 .. n |-> IF i = 0 THEN first ELSE FieldByte(f[i - 1], raw[i])]
  BY <1>5, <1>6 DEF Iterates
<1>8. pass = [i \in 0 .. n |-> IF i = 0 THEN first ELSE FieldByte(pass[i - 1], raw[i])]
  BY <1>7, Zenon DEF pass
<1>9. pass[0] = first /\ \A i \in 1 .. n : pass[i] = FieldByte(pass[i - 1], raw[i])
  BY <1>2, <1>8
<1> DEFINE good == {i \in 0 .. n : pass[i] \in FieldPasses}
<1>10. 0 .. n \subseteq good
  <2>1. 0 \in good
    BY <1>2, <1>9
  <2>2. ASSUME NEW i \in 1 .. n, i - 1 \in good PROVE i \in good
    BY <1>3, <1>9, <2>2, FieldByteIs
  <2> HIDE DEF good
  <2> QED
    BY <1>2, <2>1, <2>2, IndexInduction
<1>11. pass \in [0 .. n -> FieldPasses]
  BY <1>8, <1>10
<1>12. PassesOf(pass, raw, mode)
  BY <1>9, <1>11 DEF PassesOf, n, first
<1> QED
  BY <1>1, <1>12 DEF n

LEMMA FieldPassEmpty ==
  ASSUME NEW mode \in FieldModes PROVE FieldPass(<<>>, mode) = [text |-> <<>>, mode |-> mode]
<1>1. <<>> \in String /\ Len(<<>>) = 0
  BY EmptySeq DEF String
<1>2. PICK f : PassesOf(f, <<>>, mode) /\ FieldPass(<<>>, mode) = f[0]
  BY <1>1, FieldPassSteps
<1> QED
  BY <1>2 DEF PassesOf

\* It goes on with the byte behind.
LEMMA FieldPassGrows ==
  ASSUME NEW raw \in String, NEW c \in Char, NEW mode \in FieldModes
  PROVE  /\ FieldPass(raw, mode) \in FieldPasses
         /\ FieldPass(Append(raw, c), mode) = FieldByte(FieldPass(raw, mode), c)
<1> DEFINE more == Append(raw, c)
           n == Len(raw)
<1>1. /\ more \in String /\ n \in Nat /\ Len(more) = n + 1
      /\ \A i \in 1 .. n : more[i] = raw[i]
      /\ more[n + 1] = c
  BY AppendProperties, LenProperties DEF String
<1>2. PICK f : PassesOf(f, raw, mode) /\ FieldPass(raw, mode) = f[n]
  BY FieldPassSteps
<1>3. PICK g : PassesOf(g, more, mode) /\ FieldPass(more, mode) = g[n + 1]
  <2> HIDE DEF more, n
  <2> QED
    BY <1>1, FieldPassSteps
<1> HIDE DEF more
<1> DEFINE same == {i \in 0 .. n : f[i] = g[i]}
<1>4. /\ f[0] = g[0]
      /\ \A i \in 1 .. n : f[i] = FieldByte(f[i - 1], raw[i])
      /\ \A i \in 1 .. n + 1 : g[i] = FieldByte(g[i - 1], more[i])
  BY <1>1, <1>2, <1>3 DEF PassesOf
<1>5. 0 .. n \subseteq same
  <2>1. 0 \in same
    BY <1>1, <1>4
  <2>2. ASSUME NEW i \in 1 .. n, i - 1 \in same PROVE i \in same
    <3>1. i \in 1 .. n + 1 /\ more[i] = raw[i]
      BY <1>1
    <3> QED
      BY <1>4, <2>2, <3>1
  <2> HIDE DEF same, n
  <2> QED
    BY <1>1, <2>1, <2>2, IndexInduction
<1>6. n \in 0 .. n /\ n + 1 \in 1 .. n + 1 /\ (n + 1) - 1 = n
  BY <1>1
<1>7. f[n] = g[n] /\ g[n + 1] = FieldByte(g[n], c)
  BY <1>1, <1>4, <1>5, <1>6
<1>8. f[n] \in FieldPasses
  BY <1>2, <1>6 DEF PassesOf
<1> QED
  BY <1>2, <1>3, <1>7, <1>8 DEF more

\* Where the copy stands at a byte, told by where that pass stands and whether a
\* quote follows.
Foresees(z, quote_follows) ==
  CASE z.mode = "plain"  -> [text |-> z.text, quoting |-> FALSE, pair |-> FALSE]
    [] z.mode = "quoted" -> [text |-> z.text, quoting |-> TRUE, pair |-> FALSE]
    [] z.mode = "closed" -> IF quote_follows
         THEN [text |-> Append(z.text, quote_char), quoting |-> TRUE, pair |-> TRUE]
         ELSE [text |-> z.text, quoting |-> FALSE, pair |-> FALSE]

LEMMA ForeseesOn ==
  ASSUME NEW z \in FieldPasses, NEW raw \in String, NEW i \in 1 .. Len(raw)
  PROVE  Lenient!CopyByte(Foresees(z, raw[i] = quote_char), raw, i)
           = Foresees(FieldByte(z, raw[i]), i < Len(raw) /\ raw[i + 1] = quote_char)
<1> DEFINE pairs == i < Len(raw) /\ raw[i + 1] = quote_char
           c == raw[i]
           copy == Foresees(z, c = quote_char)
           on == FieldByte(z, c)
<1>1. /\ z.mode \in FieldModes
      /\ Lenient!CopyByte(copy, raw, i) =
           IF copy.pair THEN [copy EXCEPT !.pair = FALSE]
           ELSE IF copy.quoting /\ c = quote_char /\ ~pairs THEN [copy EXCEPT !.quoting = FALSE]
                ELSE [text |-> Append(copy.text, c), quoting |-> copy.quoting,
                      pair |-> copy.quoting /\ c = quote_char]
  BY DEF FieldPasses, Lenient!CopyByte, Lenient!is_quote
<1> SUFFICES Lenient!CopyByte(copy, raw, i) = Foresees(on, pairs)
  OBVIOUS
<1>0. pairs \in BOOLEAN
  OBVIOUS
<1> HIDE DEF pairs, c
<1>2. CASE z.mode = "plain"
  <2>1. copy = [text |-> z.text, quoting |-> FALSE, pair |-> FALSE]
        /\ on = [text |-> Append(z.text, c), mode |-> "plain"]
    BY <1>2 DEF Foresees, FieldByte
  <2> HIDE DEF copy, on
  <2> QED
    BY <1>0, <1>1, <1>2, <2>1 DEF Foresees
<1>3. CASE z.mode = "quoted" /\ c # quote_char
  <2>1. copy = [text |-> z.text, quoting |-> TRUE, pair |-> FALSE]
        /\ on = [text |-> Append(z.text, c), mode |-> "quoted"]
    BY <1>3 DEF Foresees, FieldByte
  <2> HIDE DEF copy, on
  <2> QED
    BY <1>0, <1>1, <1>3, <2>1 DEF Foresees
<1>4. CASE z.mode = "quoted" /\ c = quote_char
  <2>1. copy = [text |-> z.text, quoting |-> TRUE, pair |-> FALSE]
        /\ on = [text |-> z.text, mode |-> "closed"]
    BY <1>4 DEF Foresees, FieldByte
  <2> HIDE DEF copy, on
  <2> QED
    BY <1>0, <1>1, <1>4, <2>1 DEF Foresees
<1>5. CASE z.mode = "closed" /\ c = quote_char
  <2>1. copy = [text |-> Append(z.text, quote_char), quoting |-> TRUE, pair |-> TRUE]
        /\ on = [text |-> Append(z.text, c), mode |-> "quoted"]
    BY <1>5 DEF Foresees, FieldByte
  <2> HIDE DEF copy, on
  <2> QED
    BY <1>0, <1>1, <1>5, <2>1 DEF Foresees
<1>6. CASE z.mode = "closed" /\ c # quote_char
  <2>1. copy = [text |-> z.text, quoting |-> FALSE, pair |-> FALSE]
        /\ on = [text |-> Append(z.text, c), mode |-> "plain"]
    BY <1>6 DEF Foresees, FieldByte
  <2> HIDE DEF copy, on
  <2> QED
    BY <1>0, <1>1, <1>6, <2>1 DEF Foresees
<1> QED
  BY <1>1, <1>2, <1>3, <1>4, <1>5, <1>6 DEF FieldModes

LEMMA UnquotedIsPass ==
  ASSUME NEW raw \in String, NEW in_quoting \in BOOLEAN
  PROVE  Lenient!Unquoted(raw, in_quoting)
           = FieldPass(raw, IF in_quoting THEN "quoted" ELSE "plain").text
<1> DEFINE n == Len(raw)
           mode == IF in_quoting THEN "quoted" ELSE "plain"
           ahead(i) == i < n /\ raw[i + 1] = quote_char
<1>1. mode \in FieldModes /\ n \in Nat
  BY LenProperties DEF FieldModes, String
<1>2. PICK copy : UnquotesOf(copy, raw, in_quoting)
                  /\ Lenient!Unquoted(raw, in_quoting) = copy[n].text
  BY UnquotedSteps
<1>3. PICK pass : PassesOf(pass, raw, mode) /\ FieldPass(raw, mode) = pass[n]
  <2> HIDE DEF mode
  <2> QED
    BY <1>1, FieldPassSteps
<1> DEFINE same == {i \in 0 .. n : copy[i] = Foresees(pass[i], ahead(i))}
<1>4. 0 .. n \subseteq same
  <2>1. 0 \in same
    <3>1. pass[0] = [text |-> <<>>, mode |-> mode]
          /\ copy[0] = [text |-> <<>>, quoting |-> in_quoting, pair |-> FALSE]
      BY <1>2, <1>3 DEF PassesOf, UnquotesOf
    <3>2. copy[0] = Foresees(pass[0], ahead(0))
      <4>1. CASE in_quoting = TRUE
        BY <3>1, <4>1 DEF Foresees
      <4>2. CASE in_quoting = FALSE
        <5>1. pass[0] = [text |-> <<>>, mode |-> "plain"]
              /\ copy[0] = [text |-> <<>>, quoting |-> FALSE, pair |-> FALSE]
          BY <3>1, <4>2
        <5> QED
          BY <5>1 DEF Foresees
      <4> QED
        BY <4>1, <4>2
    <3> QED
      BY <1>1, <3>2
  <2>2. ASSUME NEW i \in 1 .. n, i - 1 \in same PROVE i \in same
    <3>1. /\ copy[i] = Lenient!CopyByte(copy[i - 1], raw, i)
          /\ pass[i] = FieldByte(pass[i - 1], raw[i])
          /\ pass[i - 1] \in FieldPasses
      BY <1>1, <1>2, <1>3 DEF PassesOf, UnquotesOf
    <3>2. ahead(i - 1) = (raw[i] = quote_char)
      BY <1>1
    <3>3. copy[i - 1] = Foresees(pass[i - 1], raw[i] = quote_char)
      BY <2>2, <3>2
    <3> QED
      BY <1>1, <3>1, <3>3, ForeseesOn
  <2> HIDE DEF same, n
  <2> QED
    BY <1>1, <2>1, <2>2, IndexInduction
<1>5. copy[n] = Foresees(pass[n], FALSE) /\ pass[n].mode \in FieldModes
  <2>1. n \in same /\ pass[n] \in FieldPasses
    BY <1>1, <1>3, <1>4 DEF PassesOf
  <2>2. ahead(n) = FALSE
    BY <1>1
  <2>3. copy[n] = Foresees(pass[n], ahead(n))
    BY <2>1
  <2> HIDE DEF n, ahead
  <2> QED
    BY <2>1, <2>2, <2>3 DEF FieldPasses
<1>6. copy[n].text = pass[n].text
  BY <1>5 DEF Foresees, FieldModes
<1> QED
  BY <1>2, <1>3, <1>6

-----------------------------------------------------------------------------
(***************************************************************************)
(* The fields of a record and the pieces of a line.                         *)
(***************************************************************************)
\* Lengthening the last field leaves the others and their number alone.
LEMMA ExtendLastFields ==
  ASSUME NEW fs \in Fields, NEW piece \in String
  PROVE  LET extended == ExtendLast(fs, piece)
         IN  /\ extended \in Fields /\ Len(extended) = Len(fs)
             /\ \A k \in 1 .. Len(fs) :
                  extended[k] = IF k = Len(fs) THEN fs[k] \o piece ELSE fs[k]
<1>1. ExtendLast(fs, piece) = Extended(fs, piece)
  BY DEF ExtendLast, Extended
<1> QED
  BY <1>1, ExtendedFields

\* split() is the splitting byte by byte.
LEMMA SimpleSplit == \A str : Simple!split(str) = Split(str)
BY Zenon DEF Simple!split, Split, Simple!SplitByte, SplitByte, Simple!is_delim, Simple!ExtendLast,
   Extended

\* The last piece of a record goes on with the first of the next chunk.
LEMMA JoinFields ==
  ASSUME NEW fs \in Seq(String), NEW pieces \in Fields, NEW goes_on \in BOOLEAN
  PROVE  (IF goes_on /\ fs # <<>> THEN ExtendLast(fs, pieces[1]) \o Tail(pieces)
                                  ELSE fs \o pieces) \in Fields
<1>1. pieces \in Seq(String) /\ Len(pieces) \in Nat \ {0} /\ pieces[1] \in String
      /\ Len(fs) \in Nat
  BY FieldsAreStrings, LenProperties
<1>2. CASE goes_on /\ fs # <<>>
  <2>1. fs \in Fields
    BY <1>2 DEF Fields
  <2>2. ExtendLast(fs, pieces[1]) \in Fields
    BY <1>1, <2>1, ExtendLastFields
  <2>3. Tail(pieces) \in Seq(String)
    BY <1>1, HeadTailProperties, EmptySeq DEF Fields
  <2> DEFINE extended == ExtendLast(fs, pieces[1])
  <2> HIDE DEF extended
  <2>4. extended \in Seq(String) /\ Len(extended) \in Nat \ {0} /\ Len(Tail(pieces)) \in Nat
    BY <2>2, <2>3, FieldsAreStrings, LenProperties DEF extended
  <2>5. extended \o Tail(pieces) \in Seq(String)
        /\ Len(extended \o Tail(pieces)) = Len(extended) + Len(Tail(pieces))
    BY <2>3, <2>4, ConcatProperties
  <2>6. extended \o Tail(pieces) \in Fields
    BY <2>4, <2>5, EmptySeq DEF Fields
  <2> QED
    BY <1>2, <2>6 DEF extended
<1>3. CASE ~(goes_on /\ fs # <<>>)
  <2>1. fs \o pieces \in Seq(String) /\ Len(fs \o pieces) = Len(fs) + Len(pieces)
    BY <1>1, ConcatProperties
  <2>2. fs \o pieces \in Fields
    BY <1>1, <2>1, EmptySeq DEF Fields
  <2> QED
    BY <1>3, <2>2
<1> QED
  BY <1>2, <1>3

\* Taking the '\r' off the last field leaves as many fields.
LEMMA WithoutLastCharFields ==
  ASSUME NEW fs \in Seq(String)
  PROVE  WithoutLastChar(fs) \in Seq(String) /\ Len(WithoutLastChar(fs)) = Len(fs)
<1> DEFINE last == fs[Len(fs)]
           less == SubSeq(last, 1, Len(last) - 1)
<1>1. CASE fs # <<>> /\ last # <<>>
  <2>1. Len(fs) \in 1 .. Len(fs) /\ Len(fs) \in Nat
    BY <1>1, EmptySeq, LenProperties
  <2>2. last \in Seq(Char)
    BY <2>1, ElementOfSeq DEF String
  <2>3. Len(last) - 1 \in Nat /\ Len(last) - 1 <= Len(last)
    BY <1>1, <2>2, EmptySeq, LenProperties
  <2>4. less \in String
    <3>1. SubSeq(last, 0 + 1, Len(last) - 1) \in Seq(Char)
      BY <2>2, <2>3, StretchIsSeq
    <3> QED
      BY <3>1 DEF String
  <2>5. WithoutLastChar(fs) = [fs EXCEPT ![Len(fs)] = less]
    BY <1>1 DEF WithoutLastChar
  <2> HIDE DEF less, last
  <2> QED
    BY <2>1, <2>4, <2>5, ExceptSeq
<1>2. CASE ~(fs # <<>> /\ last # <<>>)
  BY <1>2 DEF WithoutLastChar
<1> QED
  BY <1>1, <1>2

-----------------------------------------------------------------------------
(***************************************************************************)
(* SimdParser does what SimpleParser does.                                  *)
(***************************************************************************)
\* SimdParser's copies of the operators of SimdScan.
LEMMA SimdOperators ==
  /\ Simd!NoPosition = NoPosition
  /\ \A buffer, c :
       Simd!scan_for_structural_chars(buffer, c) = scan_for_structural_chars(buffer, c)
  /\ \A buffer, position, ending :
       Simd!line_end(buffer, position, ending) = line_end(buffer, position, ending)
  /\ \A D, n : Simd!Cut(D, n) = Cut(D, n)
<1>1. Simd!NoPosition = NoPosition
  BY DEF Simd!NoPosition, NoPosition
<1>2. ASSUME NEW buffer, NEW c
      PROVE  Simd!scan_for_structural_chars(buffer, c) = scan_for_structural_chars(buffer, c)
  BY Zenon DEF Simd!scan_for_structural_chars, scan_for_structural_chars,
     Simd!ScanStop, ScanStop, Simd!NewlineVectors, NewlineVectors, Simd!Vectors, Vectors,
     Simd!mask, mask, Simd!ctz, ctz, Simd!Min, Min, Simd!NoPosition, NoPosition
<1>3. ASSUME NEW buffer, NEW position, NEW ending
      PROVE  Simd!line_end(buffer, position, ending) = line_end(buffer, position, ending)
  BY Zenon DEF Simd!line_end, line_end
<1>4. ASSUME NEW D, NEW n PROVE Simd!Cut(D, n) = Cut(D, n)
  BY Zenon DEF Simd!Cut, Cut, Simd!TakeByte, TakeByte
<1> QED
  BY <1>1, <1>2, <1>3, <1>4

\* Both look at the first newline.
LEMMA SimpleNewline ==
  ASSUME NEW buffer \in String
  PROVE  LET scanned == scan_for_structural_chars(buffer, newline(config.line_ending))
         IN  /\ Simple!newline_pos(buffer) = scanned.newline_pos + 1
             /\ scanned.newline_pos \in {NoPosition} \cup 0 .. Len(buffer) - 1
<1> DEFINE c == newline(config.line_ending)
           scanned == scan_for_structural_chars(buffer, c)
           found == {i \in 1 .. Len(buffer) : buffer[i] = c}
<1>1. Len(buffer) \in Nat
  BY LenProperties DEF String
<1>2. Finds(scanned, buffer, c)
  BY <1>1, VectorScan
<1>3. Simple!newline_pos(buffer) = IF found # {} THEN Min(found) ELSE 0
  BY DEF Simple!newline_pos, Simple!SelectInSeq, Simple!is_newline, Simple!newline, newline,
     Simple!Min, Min
<1>4. /\ found \subseteq Nat
      /\ found # {} => Min(found) \in found /\ \A y \in found : Min(found) <= y
  <2>1. found \subseteq Nat
    OBVIOUS
  <2> HIDE DEF found
  <2> QED
    BY <2>1, MinIsLeast
<1> HIDE DEF c, scanned
<1>5. \A i \in Int : i \in Places(buffer, c) <=> i + 1 \in found
  BY <1>1 DEF Places
<1>6. CASE scanned.newline_pos = NoPosition
  <2>1. found = {}
    <3>1. Places(buffer, c) = {}
      BY <1>1, <1>2, <1>6 DEF Finds, Places, NoPosition
    <3>2. ASSUME NEW i \in found PROVE FALSE
      <4>1. i - 1 \in Places(buffer, c)
        BY <1>1, <1>5
      <4> QED
        BY <3>1, <4>1
    <3> QED
      BY <3>2
  <2> QED
    BY <1>3, <1>6, <2>1 DEF NoPosition, scanned, c
<1>7. CASE scanned.newline_pos # NoPosition
  <2> DEFINE p == scanned.newline_pos
  <2>1. p \in Places(buffer, c) /\ \A i \in Places(buffer, c) : p <= i
    BY <1>2, <1>7 DEF Finds
  <2>2. p \in 0 .. Len(buffer) - 1
    BY <2>1 DEF Places
  <2> HIDE DEF p
  <2>3. p + 1 \in found
    BY <1>5, <2>1, <2>2
  <2>4. Min(found) \in found /\ \A y \in found : Min(found) <= y
    BY <1>4, <2>3
  <2> DEFINE least == Min(found)
  <2>5. least \in 1 .. Len(buffer) /\ least - 1 \in Places(buffer, c)
    BY <1>1, <1>5, <2>4
  <2>6. least <= p + 1 /\ p <= least - 1
    BY <2>1, <2>3, <2>4, <2>5
  <2> HIDE DEF found
  <2>7. least = p + 1
    BY <2>2, <2>5, <2>6
  <2> QED
    BY <1>3, <2>2, <2>3, <2>7 DEF p, scanned, c
<1> QED
  BY <1>6, <1>7

\* And at the same bytes before it.
LEMMA SimpleLine ==
  ASSUME NEW buffer \in String, NEW p \in 0 .. Len(buffer) - 1,
         Simple!newline_pos(buffer) = p + 1
  PROVE  /\ line_end(buffer, p, crlf) \in 0 .. p
         /\ Simple!line(buffer) = SubSeq(buffer, 1, line_end(buffer, p, crlf))
         /\ Simple!line(buffer) = <<>> <=> line_end(buffer, p, crlf) = 0
<1> DEFINE upto == SubSeq(buffer, 1, p)
           n == line_end(buffer, p, crlf)
<1>1. Len(buffer) \in Nat /\ buffer \in Seq(Char) /\ (p + 1) - 1 = p
  BY LenProperties DEF String
<1>2. /\ upto \in Seq(Char) /\ Len(upto) = p
      /\ \A i \in 1 .. p : upto[i] = buffer[i]
  <2>1. SubSeq(buffer, 0 + 1, p) \in Seq(Char) /\ Len(SubSeq(buffer, 0 + 1, p)) = p - 0
    BY <1>1, StretchIsSeq, StretchLen
  <2>2. \A i \in 1 .. p : buffer[i] \in Char
    BY <1>1, ElementOfSeq
  <2>3. \A i \in 1 .. p - 1 + 1 : upto[i] = buffer[1 + i - 1]
    BY <2>2, SubSeqProperties
  <2> HIDE DEF upto
  <2>4. \A i \in 1 .. p : upto[i] = buffer[i]
    BY <2>3
  <2> QED
    BY <2>1, <2>4 DEF upto
<1>3. Simple!line(buffer) =
        IF crlf /\ upto # <<>> /\ upto[Len(upto)] = CR
        THEN SubSeq(upto, 1, Len(upto) - 1) ELSE upto
  BY <1>1 DEF Simple!line, Simple!crlf, crlf, Simple!Last, Simple!Front
<1>4. n = IF crlf /\ p > 0 /\ buffer[p] = CR THEN p - 1 ELSE p
  BY DEF line_end
<1>5. upto # <<>> <=> p > 0
  BY <1>2, EmptySeq
<1>6. n \in 0 .. p
  BY <1>4
<1>7. Simple!line(buffer) = SubSeq(buffer, 1, n)
  <2>1. CASE crlf /\ p > 0 /\ buffer[p] = CR
    <3>1. Simple!line(buffer) = SubSeq(upto, 1, p - 1)
      BY <1>2, <1>3, <1>5, <2>1
    <3>2. SubSeq(SubSeq(buffer, 0 + 1, p), 0 + 1, p - 1) = SubSeq(buffer, 0 + 0 + 1, 0 + (p - 1))
      BY <1>1, <2>1, StretchOfStretch
    <3> QED
      BY <1>4, <2>1, <3>1, <3>2
  <2>2. CASE ~(crlf /\ p > 0 /\ buffer[p] = CR)
    <3>1. Simple!line(buffer) = upto
      BY <1>2, <1>3, <1>5, <2>2
    <3> QED
      BY <1>4, <2>2, <3>1
  <2> QED
    BY <2>1, <2>2
<1>8. Simple!line(buffer) = <<>> <=> n = 0
  <2>1. SubSeq(buffer, 0 + 1, n) \in Seq(Char) /\ Len(SubSeq(buffer, 0 + 1, n)) = n - 0
    BY <1>1, <1>6, StretchIsSeq, StretchLen
  <2> HIDE DEF n
  <2> QED
    BY <1>6, <1>7, <2>1, EmptySeq
<1> QED
  BY <1>6, <1>7, <1>8

\* The fields of a line go to the record in the same way.
LEMMA SimdPieces ==
  ASSUME NEW buffer \in String, NEW n \in Nat, n <= Len(buffer), NEW D,
         \A i \in 0 .. n - 1 : i \in D <=> buffer[i + 1] = delimiter
  PROVE  Simd!extract_and_save_fields(buffer, D, n) <=>
           Simple!insert_fields(Simple!split(SubSeq(buffer, 1, n)))
<1> DEFINE pieces == Simple!split(SubSeq(buffer, 1, n))
<1>1. TextIn(buffer, Simd!Cut(D, n)) = pieces
  BY TextInCut, SimdOperators, SimpleSplit
<1> HIDE DEF pieces
<1>2. Simd!extract_and_save_fields(buffer, D, n) <=>
        fields' = IF incomplete_last_read /\ fields # <<>>
                  THEN ExtendLast(fields, pieces[1]) \o Tail(pieces)
                  ELSE fields \o pieces
  BY <1>1 DEF Simd!extract_and_save_fields, TextIn, Simd!ExtendLast, ExtendLast
<1>3. Simple!insert_fields(pieces) <=>
        fields' = IF incomplete_last_read /\ fields # <<>>
                  THEN ExtendLast(fields, pieces[1]) \o Tail(pieces)
                  ELSE fields \o pieces
  BY DEF Simple!insert_fields, Simple!ExtendLast, ExtendLast
<1> QED
  BY <1>2, <1>3 DEF pieces

\* A call of SimdParser does what a call of SimpleParser does, for every buffer,
\* every width of the vectors and every state of the parser: with use_simd the
\* engine reads no other records.
THEOREM SimdIsSimple ==
  ASSUME NEW buffer \in String
  PROVE  Simd!Parse(buffer) <=> Simple!Parse(buffer)
<1> DEFINE c == newline(config.line_ending)
           scanned == scan_for_structural_chars(buffer, c)
           p == scanned.newline_pos
           D == scanned.delim_positions
           n == line_end(buffer, p, crlf)
<1>1. Len(buffer) \in Nat
  BY LenProperties DEF String
<1>2. Finds(scanned, buffer, c)
  BY <1>1, VectorScan
<1>3. Simple!newline_pos(buffer) = p + 1 /\ p \in {NoPosition} \cup 0 .. Len(buffer) - 1
  BY SimpleNewline
<1>4. /\ Simd!scan_for_structural_chars(buffer, c) = scanned
      /\ Simd!NoPosition = NoPosition
      /\ Simd!EndOfLine(buffer, scanned) = n
  BY SimdOperators DEF Simd!EndOfLine, Simd!crlf, crlf
<1>5. \A i \in 0 .. Len(buffer) - 1 :
        (p = NoPosition \/ i < p) => (i \in D <=> buffer[i + 1] = delimiter)
  BY <1>2 DEF Finds, Places
<1>6. p # NoPosition =>
        /\ n \in 0 .. p /\ Simple!line(buffer) = SubSeq(buffer, 1, n)
        /\ Simple!line(buffer) = <<>> <=> n = 0
  BY <1>3, SimpleLine
<1> HIDE DEF scanned, n
<1>7. p = NoPosition <=> Simple!newline_pos(buffer) = 0
  BY <1>3 DEF NoPosition
<1>8. Simd!NoNewline(buffer, scanned) <=> Simple!NoNewline(buffer)
  <2>1. CASE p = NoPosition
    <3>1. SubSeq(buffer, 1, Len(buffer)) = buffer
      BY SubSeqFull DEF String
    <3>2. Simd!extract_and_save_fields(buffer, D, Len(buffer)) <=>
            Simple!insert_fields(Simple!split(buffer))
      <4> DEFINE length == Len(buffer)
      <4>1. \A i \in 0 .. length - 1 : i \in D <=> buffer[i + 1] = delimiter
        BY <1>5, <2>1
      <4>2. length \in Nat /\ length <= Len(buffer) /\ SubSeq(buffer, 1, length) = buffer
        BY <1>1, <3>1
      <4> HIDE DEF D, length
      <4>3. Simd!extract_and_save_fields(buffer, D, length) <=>
              Simple!insert_fields(Simple!split(SubSeq(buffer, 1, length)))
        BY <4>1, <4>2, SimdPieces
      <4> QED
        BY <4>2, <4>3 DEF length
    <3> QED
      BY <1>4, <1>7, <2>1, <3>2 DEF Simd!NoNewline, Simple!NoNewline, Simd!Return,
         Simple!Return, Simd!Last, Simple!Last
  <2>2. CASE p # NoPosition
    BY <1>4, <1>7, <2>2 DEF Simd!NoNewline, Simple!NoNewline
  <2> QED
    BY <2>1, <2>2
<1>9. Simd!BlankLineAfterCr(buffer, scanned) <=> Simple!BlankLineAfterCr(buffer)
  BY <1>3, <1>4, <1>6, <1>7 DEF Simd!BlankLineAfterCr, Simple!BlankLineAfterCr, Simd!crlf,
     Simple!crlf, Simd!Last, Simple!Last, Simd!Return, Simple!Return,
     Simd!WithoutLastChar, Simple!WithoutLastChar
<1>10. Simd!BlankLine(buffer, scanned) <=> Simple!BlankLine(buffer)
  BY <1>3, <1>4, <1>6, <1>7 DEF Simd!BlankLine, Simple!BlankLine, Simd!crlf, Simple!crlf,
     Simd!Return, Simple!Return
<1>11. Simd!Line(buffer, scanned) <=> Simple!Line(buffer)
  <2>1. CASE p # NoPosition
    <3>1. /\ n \in Nat /\ n <= Len(buffer)
          /\ \A i \in 0 .. n - 1 : i \in D <=> buffer[i + 1] = delimiter
      <4>1. p \in 0 .. Len(buffer) - 1 /\ n \in 0 .. p
        BY <1>3, <1>6, <2>1
      <4>2. ASSUME NEW i \in 0 .. n - 1 PROVE i \in D <=> buffer[i + 1] = delimiter
        <5>1. i \in 0 .. Len(buffer) - 1 /\ i < p
          BY <1>1, <4>1
        <5> QED
          BY <1>5, <5>1
      <4> QED
        BY <1>1, <4>1, <4>2
    <3>2. Simd!extract_and_save_fields(buffer, D, n) <=>
            Simple!insert_fields(Simple!split(Simple!line(buffer)))
      BY <1>6, <2>1, <3>1, SimdPieces
    <3> QED
      BY <1>3, <1>4, <1>6, <1>7, <2>1, <3>2 DEF Simd!Line, Simple!Line, Simd!Return, Simple!Return
  <2>2. CASE p = NoPosition
    BY <1>4, <1>7, <2>2 DEF Simd!Line, Simple!Line
  <2> QED
    BY <2>1, <2>2
<1> QED
  BY <1>4, <1>8, <1>9, <1>10, <1>11 DEF Simd!Parse, Simple!Parse, Simd!newline, newline

-----------------------------------------------------------------------------
(***************************************************************************)
(* Types of the parser, and where its cursor stands.                        *)
(***************************************************************************)
\* A field that may go on is there.
OpenFieldInv == pending_quote \/ incomplete_last_read => fields # <<>>

\* The bytes of the field being read.
Raw == SubSeq(chunk, field_start + 1, consumed)

\* A field begins at the chunk or behind a delimiter or a quote, at or before
\* the cursor; and the strict parser's count of literals tells how much shorter
\* than its bytes the copy of the field is.
CursorInv ==
  status = "parsing" =>
    /\ consumed <= Len(chunk) /\ field_start <= consumed
    /\ field_start # 0 => chunk[field_start] \in {delimiter, quote_char}
    /\ config.parse_mode = "strict" => Len(Strict!Copy(Raw).text) = Len(Raw) - literals

FieldInv == ParserTypeOK /\ OpenFieldInv /\ CursorInv

\* parse() leaves.
LEMMA LeavingKeepsFields ==
  ASSUME FieldInv, config' = config, fields' \in Seq(String),
         pending_cr' \in BOOLEAN, incomplete_last_read' \in BOOLEAN,
         in_quotes' \in BOOLEAN, pending_quote' \in BOOLEAN, consumed' \in Nat,
         pending_quote' \/ incomplete_last_read' => fields' # <<>>,
         status' \in ParserStatus \ {"parsing"}, chunk' = <<>>, field_start' = 0,
         literals' = 0, quoted_field' = FALSE
  PROVE  FieldInv'
<1>1. <<>> \in String
  BY EmptySeq DEF String
<1>2. ParserTypeOK'
  BY <1>1 DEF FieldInv, ParserTypeOK
<1>3. OpenFieldInv' /\ CursorInv'
  BY DEF OpenFieldInv, CursorInv
<1> QED
  BY <1>2, <1>3 DEF FieldInv

\* The strict parser takes the next byte, or a pair of quotes, into the field.
LEMMA RawGrows ==
  ASSUME FieldInv, status = "parsing", consumed < Len(chunk)
  PROVE  /\ Raw \in String /\ Len(Raw) = consumed - field_start
         /\ chunk[consumed + 1] \in Char
         /\ SubSeq(chunk, field_start + 1, consumed + 1) = Append(Raw, chunk[consumed + 1])
         /\ SubSeq(chunk, field_start + 1, consumed + 1) \in String
<1>1. /\ chunk \in Seq(Char) /\ Len(chunk) \in Nat /\ consumed \in Nat /\ field_start \in Nat
      /\ field_start <= consumed
  BY LenProperties DEF FieldInv, ParserTypeOK, CursorInv, String
<1>2. Raw \in Seq(Char) /\ Len(Raw) = consumed - field_start
  BY <1>1, StretchIsSeq, StretchLen DEF Raw
<1>3. SubSeq(chunk, field_start + 1, consumed + 1) = Append(Raw, chunk[consumed + 1])
  BY <1>1, StretchGrows DEF Raw
<1>4. consumed + 1 \in 1 .. Len(chunk)
  BY <1>1
<1>5. chunk[consumed + 1] \in Char
  BY <1>1, <1>4, ElementOfSeq
<1>6. Append(Raw, chunk[consumed + 1]) \in Seq(Char)
  BY <1>2, <1>5, AppendProperties
<1> QED
  BY <1>2, <1>3, <1>5, <1>6 DEF String

\* A field begins behind the cursor.
LEMMA FieldBegins ==
  ASSUME FieldInv, chunk' \in String, status' = "parsing", NEW next \in Nat,
         next <= Len(chunk'), consumed' = next, field_start' = next,
         next # 0 => chunk'[next] \in {delimiter, quote_char},
         config'.parse_mode = "strict" => literals' = 0
  PROVE  CursorInv'
<1>1. Raw' = <<>>
  BY SubSeqEmpty DEF Raw
<1>2. Len(NoCopy.text) = 0 /\ Len(<<>>) = 0
  BY EmptySeq DEF NoCopy
<1>3. Strict!Copy(<<>>) = NoCopy
  BY StrictCopyEmpty
<1>4. config'.parse_mode = "strict" => Len(Strict!Copy(Raw').text) = Len(Raw') - literals'
  BY <1>1, <1>2, <1>3
<1> QED
  BY <1>4 DEF CursorInv

\* add_field of the strict parser leaves at least one field.
LEMMA StrictWithField ==
  ASSUME FieldInv, NEW end \in Nat, end <= Len(chunk)
  PROVE  Strict!WithField(end) \in Fields
<1> DEFINE piece == Strict!Unescaped(SubSeq(chunk, field_start + 1, end))
<1>1. /\ chunk \in Seq(Char) /\ field_start \in Nat /\ fields \in Seq(String)
      /\ incomplete_last_read \in BOOLEAN
  BY DEF FieldInv, ParserTypeOK, String
<1>2. piece \in String
  <2>1. SubSeq(chunk, field_start + 1, end) \in String
    BY <1>1, StretchIsSeq DEF String
  <2> QED
    BY <2>1, UnescapedIsString
<1>3. Strict!WithField(end) =
        IF incomplete_last_read THEN ExtendLast(fields, piece) ELSE Append(fields, piece)
  BY DEF Strict!WithField, Strict!ExtendLast, ExtendLast
<1> HIDE DEF piece
<1>4. CASE incomplete_last_read
  <2>1. fields \in Fields
    BY <1>1, <1>4 DEF FieldInv, OpenFieldInv, Fields
  <2> QED
    BY <1>2, <1>3, <1>4, <2>1, ExtendLastFields
<1>5. CASE ~incomplete_last_read
  BY <1>1, <1>2, <1>3, <1>5, AppendFields
<1> QED
  BY <1>4, <1>5

\* The ways the strict parser's loop ends.
LEMMA StrictLeaves ==
  ASSUME FieldInv, status = "parsing",
         \/ Strict!NewlineEndsRecord \/ Strict!BareNewlineFails \/ Strict!StrayQuoteFails
         \/ Strict!QuoteEndsChunk \/ Strict!QuoteThenCr \/ Strict!QuoteThenNewline
         \/ Strict!QuoteThenDataFails \/ Strict!ChunkEnds
  PROVE  FieldInv'
<1>1. /\ chunk \in Seq(Char) /\ Len(chunk) \in Nat /\ consumed \in Nat
      /\ fields \in Seq(String) /\ pending_cr \in BOOLEAN
      /\ incomplete_last_read \in BOOLEAN /\ in_quotes \in BOOLEAN
      /\ pending_quote \in BOOLEAN /\ consumed <= Len(chunk)
      /\ pending_quote \/ incomplete_last_read => fields # <<>>
  BY LenProperties DEF FieldInv, ParserTypeOK, OpenFieldInv, CursorInv, String
<1>2. ASSUME NEW result \in ParseStatus, Strict!Return(result)
      PROVE  /\ status' \in ParserStatus \ {"parsing"} /\ chunk' = <<>>
             /\ field_start' = 0 /\ literals' = 0 /\ quoted_field' = FALSE
  BY <1>2 DEF Strict!Return, ParserStatus, ParseStatus
<1>3. Strict!WithField(consumed) \in Fields
  BY <1>1, StrictWithField
<1>4. <<CR>> \in String
  BY DEF String, Char
<1>5. CASE Strict!NewlineEndsRecord
  <2>1. /\ config' = config /\ consumed' = consumed + 1 /\ incomplete_last_read' = FALSE
        /\ UNCHANGED <<pending_cr, in_quotes, pending_quote>> /\ Strict!Return("complete")
        /\ fields' = Strict!WithField(IF Strict!crlf THEN consumed - 1 ELSE consumed)
        /\ Strict!crlf => consumed > 0
    BY <1>5 DEF Strict!NewlineEndsRecord, Strict!Advance, Strict!PrecededByCr
  <2>2. consumed > 0 => consumed - 1 \in Nat /\ consumed - 1 <= Len(chunk)
    BY <1>1
  <2>3. fields' \in Fields
    BY <1>3, <2>1, <2>2, StrictWithField
  <2>4. consumed' \in Nat /\ "complete" \in ParseStatus
    BY <1>1, <2>1 DEF ParseStatus
  <2> QED
    BY <1>1, <1>2, <2>1, <2>3, <2>4, LeavingKeepsFields DEF Fields
<1>6. CASE Strict!BareNewlineFails \/ Strict!StrayQuoteFails \/ Strict!QuoteThenDataFails
  <2>1. /\ config' = config /\ consumed' = consumed + 1 /\ Strict!Return("fail")
        /\ UNCHANGED <<fields, incomplete_last_read, pending_cr, pending_quote>>
        /\ in_quotes' \in {in_quotes, FALSE}
    BY <1>6 DEF Strict!BareNewlineFails, Strict!StrayQuoteFails,
       Strict!QuoteThenDataFails, Strict!ClosesBefore, Strict!Advance
  <2>2. consumed' \in Nat /\ "fail" \in ParseStatus
    BY <1>1, <2>1 DEF ParseStatus
  <2> QED
    BY <1>1, <1>2, <2>1, <2>2, LeavingKeepsFields
<1>7. CASE Strict!QuoteEndsChunk
  <2>1. /\ config' = config /\ consumed' = consumed + 1 /\ Strict!Return("need_more_data")
        /\ fields' = Strict!WithField(consumed) /\ in_quotes' = FALSE
        /\ pending_quote' = TRUE /\ incomplete_last_read' = TRUE /\ pending_cr' = pending_cr
    BY <1>7 DEF Strict!QuoteEndsChunk, Strict!Advance
  <2>2. consumed' \in Nat /\ "need_more_data" \in ParseStatus
    BY <1>1, <2>1 DEF ParseStatus
  <2> QED
    BY <1>1, <1>2, <1>3, <2>1, <2>2, LeavingKeepsFields DEF Fields
<1>8. CASE Strict!QuoteThenCr
  <2>1. /\ config' = config /\ in_quotes' = FALSE
        /\ \/ /\ fields' = Strict!WithField(consumed) /\ incomplete_last_read' = FALSE
              /\ consumed' = consumed + 3 /\ Strict!Return("complete")
              /\ UNCHANGED <<pending_cr, pending_quote>>
           \/ /\ consumed' = consumed + 1 /\ Strict!Return("fail")
              /\ UNCHANGED <<fields, incomplete_last_read, pending_cr, pending_quote>>
           \/ /\ fields' = ExtendLast(Strict!WithField(consumed), <<CR>>)
              /\ incomplete_last_read' = FALSE /\ pending_cr' = TRUE /\ pending_quote' = TRUE
              /\ consumed' = consumed + 2 /\ Strict!Return("need_more_data")
    BY <1>8 DEF Strict!QuoteThenCr, Strict!ClosesBefore, Strict!Advance,
       Strict!ExtendLast, ExtendLast
  <2>2. ExtendLast(Strict!WithField(consumed), <<CR>>) \in Fields
    BY <1>3, <1>4, ExtendLastFields
  <2>3. consumed' \in Nat /\ {"fail", "complete", "need_more_data"} \subseteq ParseStatus
    BY <1>1, <2>1 DEF ParseStatus
  <2>4. fields' \in Seq(String) /\ (pending_quote' \/ incomplete_last_read' => fields' # <<>>)
    BY <1>1, <1>3, <2>1, <2>2 DEF Fields
  <2>5. /\ pending_cr' \in BOOLEAN /\ incomplete_last_read' \in BOOLEAN
        /\ in_quotes' \in BOOLEAN /\ pending_quote' \in BOOLEAN
    BY <1>1, <2>1
  <2>6. /\ status' \in ParserStatus \ {"parsing"} /\ chunk' = <<>>
        /\ field_start' = 0 /\ literals' = 0 /\ quoted_field' = FALSE
    BY <1>2, <2>1, <2>3
  <2> QED
    BY <2>1, <2>3, <2>4, <2>5, <2>6, LeavingKeepsFields
<1>9. CASE Strict!QuoteThenNewline
  <2>1. /\ config' = config /\ consumed' = consumed + 2 /\ Strict!Return("complete")
        /\ fields' = Strict!WithField(consumed) /\ in_quotes' = FALSE
        /\ incomplete_last_read' = FALSE /\ UNCHANGED <<pending_cr, pending_quote>>
    BY <1>9 DEF Strict!QuoteThenNewline, Strict!ClosesBefore, Strict!Advance
  <2>2. consumed' \in Nat /\ "complete" \in ParseStatus
    BY <1>1, <2>1 DEF ParseStatus
  <2> QED
    BY <1>1, <1>2, <1>3, <2>1, <2>2, LeavingKeepsFields DEF Fields
<1>10. CASE Strict!ChunkEnds
  <2>1. /\ config' = config /\ consumed' = consumed /\ Strict!Return("need_more_data")
        /\ fields' = Strict!WithField(consumed) /\ UNCHANGED <<in_quotes, pending_quote>>
        /\ incomplete_last_read' = TRUE
        /\ pending_cr' = (pending_cr \/ (Strict!crlf /\ ~in_quotes /\ Strict!at(consumed - 1) = CR))
    BY <1>10 DEF Strict!ChunkEnds
  <2>2. consumed' \in Nat /\ "need_more_data" \in ParseStatus /\ pending_cr' \in BOOLEAN
    BY <1>1, <2>1 DEF ParseStatus
  <2> QED
    BY <1>1, <1>2, <1>3, <2>1, <2>2, LeavingKeepsFields DEF Fields
<1> QED
  BY <1>5, <1>6, <1>7, <1>8, <1>9, <1>10

\* The ways it goes on with the next field.
LEMMA StrictNextField ==
  ASSUME FieldInv, status = "parsing",
         Strict!DelimEndsField \/ Strict!QuoteThenDelim \/ Strict!QuoteOpensField
  PROVE  FieldInv'
<1>1. /\ chunk \in Seq(Char) /\ Len(chunk) \in Nat /\ consumed \in Nat /\ field_start \in Nat
      /\ consumed <= Len(chunk) /\ field_start <= consumed
  BY LenProperties DEF FieldInv, ParserTypeOK, CursorInv, String
<1>2. Strict!WithField(consumed) \in Fields
  BY <1>1, StrictWithField
<1>3. CASE Strict!DelimEndsField \/ Strict!QuoteThenDelim
  <2>1. PICK n \in {1, 2} :
          /\ consumed' = consumed + n /\ field_start' = consumed + n
          /\ consumed + n <= Len(chunk) /\ chunk[consumed + n] = delimiter
    <3>1. CASE Strict!DelimEndsField
      <4>1. /\ consumed' = consumed + 1 /\ field_start' = consumed + 1
            /\ consumed + 1 <= Len(chunk) /\ chunk[consumed + 1] = delimiter
        BY <1>1, <3>1 DEF Strict!DelimEndsField, Strict!OnByte, Strict!Advance,
           Strict!Continue, Strict!is_delim, Strict!at
      <4> QED
        BY <4>1
    <3>2. CASE Strict!QuoteThenDelim
      <4>1. /\ consumed' = consumed + 2 /\ field_start' = consumed + 2
            /\ consumed < Len(chunk) /\ consumed + 1 # Len(chunk)
            /\ chunk[consumed + 1 + 1] = delimiter
        BY <3>2 DEF Strict!QuoteThenDelim, Strict!ClosesBefore, Strict!OnQuoteInQuotes,
           Strict!OnByte, Strict!Advance, Strict!Continue, Strict!at, Strict!LastByte,
           Strict!is_end
      <4>2. consumed + 1 + 1 = consumed + 2 /\ consumed + 2 <= Len(chunk)
        BY <1>1, <4>1
      <4> QED
        BY <4>1, <4>2
    <3> QED
      BY <1>3, <3>1, <3>2
  <2>2. /\ UNCHANGED <<config, pending_cr, pending_quote, quoted_field, chunk, status>>
        /\ fields' = Strict!WithField(consumed) /\ literals' = 0
        /\ incomplete_last_read' = FALSE /\ in_quotes' \in {in_quotes, FALSE}
    BY <1>3 DEF Strict!DelimEndsField, Strict!QuoteThenDelim, Strict!ClosesBefore,
       Strict!AddField, Strict!Continue
  <2> DEFINE next == consumed + n
  <2>3. next \in Nat /\ consumed' = next /\ field_start' = next /\ next <= Len(chunk)
        /\ chunk[next] = delimiter
    BY <1>1, <2>1
  <2> HIDE DEF next
  <2>4. CursorInv'
    <3>1. chunk' = chunk /\ chunk \in String /\ status' = "parsing"
      BY <1>1, <2>2 DEF String
    <3> QED
      BY <2>2, <2>3, <3>1, FieldBegins
  <2>5. ParserTypeOK'
    BY <1>2, <2>2, <2>3 DEF FieldInv, ParserTypeOK, Fields
  <2>6. OpenFieldInv'
    BY <1>2, <2>2 DEF OpenFieldInv, Fields
  <2> QED
    BY <2>4, <2>5, <2>6 DEF FieldInv
<1>4. CASE Strict!QuoteOpensField
  <2>1. /\ UNCHANGED <<config, fields, pending_cr, incomplete_last_read, pending_quote,
                       literals, quoted_field, chunk, status>>
        /\ in_quotes' = TRUE /\ consumed' = consumed + 1 /\ field_start' = consumed + 1
        /\ consumed = field_start /\ consumed < Len(chunk) /\ chunk[consumed + 1] = quote_char
    BY <1>4 DEF Strict!QuoteOpensField, Strict!OnByte, Strict!Advance, Strict!Continue,
       Strict!is_quote, Strict!at
  <2>2. config.parse_mode = "strict" => literals = 0
    <3>1. Raw = <<>>
      BY <1>1, <2>1, SubSeqEmpty DEF Raw
    <3>2. Strict!Copy(<<>>) = NoCopy /\ Len(NoCopy.text) = 0 /\ Len(<<>>) = 0
      BY StrictCopyEmpty, EmptySeq DEF NoCopy
    <3>3. config.parse_mode = "strict" => Len(Strict!Copy(<<>>).text) = Len(<<>>) - literals
      BY <3>1 DEF FieldInv, CursorInv
    <3>4. literals \in Nat
      BY DEF FieldInv, ParserTypeOK
    <3> QED
      BY <3>2, <3>3, <3>4
  <2> DEFINE next == consumed + 1
  <2>3. next \in Nat /\ consumed' = next /\ field_start' = next /\ next <= Len(chunk)
        /\ chunk[next] = quote_char
    BY <1>1, <2>1
  <2> HIDE DEF next
  <2>4. CursorInv'
    <3>1. chunk' = chunk /\ chunk \in String /\ status' = "parsing"
      BY <1>1, <2>1 DEF String
    <3> QED
      BY <2>1, <2>2, <2>3, <3>1, FieldBegins
  <2>5. ParserTypeOK' /\ OpenFieldInv'
    BY <2>1, <2>3 DEF FieldInv, ParserTypeOK, OpenFieldInv
  <2> QED
    BY <2>4, <2>5 DEF FieldInv
<1> QED
  BY <1>3, <1>4

\* The ways it goes on inside a field: a byte that is no quote, or a pair of them.
LEMMA StrictSameField ==
  ASSUME FieldInv, status = "parsing", Strict!SkipByte \/ Strict!EscapedQuote
  PROVE  FieldInv'
<1>1. /\ chunk \in Seq(Char) /\ Len(chunk) \in Nat /\ consumed \in Nat /\ field_start \in Nat
      /\ consumed <= Len(chunk) /\ field_start <= consumed /\ literals \in Nat
      /\ field_start # 0 => chunk[field_start] \in {delimiter, quote_char}
  BY LenProperties DEF FieldInv, ParserTypeOK, CursorInv, String
<1> DEFINE first == chunk[consumed + 1]
           one == SubSeq(chunk, field_start + 1, consumed + 1)
<1>2. consumed < Len(chunk)
  BY DEF Strict!SkipByte, Strict!EscapedQuote, Strict!OnQuoteInQuotes, Strict!OnByte
<1>3. Raw \in String /\ Len(Raw) = consumed - field_start /\ first \in Char
      /\ one = Append(Raw, first) /\ one \in String
  BY <1>2, RawGrows
<1> DEFINE copy == Strict!Copy(Raw)
<1>4. copy \in Copies /\ Strict!Copy(one) = Strict!CopyByte(copy, first)
  BY <1>3, StrictCopyGrows
<1>5. config.parse_mode = "strict" => Len(copy.text) = Len(Raw) - literals
  BY DEF FieldInv, CursorInv
<1>6. Len(one) = Len(Raw) + 1 /\ copy.text \in Seq(Char) /\ Len(copy.text) \in Nat
  <2>1. Len(Append(Raw, first)) = Len(Raw) + 1
    BY <1>3, AppendProperties DEF String
  <2>2. copy.text \in Seq(Char)
    BY <1>4 DEF Copies, String
  <2> QED
    BY <1>3, <2>1, <2>2, LenProperties
<1>7. /\ \A l, m, k \in Int : m = l - k => m + 1 = (l + 1) - k /\ m + 1 = (l + 2) - (k + 1)
      /\ Len(Raw) \in Int /\ Len(copy.text) \in Int /\ literals \in Int
  BY <1>1, <1>3, <1>6
<1>8. CASE Strict!SkipByte
  <2>1. /\ UNCHANGED <<config, fields, pending_cr, incomplete_last_read, in_quotes,
                       pending_quote, literals, quoted_field, chunk, status, field_start>>
        /\ consumed' = consumed + 1 /\ first # quote_char
    BY <1>8 DEF Strict!SkipByte, Strict!Advance, Strict!Continue, Strict!is_quote, Strict!at
  <2>2. Raw' = one
    BY <2>1 DEF Raw
  <2> HIDE DEF copy, first, one
  <2>3. config.parse_mode = "strict" => Len(Strict!Copy(one).text) = Len(one) - literals
    <3>1. Len(Strict!CopyByte(copy, first).text) = Len(copy.text) + 1
      BY <1>3, <1>4, <2>1, StrictCopyByte
    <3>2. Len(Strict!Copy(one).text) = Len(copy.text) + 1
      BY <1>4, <3>1
    <3> QED
      BY <1>5, <1>6, <1>7, <3>2
  <2>4. consumed' \in Nat /\ consumed' <= Len(chunk) /\ field_start <= consumed'
    BY <1>1, <1>2, <2>1
  <2>5. CursorInv'
    BY <1>1, <2>1, <2>2, <2>3, <2>4 DEF CursorInv
  <2>6. ParserTypeOK' /\ OpenFieldInv'
    BY <2>1, <2>4 DEF FieldInv, ParserTypeOK, OpenFieldInv
  <2> QED
    BY <2>5, <2>6 DEF FieldInv
<1>9. CASE Strict!EscapedQuote
  <2>1. /\ UNCHANGED <<config, fields, pending_cr, incomplete_last_read, in_quotes,
                       pending_quote, quoted_field, chunk, status, field_start>>
        /\ literals' = literals + 1 /\ consumed' = consumed + 2 /\ first = quote_char
        /\ consumed + 1 # Len(chunk) /\ chunk[consumed + 1 + 1] = quote_char
    BY <1>9 DEF Strict!EscapedQuote, Strict!OnQuoteInQuotes, Strict!Advance,
       Strict!Continue, Strict!is_quote, Strict!at, Strict!LastByte, Strict!is_end
  <2> DEFINE two == SubSeq(chunk, field_start + 1, consumed + 2)
  <2>2. two = Append(one, quote_char)
    <3>1. consumed + 1 \in Nat /\ field_start <= consumed + 1 /\ consumed + 1 < Len(chunk)
          /\ (consumed + 1) + 1 = consumed + 2
      BY <1>1, <1>2, <2>1
    <3>2. SubSeq(chunk, field_start + 1, (consumed + 1) + 1)
            = Append(one, chunk[(consumed + 1) + 1])
      BY <1>1, <3>1, StretchGrows
    <3> QED
      BY <2>1, <3>1, <3>2
  <2>3. Raw' = two
    BY <2>1 DEF Raw
  <2>4. quote_char \in Char
    BY DEF Char
  <2> HIDE DEF copy, first, one, two
  <2> DEFINE once == Strict!CopyByte(copy, quote_char)
             twice == Strict!CopyByte(once, quote_char)
  <2>5. /\ once \in Copies /\ once.pair = ~copy.pair
        /\ Len(once.text) = IF copy.pair THEN Len(copy.text) ELSE Len(copy.text) + 1
    <3>1. copy.pair \in BOOLEAN
      BY <1>4 DEF Copies
    <3> QED
      BY <1>4, <2>4, <3>1, StrictCopyByte
  <2> HIDE DEF once
  <2>6. Len(twice.text) = IF once.pair THEN Len(once.text) ELSE Len(once.text) + 1
    BY <2>4, <2>5, StrictCopyByte
  <2> HIDE DEF twice
  <2>7. Len(twice.text) = Len(copy.text) + 1
    BY <1>6, <2>5, <2>6
  <2>8. Strict!Copy(two) = twice
    <3>1. Strict!Copy(two) = Strict!CopyByte(Strict!Copy(one), quote_char)
      BY <1>3, <2>2, <2>4, StrictCopyGrows
    <3> QED
      BY <1>4, <2>1, <3>1 DEF once, twice
  <2>9. Len(two) = Len(Raw) + 2
    <3>1. Len(two) = Len(one) + 1
      BY <1>3, <2>2, <2>4, AppendProperties DEF String
    <3> QED
      BY <1>1, <1>3, <1>6, <3>1
  <2>10. config.parse_mode = "strict" => Len(Strict!Copy(two).text) = Len(two) - literals'
    <3>1. Len(Strict!Copy(two).text) = Len(copy.text) + 1
      BY <2>7, <2>8
    <3> QED
      BY <1>5, <1>6, <1>7, <2>1, <2>9, <3>1
  <2>11. consumed' \in Nat /\ consumed' <= Len(chunk) /\ field_start <= consumed'
         /\ literals' \in Nat
    BY <1>1, <1>2, <2>1
  <2>12. CursorInv'
    BY <1>1, <2>1, <2>3, <2>10, <2>11 DEF CursorInv
  <2>13. ParserTypeOK' /\ OpenFieldInv'
    BY <2>1, <2>11 DEF FieldInv, ParserTypeOK, OpenFieldInv
  <2> QED
    BY <2>12, <2>13 DEF FieldInv
<1> QED
  BY <1>8, <1>9

\* Every turn of the strict parser's loop.
LEMMA StrictStep == ASSUME FieldInv, Strict!Step PROVE FieldInv'
<1>1. status = "parsing"
  BY DEF Strict!Step, Strict!NewlineEndsRecord, Strict!BareNewlineFails,
     Strict!DelimEndsField, Strict!QuoteOpensField, Strict!StrayQuoteFails,
     Strict!SkipByte, Strict!EscapedQuote, Strict!QuoteEndsChunk,
     Strict!QuoteThenCr, Strict!QuoteThenDelim, Strict!QuoteThenNewline,
     Strict!QuoteThenDataFails, Strict!ChunkEnds, Strict!OnQuoteInQuotes,
     Strict!ClosesBefore, Strict!OnByte
<1> QED
  BY <1>1, StrictLeaves, StrictNextField, StrictSameField DEF Strict!Step

\* A call of the strict parser, whatever the last chunk ended in.
LEMMA StrictParse ==
  ASSUME FieldInv, NEW buffer \in String, Strict!Parse(buffer)
  PROVE  FieldInv'
<1>1. /\ buffer \in Seq(Char) /\ Len(buffer) \in Nat /\ fields \in Seq(String)
      /\ pending_cr \in BOOLEAN /\ incomplete_last_read \in BOOLEAN
      /\ in_quotes \in BOOLEAN /\ pending_quote \in BOOLEAN
      /\ pending_quote \/ incomplete_last_read => fields # <<>>
  BY LenProperties DEF FieldInv, ParserTypeOK, OpenFieldInv, String
<1>2. ASSUME NEW result \in ParseStatus, Strict!Return(result)
      PROVE  /\ status' \in ParserStatus \ {"parsing"} /\ chunk' = <<>>
             /\ field_start' = 0 /\ literals' = 0 /\ quoted_field' = FALSE
  BY <1>2 DEF Strict!Return, ParserStatus, ParseStatus
<1>3. buffer # <<>> /\ 1 \in 1 .. Len(buffer) /\ 1 <= Len(buffer) /\ config' = config
  <2>1. buffer # <<>> /\ config' = config
    BY DEF Strict!Parse, Strict!ParseAfterCr, Strict!ParseAfterQuote, Strict!ParseOn,
       Strict!Entry
  <2>2. Len(buffer) # 0
    BY <1>1, <2>1, EmptySeq
  <2> QED
    BY <1>1, <2>1, <2>2
<1>4. {"fail", "complete", "need_more_data"} \subseteq ParseStatus /\ 1 \in Nat /\ 0 \in Nat
  BY DEF ParseStatus
\* parse() that goes on into the loop.
<1>5. ASSUME NEW from \in Nat, Strict!Enter(buffer, from), fields' = fields,
             pending_cr' = pending_cr, pending_quote' = FALSE, in_quotes' \in BOOLEAN,
             incomplete_last_read' \in {incomplete_last_read, FALSE}, consumed' \in Nat,
             CursorInv'
      PROVE  FieldInv'
  <2>1. /\ status' = "parsing" /\ chunk' = buffer /\ field_start' = from
        /\ literals' = 0 /\ quoted_field' = FALSE
    BY <1>5 DEF Strict!Enter
  <2>2. ParserTypeOK'
    BY <1>1, <1>3, <1>5, <2>1 DEF FieldInv, ParserTypeOK, ParserStatus
  <2>3. OpenFieldInv'
    BY <1>1, <1>5 DEF OpenFieldInv
  <2> QED
    BY <1>5, <2>2, <2>3 DEF FieldInv
<1>6. CASE Strict!ParseAfterCr(buffer)
  <2>1. /\ UNCHANGED <<incomplete_last_read, in_quotes, pending_quote>>
        /\ pending_cr' = FALSE /\ consumed' = 1
        /\ fields' \in {fields, WithoutLastChar(fields)}
        /\ Strict!Return("complete") \/ Strict!Return("fail")
    BY <1>6 DEF Strict!ParseAfterCr, Strict!WithoutLastChar, WithoutLastChar
  <2>2. /\ WithoutLastChar(fields) \in Seq(String)
        /\ fields # <<>> => WithoutLastChar(fields) # <<>>
    <3>1. WithoutLastChar(fields) \in Seq(String) /\ Len(WithoutLastChar(fields)) = Len(fields)
      BY <1>1, WithoutLastCharFields
    <3> QED
      BY <1>1, <3>1, EmptySeq
  <2> QED
    BY <1>1, <1>2, <1>3, <1>4, <2>1, <2>2, LeavingKeepsFields
<1>7. CASE Strict!ParseAfterQuote(buffer)
  <2>1. /\ pending_quote /\ pending_quote' = FALSE /\ consumed' = 1
        /\ UNCHANGED <<fields, pending_cr>>
        /\ \/ /\ in_quotes' = TRUE /\ buffer[1] = quote_char
              /\ incomplete_last_read' = TRUE /\ Strict!Return("need_more_data")
           \/ /\ in_quotes' = TRUE /\ buffer[1] = quote_char
              /\ incomplete_last_read' = incomplete_last_read /\ Strict!Enter(buffer, 0)
           \/ /\ UNCHANGED <<in_quotes, incomplete_last_read>>
              /\ Strict!Return("complete") \/ Strict!Return("fail")
           \/ /\ incomplete_last_read' = FALSE /\ in_quotes' = in_quotes
              /\ buffer[1] = delimiter /\ Strict!Enter(buffer, 1)
    BY <1>7 DEF Strict!ParseAfterQuote, Strict!is_quote, Strict!is_delim
  <2>2. CASE Strict!Enter(buffer, 0) /\ buffer[1] = quote_char /\ in_quotes' = TRUE
             /\ incomplete_last_read' = incomplete_last_read
    <3>1. /\ status' = "parsing" /\ chunk' = buffer /\ field_start' = 0 /\ literals' = 0
      BY <2>2 DEF Strict!Enter
    <3>2. Raw' = SubSeq(buffer, 1, 1)
      BY <2>1, <3>1 DEF Raw
    <3>3. SubSeq(buffer, 1, 1) = Append(SubSeq(buffer, 1, 0), buffer[1])
      <4>1. 0 <= 0 /\ 0 < Len(buffer) /\ 0 + 1 = 1
        BY <1>1, <1>3
      <4>2. SubSeq(buffer, 0 + 1, 0 + 1) = Append(SubSeq(buffer, 0 + 1, 0), buffer[0 + 1])
        BY <1>1, <1>4, <4>1, StretchGrows
      <4> QED
        BY <4>1, <4>2
    <3>4. SubSeq(buffer, 1, 0) = <<>>
      BY SubSeqEmpty
    <3>5. Raw' = Append(<<>>, quote_char)
      BY <2>2, <3>2, <3>3, <3>4
    <3>6. /\ <<>> \in String /\ quote_char \in Char /\ Len(<<>>) = 0
          /\ NoCopy \in Copies /\ NoCopy.text = <<>> /\ ~NoCopy.pair
      BY EmptySeq DEF String, Char, NoCopy, Copies
    <3>7. Len(Strict!Copy(Append(<<>>, quote_char)).text) = 1
      <4>1. Strict!Copy(Append(<<>>, quote_char)) = Strict!CopyByte(NoCopy, quote_char)
        BY <3>6, StrictCopyGrows, StrictCopyEmpty
      <4>2. Len(Strict!CopyByte(NoCopy, quote_char).text) = Len(NoCopy.text) + 1
        BY <3>6, StrictCopyByte
      <4> QED
        BY <3>6, <4>1, <4>2
    <3>8. Len(Append(<<>>, quote_char)) = 1
      BY <3>6, AppendProperties DEF String
    <3>9. Len(Strict!Copy(Raw').text) = Len(Raw') - literals'
      BY <3>1, <3>5, <3>7, <3>8
    <3>10. CursorInv'
      BY <1>3, <2>1, <3>1, <3>9 DEF CursorInv
    <3> QED
      BY <1>4, <1>5, <2>1, <2>2, <3>10
  <2>3. CASE Strict!Enter(buffer, 1) /\ buffer[1] = delimiter /\ in_quotes' = in_quotes
             /\ incomplete_last_read' = FALSE
    <3>1. /\ status' = "parsing" /\ chunk' = buffer /\ field_start' = 1 /\ literals' = 0
      BY <2>3 DEF Strict!Enter
    <3>2. CursorInv'
      BY <1>3, <1>4, <2>1, <2>3, <3>1, FieldBegins
    <3> QED
      BY <1>1, <1>4, <1>5, <2>1, <2>3, <3>2
  <2>4. CASE /\ Strict!Return("need_more_data") \/ Strict!Return("complete")
                 \/ Strict!Return("fail")
             /\ in_quotes' \in {in_quotes, TRUE}
             /\ incomplete_last_read' \in {incomplete_last_read, TRUE}
    BY <1>1, <1>2, <1>3, <1>4, <2>1, <2>4, LeavingKeepsFields
  <2> QED
    BY <2>1, <2>2, <2>3, <2>4
<1>8. CASE Strict!ParseOn(buffer)
  <2>1. /\ ~pending_quote /\ consumed' = 0 /\ Strict!Enter(buffer, 0)
        /\ UNCHANGED <<fields, pending_cr, incomplete_last_read, in_quotes, pending_quote>>
    BY <1>8 DEF Strict!ParseOn
  <2>2. /\ status' = "parsing" /\ chunk' = buffer /\ field_start' = 0 /\ literals' = 0
    BY <2>1 DEF Strict!Enter
  <2>3. CursorInv'
    BY <1>1, <1>4, <2>1, <2>2, FieldBegins
  <2> QED
    BY <1>1, <1>4, <1>5, <2>1, <2>3
<1> QED
  BY <1>6, <1>7, <1>8 DEF Strict!Parse

-----------------------------------------------------------------------------
(***************************************************************************)
(* The lenient parser counts no literals: its fields need types only.       *)
(***************************************************************************)
\* add_field of the lenient parser leaves at least one field.
LEMMA LenientWithField ==
  ASSUME FieldInv, NEW end \in Nat, end <= Len(chunk)
  PROVE  Lenient!WithField(end) \in Fields
<1> DEFINE raw == SubSeq(chunk, field_start + 1, end)
           opened == raw # <<>> /\ raw[1] = quote_char
           rest == IF opened THEN Tail(raw) ELSE raw
           piece == Lenient!Unquoted(rest, quoted_field \/ opened)
<1>1. /\ chunk \in Seq(Char) /\ field_start \in Nat /\ fields \in Seq(String)
      /\ incomplete_last_read \in BOOLEAN /\ quoted_field \in BOOLEAN
  BY DEF FieldInv, ParserTypeOK, String
<1>2. Lenient!WithField(end) =
        IF incomplete_last_read THEN ExtendLast(fields, piece) ELSE Append(fields, piece)
  BY DEF Lenient!WithField, Lenient!is_quote, Lenient!ExtendLast, ExtendLast
<1>3. raw \in Seq(Char)
  BY <1>1, StretchIsSeq
<1> HIDE DEF raw
<1>4. rest \in String
  <2>1. raw # <<>> => Tail(raw) \in Seq(Char)
    BY <1>3, HeadTailProperties
  <2> QED
    BY <1>3, <2>1 DEF String
<1>5. (quoted_field \/ opened) \in BOOLEAN
  BY <1>1
<1> HIDE DEF rest, opened
<1>6. piece \in String
  BY <1>4, <1>5, UnquotedIsString
<1> HIDE DEF piece
<1>7. CASE incomplete_last_read
  <2>1. fields \in Fields
    BY <1>1, <1>7 DEF FieldInv, OpenFieldInv, Fields
  <2> QED
    BY <1>2, <1>6, <1>7, <2>1, ExtendLastFields
<1>8. CASE ~incomplete_last_read
  BY <1>1, <1>2, <1>6, <1>8, AppendFields
<1> QED
  BY <1>7, <1>8

\* Every turn of the lenient parser's loop.
LEMMA LenientStep ==
  ASSUME FieldInv, config.parse_mode = "lenient", Lenient!Step
  PROVE  FieldInv'
<1>1. status = "parsing"
  BY DEF Lenient!Step, Lenient!NewlineEndsRecord, Lenient!DelimEndsField,
     Lenient!EscapedQuote, Lenient!QuoteEndsChunk, Lenient!QuoteCloses,
     Lenient!QuoteOpensField, Lenient!SkipByte, Lenient!ChunkEnds, Lenient!OnByte
<1>2. /\ chunk \in Seq(Char) /\ Len(chunk) \in Nat /\ consumed \in Nat /\ field_start \in Nat
      /\ fields \in Seq(String) /\ pending_cr \in BOOLEAN
      /\ incomplete_last_read \in BOOLEAN /\ in_quotes \in BOOLEAN
      /\ pending_quote \in BOOLEAN /\ consumed <= Len(chunk) /\ field_start <= consumed
      /\ pending_quote \/ incomplete_last_read => fields # <<>>
      /\ field_start # 0 => chunk[field_start] \in {delimiter, quote_char}
  BY <1>1, LenProperties DEF FieldInv, ParserTypeOK, OpenFieldInv, CursorInv, String
<1>3. ASSUME NEW result \in ParseStatus, Lenient!Return(result)
      PROVE  /\ status' \in ParserStatus \ {"parsing"} /\ chunk' = <<>>
             /\ field_start' = 0 /\ literals' = 0 /\ quoted_field' = FALSE
  BY <1>3 DEF Lenient!Return, ParserStatus, ParseStatus
<1>4. {"complete", "need_more_data"} \subseteq ParseStatus
  BY DEF ParseStatus
<1>5. Lenient!WithField(consumed) \in Fields
  BY <1>2, LenientWithField
<1>6. CASE Lenient!NewlineEndsRecord
  <2>1. /\ config' = config /\ consumed' = consumed + 1 /\ incomplete_last_read' = FALSE
        /\ UNCHANGED <<pending_cr, in_quotes, pending_quote>> /\ Lenient!Return("complete")
        /\ \/ fields' = Lenient!WithField(consumed)
           \/ fields' = Lenient!WithField(consumed - 1) /\ consumed > 0
    BY <1>6 DEF Lenient!NewlineEndsRecord, Lenient!Advance, Lenient!PrecededByCr
  <2>2. consumed > 0 => consumed - 1 \in Nat /\ consumed - 1 <= Len(chunk)
    BY <1>2
  <2>3. fields' \in Fields /\ consumed' \in Nat
    BY <1>2, <1>5, <2>1, <2>2, LenientWithField
  <2> QED
    BY <1>2, <1>3, <1>4, <2>1, <2>3, LeavingKeepsFields DEF Fields
<1>7. CASE Lenient!QuoteEndsChunk \/ Lenient!ChunkEnds
  <2>1. /\ config' = config /\ consumed' \in {consumed, consumed + 1}
        /\ Lenient!Return("need_more_data") /\ fields' = Lenient!WithField(consumed)
        /\ in_quotes' \in {in_quotes, FALSE} /\ pending_quote' \in {pending_quote, TRUE}
        /\ incomplete_last_read' = TRUE
        /\ pending_cr' \in {pending_cr,
             pending_cr \/ (Lenient!crlf /\ ~in_quotes /\ Lenient!at(consumed - 1) = CR)}
    BY <1>7 DEF Lenient!QuoteEndsChunk, Lenient!ChunkEnds, Lenient!Advance
  <2>2. consumed' \in Nat
    BY <1>2, <2>1
  <2>3. in_quotes' \in BOOLEAN /\ pending_quote' \in BOOLEAN
    BY <1>2, <2>1
  <2>4. pending_cr' \in BOOLEAN
    <3>1. (pending_cr \/ (Lenient!crlf /\ ~in_quotes /\ Lenient!at(consumed - 1) = CR)) \in BOOLEAN
      OBVIOUS
    <3> QED
      BY <1>2, <2>1, <3>1, Zenon
  <2> QED
    BY <1>3, <1>4, <1>5, <2>1, <2>2, <2>3, <2>4, LeavingKeepsFields DEF Fields
<1>8. CASE Lenient!DelimEndsField
  <2>1. /\ UNCHANGED <<config, pending_cr, in_quotes, pending_quote, literals, chunk, status>>
        /\ fields' = Lenient!WithField(consumed) /\ incomplete_last_read' = FALSE
        /\ quoted_field' = FALSE /\ consumed' = consumed + 1 /\ field_start' = consumed + 1
        /\ consumed < Len(chunk) /\ chunk[consumed + 1] = delimiter
    BY <1>8 DEF Lenient!DelimEndsField, Lenient!OnByte, Lenient!Advance, Lenient!Continue,
       Lenient!is_delim, Lenient!at
  <2> DEFINE next == consumed + 1
  <2>2. next \in Nat /\ next <= Len(chunk) /\ consumed' = next /\ field_start' = next
        /\ chunk[next] = delimiter
    BY <1>2, <2>1
  <2> HIDE DEF next
  <2>3. CursorInv'
    <3>1. chunk' = chunk /\ chunk \in String /\ status' = "parsing"
      BY <1>1, <1>2, <2>1 DEF String
    <3> QED
      BY <2>1, <2>2, <3>1, FieldBegins
  <2>4. ParserTypeOK' /\ OpenFieldInv'
    BY <1>5, <2>1, <2>2 DEF FieldInv, ParserTypeOK, OpenFieldInv, Fields
  <2> QED
    BY <2>3, <2>4 DEF FieldInv
<1>9. CASE Lenient!EscapedQuote \/ Lenient!QuoteCloses \/ Lenient!QuoteOpensField
           \/ Lenient!SkipByte
  <2>1. /\ UNCHANGED <<config, fields, pending_cr, incomplete_last_read, pending_quote, locals>>
        /\ in_quotes' \in {in_quotes, TRUE, FALSE} /\ consumed < Len(chunk)
        /\ \/ consumed' = consumed + 1
           \/ consumed' = consumed + 2 /\ consumed + 1 # Len(chunk)
    BY <1>9 DEF Lenient!EscapedQuote, Lenient!QuoteCloses, Lenient!QuoteOpensField,
       Lenient!SkipByte, Lenient!OnByte, Lenient!Advance, Lenient!LastByte, Lenient!is_end,
       Lenient!locals, locals
  <2>2. consumed' \in Nat /\ consumed' <= Len(chunk) /\ field_start <= consumed'
    BY <1>2, <2>1
  <2>3. CursorInv'
    BY <1>2, <2>1, <2>2 DEF CursorInv, locals
  <2>4. ParserTypeOK' /\ OpenFieldInv'
    BY <2>1, <2>2 DEF FieldInv, ParserTypeOK, OpenFieldInv, locals
  <2> QED
    BY <2>3, <2>4 DEF FieldInv
<1> QED
  BY <1>6, <1>7, <1>8, <1>9 DEF Lenient!Step

\* A call of the lenient parser, whatever the last chunk ended in.
LEMMA LenientParse ==
  ASSUME FieldInv, config.parse_mode = "lenient", NEW buffer \in String,
         Lenient!Parse(buffer)
  PROVE  FieldInv'
<1>1. /\ buffer \in Seq(Char) /\ Len(buffer) \in Nat /\ fields \in Seq(String)
      /\ pending_cr \in BOOLEAN /\ incomplete_last_read \in BOOLEAN
      /\ in_quotes \in BOOLEAN /\ pending_quote \in BOOLEAN
      /\ pending_quote \/ incomplete_last_read => fields # <<>>
  BY LenProperties DEF FieldInv, ParserTypeOK, OpenFieldInv, String
<1>2. ASSUME NEW result \in ParseStatus, Lenient!Return(result)
      PROVE  /\ status' \in ParserStatus \ {"parsing"} /\ chunk' = <<>>
             /\ field_start' = 0 /\ literals' = 0 /\ quoted_field' = FALSE
  BY <1>2 DEF Lenient!Return, ParserStatus, ParseStatus
<1>3. buffer # <<>> /\ 1 <= Len(buffer) /\ config' = config
  <2>1. buffer # <<>> /\ config' = config
    BY DEF Lenient!Parse, Lenient!ParseAfterCr, Lenient!ParseAfterQuote, Lenient!ParseOn,
       Lenient!Entry
  <2>2. Len(buffer) # 0
    BY <1>1, <2>1, EmptySeq
  <2> QED
    BY <1>1, <2>1, <2>2
<1>4. {"complete", "need_more_data"} \subseteq ParseStatus /\ 1 \in Nat /\ 0 \in Nat
  BY DEF ParseStatus
\* parse() that goes on into the loop, at the front of the chunk or behind a byte
\* that ends or quotes something.
<1>5. ASSUME NEW from \in {0, 1}, NEW quoted \in BOOLEAN, Lenient!Enter(buffer, from, quoted),
             fields' \in Seq(String), fields # <<>> => fields' # <<>>,
             pending_cr' \in BOOLEAN, pending_quote' = FALSE, in_quotes' \in BOOLEAN,
             incomplete_last_read' \in {incomplete_last_read, FALSE}, consumed' = from,
             from = 1 => buffer[1] \in {delimiter, quote_char}
      PROVE  FieldInv'
  <2>1. /\ status' = "parsing" /\ chunk' = buffer /\ field_start' = from
        /\ literals' = 0 /\ quoted_field' = quoted
    BY <1>5 DEF Lenient!Enter
  <2>2. /\ from \in Nat /\ from <= Len(buffer)
        /\ from # 0 => buffer[from] \in {delimiter, quote_char}
    BY <1>1, <1>3, <1>5
  <2>3. ParserTypeOK'
    BY <1>1, <1>3, <1>5, <2>1, <2>2 DEF FieldInv, ParserTypeOK, ParserStatus
  <2>4. OpenFieldInv'
    BY <1>1, <1>5 DEF OpenFieldInv
  <2>5. CursorInv'
    BY <1>5, <2>1, <2>2, FieldBegins
  <2> QED
    BY <2>3, <2>4, <2>5 DEF FieldInv
<1>6. CASE Lenient!ParseAfterCr(buffer)
  <2>1. /\ UNCHANGED <<incomplete_last_read, in_quotes, pending_quote>>
        /\ pending_cr' = FALSE /\ consumed' = 1 /\ fields' = WithoutLastChar(fields)
        /\ Lenient!Return("complete")
    BY <1>6 DEF Lenient!ParseAfterCr, Lenient!WithoutLastChar, WithoutLastChar
  <2>2. /\ WithoutLastChar(fields) \in Seq(String)
        /\ fields # <<>> => WithoutLastChar(fields) # <<>>
    <3>1. WithoutLastChar(fields) \in Seq(String) /\ Len(WithoutLastChar(fields)) = Len(fields)
      BY <1>1, WithoutLastCharFields
    <3> QED
      BY <1>1, <3>1, EmptySeq
  <2> QED
    BY <1>1, <1>2, <1>3, <1>4, <2>1, <2>2, LeavingKeepsFields
<1>7. CASE Lenient!ParseAfterQuote(buffer)
  <2>1. pending_quote /\ pending_quote' = FALSE
        /\ pending_cr' = (pending_cr /\ ~Lenient!crlf)
    BY <1>7 DEF Lenient!ParseAfterQuote, Lenient!CrIsData
  <2>2. pending_cr' \in BOOLEAN
    BY <1>1, <2>1
  <2>3. \/ /\ in_quotes' = TRUE /\ buffer[1] = quote_char /\ consumed' = 1
           /\ fields' = ExtendLast(fields, <<quote_char>>)
           /\ \/ incomplete_last_read' = TRUE /\ Lenient!Return("need_more_data")
              \/ incomplete_last_read' = incomplete_last_read /\ Lenient!Enter(buffer, 1, TRUE)
        \/ /\ consumed' = 1 /\ UNCHANGED <<fields, in_quotes, incomplete_last_read>>
           /\ Lenient!Return("complete")
        \/ /\ consumed' = 1 /\ incomplete_last_read' = FALSE /\ UNCHANGED <<fields, in_quotes>>
           /\ buffer[1] = delimiter /\ Lenient!Enter(buffer, 1, in_quotes)
        \/ /\ consumed' = 0 /\ in_quotes' = FALSE /\ UNCHANGED <<fields, incomplete_last_read>>
           /\ Lenient!Enter(buffer, 0, FALSE)
    BY <1>7 DEF Lenient!ParseAfterQuote, Lenient!is_quote, Lenient!is_delim,
       Lenient!ExtendLast, ExtendLast
  <2>4. fields \in Fields /\ ExtendLast(fields, <<quote_char>>) \in Fields
    <3>1. fields \in Fields /\ <<quote_char>> \in String
      BY <1>1, <2>1 DEF Fields, String, Char
    <3> QED
      BY <3>1, ExtendLastFields
  <2>5. fields' \in Seq(String) /\ fields' # <<>>
    BY <2>3, <2>4 DEF Fields
  <2>6. CASE Lenient!Enter(buffer, 1, TRUE) /\ buffer[1] = quote_char /\ consumed' = 1
             /\ incomplete_last_read' = incomplete_last_read /\ in_quotes' = TRUE
    BY <1>5, <2>1, <2>2, <2>5, <2>6
  <2>7. CASE Lenient!Enter(buffer, 1, in_quotes) /\ buffer[1] = delimiter /\ consumed' = 1
             /\ incomplete_last_read' = FALSE /\ in_quotes' = in_quotes
    BY <1>1, <1>5, <2>1, <2>2, <2>5, <2>7
  <2>8. CASE Lenient!Enter(buffer, 0, FALSE) /\ consumed' = 0
             /\ incomplete_last_read' = incomplete_last_read /\ in_quotes' = FALSE
    <3>1. 0 \in {0, 1} /\ FALSE \in BOOLEAN /\ (0 = 1 => buffer[1] \in {delimiter, quote_char})
      OBVIOUS
    <3>2. /\ in_quotes' \in BOOLEAN /\ pending_quote' = FALSE
          /\ incomplete_last_read' \in {incomplete_last_read, FALSE}
          /\ fields # <<>> => fields' # <<>>
      BY <2>1, <2>5, <2>8
    <3> QED
      BY <1>5, <2>2, <2>5, <2>8, <3>1, <3>2
  <2>9. CASE /\ Lenient!Return("need_more_data") \/ Lenient!Return("complete")
             /\ in_quotes' \in {in_quotes, TRUE} /\ consumed' = 1
             /\ incomplete_last_read' \in {incomplete_last_read, TRUE}
    <3>1. in_quotes' \in BOOLEAN /\ incomplete_last_read' \in BOOLEAN
      BY <1>1, <2>9
    <3> QED
      BY <1>2, <1>3, <1>4, <2>1, <2>2, <2>5, <2>9, <3>1, LeavingKeepsFields
  <2> QED
    BY <2>3, <2>6, <2>7, <2>8, <2>9
<1>8. CASE Lenient!ParseOn(buffer)
  <2>1. /\ ~pending_quote /\ consumed' = 0 /\ Lenient!Enter(buffer, 0, in_quotes)
        /\ UNCHANGED <<fields, incomplete_last_read, in_quotes, pending_quote>>
        /\ pending_cr' = (pending_cr /\ ~Lenient!crlf)
    BY <1>8 DEF Lenient!ParseOn, Lenient!CrIsData
  <2>2. pending_cr' \in BOOLEAN /\ pending_quote' = FALSE
    BY <1>1, <2>1
  <2>3. 0 \in {0, 1} /\ (0 = 1 => buffer[1] \in {delimiter, quote_char})
    OBVIOUS
  <2>4. /\ fields' \in Seq(String) /\ in_quotes' \in BOOLEAN
        /\ incomplete_last_read' \in {incomplete_last_read, FALSE}
        /\ fields # <<>> => fields' # <<>>
    BY <1>1, <2>1
  <2> QED
    BY <1>1, <1>5, <2>1, <2>2, <2>3, <2>4
<1> QED
  BY <1>6, <1>7, <1>8 DEF Lenient!Parse

-----------------------------------------------------------------------------
(***************************************************************************)
(* A call of the simple parser, and of whichever parser there is.           *)
(***************************************************************************)
\* A call of the simple parser always leaves.
LEMMA SimpleParse ==
  ASSUME FieldInv, NEW buffer \in String, Simple!Parse(buffer)
  PROVE  FieldInv'
<1> DEFINE newline_at == Simple!newline_pos(buffer)
<1>1. /\ buffer \in Seq(Char) /\ Len(buffer) \in Nat /\ fields \in Seq(String)
      /\ pending_cr \in BOOLEAN /\ incomplete_last_read \in BOOLEAN
      /\ in_quotes \in BOOLEAN /\ pending_quote \in BOOLEAN
      /\ pending_quote \/ incomplete_last_read => fields # <<>>
  BY LenProperties DEF FieldInv, ParserTypeOK, OpenFieldInv, String
<1>2. ASSUME NEW result \in ParseStatus \cup {"undefined"}, Simple!Return(result)
      PROVE  /\ status' \in ParserStatus \ {"parsing"} /\ chunk' = <<>>
             /\ field_start' = 0 /\ literals' = 0 /\ quoted_field' = FALSE
  BY <1>2 DEF Simple!Return, ParserStatus, ParseStatus
<1>3. UNCHANGED <<config, in_quotes, pending_quote>>
  BY DEF Simple!Parse
<1>4. newline_at \in 0 .. Len(buffer)
  <2>1. PICK p \in {NoPosition} \cup 0 .. Len(buffer) - 1 : newline_at = p + 1
    BY SimpleNewline
  <2> QED
    BY <1>1, <2>1 DEF NoPosition
<1>5. ASSUME NEW str \in String, Simple!insert_fields(Simple!split(str))
      PROVE  fields' \in Fields
  <2> DEFINE pieces == Simple!split(str)
  <2>1. fields' = IF incomplete_last_read /\ fields # <<>>
                  THEN ExtendLast(fields, pieces[1]) \o Tail(pieces) ELSE fields \o pieces
    BY <1>5 DEF Simple!insert_fields, Simple!ExtendLast, ExtendLast
  <2>2. pieces \in Fields
    BY SplitIsFields, SimpleSplit
  <2> HIDE DEF pieces
  <2> QED
    BY <1>1, <2>1, <2>2, JoinFields
<1>6. {"complete", "need_more_data"} \subseteq ParseStatus
  BY DEF ParseStatus
<1> HIDE DEF newline_at
<1>7. CASE Simple!NoNewline(buffer)
  <2>1. /\ Simple!insert_fields(Simple!split(buffer)) /\ consumed' = Len(buffer)
        /\ incomplete_last_read' = TRUE /\ Simple!Return("need_more_data")
        /\ pending_cr' = (pending_cr \/ Simple!Last(buffer) = CR)
    BY <1>7 DEF Simple!NoNewline
  <2>2. fields' \in Fields /\ pending_cr' \in BOOLEAN /\ consumed' \in Nat
    BY <1>1, <1>5, <2>1
  <2> QED
    BY <1>1, <1>2, <1>3, <1>6, <2>1, <2>2, LeavingKeepsFields DEF Fields
<1>8. CASE Simple!BlankLineAfterCr(buffer)
  <2>1. /\ pending_cr' = FALSE /\ incomplete_last_read' = FALSE
        /\ consumed' = newline_at /\ fields' = WithoutLastChar(fields)
        /\ Simple!Return("undefined") \/ Simple!Return("complete")
    BY <1>8 DEF Simple!BlankLineAfterCr, Simple!WithoutLastChar, WithoutLastChar, newline_at
  <2>2. /\ WithoutLastChar(fields) \in Seq(String)
        /\ fields # <<>> => WithoutLastChar(fields) # <<>>
    <3>1. WithoutLastChar(fields) \in Seq(String) /\ Len(WithoutLastChar(fields)) = Len(fields)
      BY <1>1, WithoutLastCharFields
    <3> QED
      BY <1>1, <3>1, EmptySeq
  <2>3. consumed' \in Nat
    BY <1>4, <2>1
  <2> QED
    BY <1>1, <1>2, <1>3, <1>6, <2>1, <2>2, <2>3, LeavingKeepsFields
<1>9. CASE Simple!BlankLine(buffer)
  <2>1. /\ incomplete_last_read' = FALSE /\ consumed' = newline_at
        /\ Simple!Return("complete") /\ UNCHANGED <<fields, pending_cr>>
    BY <1>9 DEF Simple!BlankLine, newline_at
  <2>2. consumed' \in Nat
    BY <1>4, <2>1
  <2> QED
    BY <1>1, <1>2, <1>3, <1>6, <2>1, <2>2, LeavingKeepsFields
<1>10. CASE Simple!Line(buffer)
  <2>1. /\ newline_at # 0 /\ Simple!insert_fields(Simple!split(Simple!line(buffer)))
        /\ incomplete_last_read' = FALSE /\ consumed' = newline_at
        /\ Simple!Return("complete") /\ pending_cr' = pending_cr
    BY <1>10 DEF Simple!Line, newline_at
  <2>2. Simple!line(buffer) \in String
    <3> DEFINE p == newline_at - 1
    <3>1. p \in 0 .. Len(buffer) - 1 /\ newline_at = p + 1
      BY <1>1, <1>4, <2>1
    <3> HIDE DEF p
    <3>2. /\ line_end(buffer, p, crlf) \in 0 .. p
          /\ Simple!line(buffer) = SubSeq(buffer, 1, line_end(buffer, p, crlf))
      BY <3>1, SimpleLine DEF newline_at
    <3> DEFINE end == line_end(buffer, p, crlf)
    <3>3. end \in Nat /\ end <= Len(buffer) /\ 0 \in Nat /\ 0 + 1 = 1
      BY <1>1, <3>1, <3>2
    <3> HIDE DEF end
    <3>4. SubSeq(buffer, 0 + 1, end) \in Seq(Char)
      BY <1>1, <3>3, StretchIsSeq
    <3> QED
      BY <3>2, <3>3, <3>4 DEF end, String
  <2>3. fields' \in Fields /\ consumed' \in Nat
    BY <1>4, <1>5, <2>1, <2>2
  <2> QED
    BY <1>1, <1>2, <1>3, <1>6, <2>1, <2>3, LeavingKeepsFields DEF Fields
<1> QED
  BY <1>7, <1>8, <1>9, <1>10 DEF Simple!Parse

\* Whichever parser the configuration asks for.
LEMMA ParseKeepsFields ==
  ASSUME FieldInv, NEW buffer \in String, parse(buffer)
  PROVE  FieldInv'
<1>1. CASE Strict!Parse(buffer)
  BY <1>1, StrictParse
<1>2. CASE config.parse_mode = "lenient" /\ Lenient!Parse(buffer)
  BY <1>2, LenientParse
<1>3. CASE Simple!Parse(buffer)
  BY <1>3, SimpleParse
<1>4. CASE Simd!Parse(buffer)
  BY <1>4, SimdIsSimple, SimpleParse
<1> QED
  BY <1>1, <1>2, <1>3, <1>4 DEF parse

\* And a turn of its loop.
LEMMA StepKeepsFields == ASSUME FieldInv, parse_step PROVE FieldInv'
<1>1. Strict!Step => FieldInv'
  BY StrictStep
<1>2. config.parse_mode = "lenient" /\ Lenient!Step => FieldInv'
  BY LenientStep
<1> QED
  BY <1>1, <1>2 DEF parse_step

-----------------------------------------------------------------------------
(***************************************************************************)
(* The reader's steps.                                                      *)
(***************************************************************************)
\* Outside parse() nothing is asked of the cursor.
LEMMA OutsideKeepsFields ==
  ASSUME FieldInv, status' = "idle",
         UNCHANGED <<config, members, chunk, field_start, literals, quoted_field>>
  PROVE  FieldInv'
BY DEF FieldInv, ParserTypeOK, OpenFieldInv, CursorInv, members, base_members, ParserStatus

\* reset() at the start of next().
LEMMA ResetKeepsFields ==
  ASSUME FieldInv, status = "idle", reset, UNCHANGED <<config, locals>>
  PROVE  FieldInv'
<1>1. /\ fields' \in Seq(String) /\ pending_cr' = FALSE /\ incomplete_last_read' = FALSE
      /\ consumed' \in Nat /\ in_quotes' = FALSE /\ pending_quote' = FALSE
  BY EmptySeq DEF reset, base_reset
<1>2. UNCHANGED <<config, chunk, field_start, literals, quoted_field, status>>
  BY DEF locals
<1>3. ParserTypeOK'
  BY <1>1, <1>2 DEF FieldInv, ParserTypeOK
<1>4. OpenFieldInv' /\ CursorInv'
  BY <1>1, <1>2 DEF OpenFieldInv, CursorInv
<1> QED
  BY <1>3, <1>4 DEF FieldInv

\* The rows, the block and the parser, for the type invariant.
DataInv ==
  /\ RowTypes
  /\ BytesInv
  /\ FieldInv
  /\ current_record \in Seq(String)

LEMMA InitData == Init => DataInv
<1> SUFFICES ASSUME Init PROVE DataInv
  OBVIOUS
<1>1. RowTypes /\ BytesInv
  BY InitRows, InitBytes DEF Init
<1>2. /\ config \in Config /\ current_record = <<>> /\ fields = <<>> /\ chunk = <<>>
      /\ pending_cr = FALSE /\ incomplete_last_read = FALSE /\ consumed = 0
      /\ status = "idle" /\ in_quotes = FALSE /\ pending_quote = FALSE
      /\ field_start = 0 /\ literals = 0 /\ quoted_field = FALSE
  BY ReaderAssumption DEF Init, ReaderInit, ParserInit, ParserBaseInit
<1>3. current_record \in Seq(String) /\ fields \in Seq(String) /\ chunk \in String
  BY <1>2, EmptySeq DEF String
<1>4. FieldInv
  BY <1>2, <1>3 DEF FieldInv, ParserTypeOK, OpenFieldInv, CursorInv, ParserStatus
<1> QED
  BY <1>1, <1>3, <1>4 DEF DataInv

\* A record of strings makes rows of strings.
LEMMA SaveKeepsData ==
  ASSUME DataInv, SaveRecord(fields, fields)
  PROVE  RowTypes' /\ current_record' \in Seq(String)
<1>1. fields \in Seq(String) /\ RowTypes /\ current_record \in Seq(String)
  BY DEF DataInv, FieldInv, ParserTypeOK
<1>2. RowTypes' /\ current_record' \in {fields, <<>>, current_record}
  BY <1>1, SaveKeepsRows
<1> QED
  BY <1>1, <1>2, EmptySeq

\* A call that hands out no row.
LEMMA EndKeepsData ==
  ASSUME DataInv, NEW result \in Outcomes, End(result), failed' \in BOOLEAN, parsed' = parsed
  PROVE  RowTypes' /\ current_record' \in Seq(String)
<1>1. RowTypes /\ current_record \in Seq(String) /\ parsed' \in Seq(Seq(String))
  BY DEF DataInv, RowTypes
<1>2. RowTypes' /\ UNCHANGED current_record
  BY <1>1, EndKeepsRows
<1> QED
  BY <1>1, <1>2

LEMMA ReturnFalseKeepsData ==
  ASSUME DataInv, ReturnFalse
  PROVE  RowTypes' /\ current_record' \in Seq(String)
<1>1. "end" \in Outcomes /\ End("end") /\ parsed' = parsed /\ failed' \in BOOLEAN
  BY DEF ReturnFalse, Outcomes, DataInv, RowTypes
<1> QED
  BY <1>1, EndKeepsData

\* The rows do not change.
LEMMA RowsUnchanged ==
  ASSUME DataInv, UNCHANGED reader_vars
  PROVE  RowTypes' /\ current_record' \in Seq(String)
BY DEF DataInv, RowTypes, reader_vars, row_vars

\* The block does not change.
LEMMA BlockUnchanged ==
  ASSUME BytesInv, UNCHANGED buffer_vars
  PROVE  BytesInv'
BY DEF BytesInv, buffer_vars

\* Construction and the start of a call.
LEMMA OutsideKeepsData ==
  ASSUME SInv, DataInv, Construct \/ CallReader
  PROVE  DataInv'
<1>1. /\ \/ RejectConfig \/ RejectBuffer \/ ConstructWithoutHeader \/ ConstructWithHeader
         \/ CallNext
      /\ UNCHANGED buffer_vars /\ pc # "next"
  BY DEF Construct, CallReader, RejectConfig, RejectBuffer, Rejects,
     ConstructWithoutHeader, ConstructWithHeader, Constructs, CallNext
<1>2. status = "idle" /\ config \in Configs
  BY <1>1 DEF SInv, IInv, ParserInv, BaseInv, ControlInv
<1>3. RowTypes' /\ UNCHANGED current_record
  BY <1>1, <1>2, OutsideKeepsRows DEF DataInv
<1>4. BytesInv'
  BY <1>1, BlockUnchanged DEF DataInv
<1>5. FieldInv'
  <2>1. UNCHANGED parser_vars \/ (reset /\ UNCHANGED <<config, locals>>)
    BY DEF Construct, CallReader
  <2>2. CASE UNCHANGED parser_vars
    BY <1>2, <2>2, OutsideKeepsFields DEF DataInv, parser_vars, locals
  <2>3. CASE reset /\ UNCHANGED <<config, locals>>
    BY <1>2, <2>3, ResetKeepsFields DEF DataInv
  <2> QED
    BY <2>1, <2>2, <2>3
<1> QED
  BY <1>3, <1>4, <1>5 DEF DataInv

\* The loop of next().
LEMMA NextStepKeepsData ==
  ASSUME SInv, DataInv, NextStep
  PROVE  DataInv'
<1>1. BytesInv /\ FieldInv /\ consumed \in Nat
  BY DEF DataInv, FieldInv, ParserTypeOK
<1>2. CASE RefillBuffer
  <2>1. /\ status = "idle" /\ refill /\ UNCHANGED parser_vars
        /\ RefillBrings \/ RefillAtEof \/ RefillFails
    BY <1>2 DEF RefillBuffer
  <2>2. BytesInv'
    <3>1. config' = config
      BY <2>1 DEF parser_vars
    <3> QED
      BY <1>1, <2>1, <3>1, RefillKeepsBytes DEF SInv
  <2>3. FieldInv'
    BY <1>1, <2>1, OutsideKeepsFields DEF parser_vars, locals
  <2>4. RowTypes' /\ current_record' \in Seq(String)
    <3>1. CASE UNCHANGED reader_vars
      BY <3>1, RowsUnchanged
    <3>2. CASE ReturnFalse
      BY <3>2, ReturnFalseKeepsData
    <3>3. CASE SaveRecord(fields, fields)
      BY <3>3, SaveKeepsData
    <3> QED
      BY <2>1, <3>1, <3>2, <3>3 DEF RefillBrings, RefillAtEof, RefillFails
  <2> QED
    BY <2>2, <2>3, <2>4 DEF DataInv
<1>3. CASE CallParse \/ ParseStep
  <2>1. /\ UNCHANGED buffer_vars /\ UNCHANGED reader_vars
        /\ parse(buffer_view) \/ parse_step
    BY <1>3 DEF CallParse, ParseStep
  <2>2. FieldInv'
    BY <1>1, <2>1, ViewIsString, ParseKeepsFields, StepKeepsFields
  <2> QED
    BY <1>1, <2>1, <2>2, RowsUnchanged, BlockUnchanged DEF DataInv
<1>4. ASSUME NEW result, ParseReturns(result)
      PROVE  BytesInv' /\ FieldInv'
  <2>1. /\ status' = "idle" /\ consume(consumed)
        /\ UNCHANGED <<config, members, chunk, field_start, literals, quoted_field>>
    BY <1>4 DEF ParseReturns
  <2> QED
    BY <1>1, <2>1, ConsumeKeepsBytes, OutsideKeepsFields
<1>5. CASE NeedMoreData
  BY <1>4, <1>5, RowsUnchanged DEF NeedMoreData, DataInv
<1>6. CASE Complete
  BY <1>4, <1>6, SaveKeepsData DEF Complete, DataInv
<1>7. CASE ParseFails
  <2>1. /\ "ParseError" \in Outcomes /\ End("ParseError") /\ failed' \in BOOLEAN
        /\ parsed' = parsed
    BY <1>7 DEF ParseFails, ThrowInLine, Outcomes
  <2> QED
    BY <1>4, <1>7, <2>1, EndKeepsData DEF ParseFails, DataInv
<1> QED
  BY <1>2, <1>3, <1>5, <1>6, <1>7 DEF NextStep

LEMMA NextKeepsData == SInv /\ DataInv /\ [Next]_vars => DataInv'
<1> SUFFICES ASSUME SInv, DataInv, [Next]_vars PROVE DataInv'
  OBVIOUS
<1>1. CASE UNCHANGED vars
  <2>1. /\ UNCHANGED buffer_vars /\ UNCHANGED reader_vars
        /\ UNCHANGED <<config, fields, pending_cr, incomplete_last_read, consumed, in_quotes,
                       pending_quote, chunk, field_start, literals, quoted_field, status>>
    BY <1>1 DEF vars, parser_vars, members, base_members, locals
  <2>2. FieldInv'
    BY <2>1 DEF DataInv, FieldInv, ParserTypeOK, OpenFieldInv, CursorInv, Raw
  <2> QED
    BY <2>1, <2>2, RowsUnchanged, BlockUnchanged DEF DataInv
<1> QED
  BY <1>1, OutsideKeepsData, NextStepKeepsData DEF Next

\* Types hold in every state; the refill needs what is known of the stream.
LEMMA DataInvariant == Spec => [](SInv /\ DataInv)
<1>1. Init => SInv /\ DataInv
  BY InitSource, InitData
<1>2. SInv /\ DataInv /\ [Next]_vars => SInv' /\ DataInv'
  BY NextImplements, NextKeepsData
<1> QED
  BY <1>1, <1>2, PTL DEF Spec

\* Types, for every parser, vector width, file and block size: what the parsers
\* build byte by byte out of the chunk, and put together across chunks, is always
\* strings, and parse() never looks into a block that was not filled.
THEOREM TypeCorrect == Spec => []TypeOK
<1>1. SInv /\ DataInv => TypeOK
  BY DEF SInv, IInv, BaseInv, ControlInv, DataInv, FieldInv, BytesInv, RowTypes,
     Outcomes, TypeOK, ReaderTypeOK
<1> QED
  BY <1>1, DataInvariant, PTL

\* No branch of a quoting parser looks behind its chunk or copies from outside it,
\* the '\r' a newline takes off a field is a byte of that field, the strict parser's
\* copy of a field is as long as its count of literals says, and back() is asked of
\* fields only: for every file, block size and alphabet, read errors included.
THEOREM CursorInBounds == Spec => []FieldsInBounds
<1>1. SInv /\ DataInv => FieldsInBounds
  <2> SUFFICES ASSUME FieldInv, status = "parsing" PROVE
        /\ consumed <= Len(chunk)
        /\ field_start <= consumed
        /\ Strict!OnByte /\ crlf /\ ~in_quotes /\ is_newline(at(consumed))
             /\ Strict!PrecededByCr => field_start < consumed
        /\ config.parse_mode = "strict" => Len(Strict!Unescaped(Raw)) = Len(Raw) - literals
        /\ incomplete_last_read => fields # <<>>
    BY DEF DataInv, FieldsInBounds, Raw
  <2>1. /\ chunk \in Seq(Char) /\ Len(chunk) \in Nat /\ consumed \in Nat /\ field_start \in Nat
        /\ literals \in Nat
        /\ consumed <= Len(chunk) /\ field_start <= consumed
        /\ field_start # 0 => chunk[field_start] \in {delimiter, quote_char}
        /\ config.parse_mode = "strict" => Len(Strict!Copy(Raw).text) = Len(Raw) - literals
    BY LenProperties DEF FieldInv, ParserTypeOK, CursorInv, String
  <2>2. ASSUME Strict!PrecededByCr PROVE field_start < consumed
    <3>1. consumed > 0 /\ chunk[consumed - 1 + 1] = CR
      BY <2>2 DEF Strict!PrecededByCr, Strict!at
    <3>2. consumed - 1 + 1 = consumed
      BY <2>1
    <3>3. field_start # consumed
      BY <2>1, <3>1, <3>2, CharAssumption
    <3> QED
      BY <2>1, <3>3
  <2>3. ASSUME config.parse_mode = "strict"
        PROVE  Len(Strict!Unescaped(Raw)) = Len(Raw) - literals
    <3>1. CASE literals = 0
      <4>1. Len(Raw) \in Nat
        <5>1. Raw \in Seq(Char)
          BY <2>1, StretchIsSeq DEF Raw
        <5> QED
          BY <5>1, LenProperties
      <4> QED
        BY <3>1, <4>1 DEF Strict!Unescaped
    <3>2. CASE literals # 0
      BY <2>1, <2>3, <3>2 DEF Strict!Unescaped
    <3> QED
      BY <3>1, <3>2
  <2>4. incomplete_last_read => fields # <<>>
    BY DEF FieldInv, OpenFieldInv
  <2> QED
    BY <2>1, <2>2, <2>3, <2>4
<1> QED
  BY <1>1, DataInvariant, PTL

-----------------------------------------------------------------------------
(***************************************************************************)
(* The record so far and what the next chunk adds to it.                    *)
(***************************************************************************)
\* The place of the first newline.
LEMMA FirstNewline ==
  ASSUME NEW buffer \in String
  PROVE  LET p == Simple!newline_pos(buffer)
             nl == newline(config.line_ending)
         IN  /\ p \in 0 .. Len(buffer)
             /\ p = 0 => \A i \in 1 .. Len(buffer) : buffer[i] # nl
             /\ p # 0 => buffer[p] = nl /\ \A i \in 1 .. p - 1 : buffer[i] # nl
<1> DEFINE nl == newline(config.line_ending)
           found == {i \in 1 .. Len(buffer) : buffer[i] = nl}
           p == Simple!newline_pos(buffer)
<1>1. Len(buffer) \in Nat
  BY LenProperties DEF String
<1>2. p = IF found # {} THEN Min(found) ELSE 0
  BY DEF Simple!newline_pos, Simple!SelectInSeq, Simple!is_newline, Simple!newline, newline,
     Simple!Min, Min
<1>3. /\ found \subseteq Nat
      /\ found # {} => Min(found) \in found /\ \A y \in found : Min(found) <= y
  <2>1. found \subseteq Nat
    OBVIOUS
  <2> HIDE DEF found
  <2> QED
    BY <2>1, MinIsLeast
<1> HIDE DEF p, nl
<1>4. CASE found = {}
  BY <1>1, <1>2, <1>4 DEF p, nl
<1>5. CASE found # {}
  <2>1. p \in found /\ \A y \in found : p <= y
    BY <1>2, <1>3, <1>5
  <2>2. p \in 1 .. Len(buffer) /\ buffer[p] = nl
    BY <2>1
  <2>3. ASSUME NEW i \in 1 .. p - 1 PROVE buffer[i] # nl
    <3>1. i \in 1 .. Len(buffer) /\ ~(p <= i)
      BY <1>1, <2>2
    <3> QED
      BY <2>1, <3>1
  <2> QED
    BY <1>1, <2>2, <2>3 DEF p, nl
<1> QED
  BY <1>4, <1>5

-----------------------------------------------------------------------------
(***************************************************************************)
(* Where a record ends: the '\r' before the newline, and the blank line.    *)
(***************************************************************************)
\* In CRLF a '\r' that ends a chunk has its '\n', and the two are no blank line.
LEMMA CrThenLf ==
  ASSUME ~config.has_quoting, ~Sensitive, crlf, NEW b \in Cuts, file[b] = CR
  PROVE  file[b + 1] = LF /\ b # 1 /\ file[b - 1] # LF
<1>1. ~SimpleSensitive
  BY DEF Sensitive
<1> QED
  BY <1>1 DEF SimpleSensitive

-----------------------------------------------------------------------------
(***************************************************************************)
(* A call of the simple parser.                                             *)
(***************************************************************************)
\* The parser is in the record the pass is in behind byte i of the file, and a
\* pending '\r' is that byte.
HoldsRecord(i) ==
  /\ ~Fresh(At(i)) /\ fields = Open(At(i)) /\ incomplete_last_read
  /\ crlf => (pending_cr <=> file[i] = CR)

\* The parser is in a record, or between two.
ParserAt(i) == HoldsRecord(i) \/ (Fresh(At(i)) /\ fields = <<>> /\ ~pending_cr)

\* insert_fields() goes on with the record that is held.
LEMMA Inserts ==
  ASSUME NEW t, ParserAt(t), NEW pieces \in Fields, Simple!insert_fields(pieces)
  PROVE  fields' = Merged(fields, pieces)
<1>1. fields' = IF incomplete_last_read /\ fields # <<>>
                THEN ExtendLast(fields, pieces[1]) \o Tail(pieces) ELSE fields \o pieces
  BY DEF Simple!insert_fields, Simple!ExtendLast, ExtendLast
<1>2. CASE fields = <<>>
  <2>1. pieces \in Seq(String)
    BY DEF Fields
  <2>2. <<>> \o pieces = pieces
    BY <2>1, ConcatEmptySeq
  <2> QED
    BY <1>1, <1>2, <2>2 DEF Merged
<1>3. CASE fields # <<>>
  <2>1. incomplete_last_read
    BY <1>3 DEF ParserAt, HoldsRecord
  <2> QED
    BY <1>1, <1>3, <2>1 DEF Merged, ExtendLast, Extended
<1> QED
  BY <1>2, <1>3

\* A stretch without a newline is inserted as the pass has read it.
LEMMA InsertsStretch ==
  ASSUME ~config.has_quoting, file \in String, NEW t \in Nat, NEW n \in Nat,
         t + n <= Len(file), n # 0,
         \A i \in t + 1 .. t + n : file[i] # newline(config.line_ending),
         ParserAt(t), Simple!insert_fields(Simple!split(SubSeq(file, t + 1, t + n)))
  PROVE  fields' = Open(At(t + n)) /\ ~Fresh(At(t + n)) /\ At(t + n).records = At(t).records
<1>1. Held(fields, At(t))
  BY DEF ParserAt, HoldsRecord, Held
<1>2. /\ Open(At(t + n)) = Merged(fields, Simple!split(SubSeq(file, t + 1, t + n)))
      /\ At(t + n).records = At(t).records
  BY <1>1, StretchSplits, SimpleSplit
<1>3. Simple!split(SubSeq(file, t + 1, t + n)) \in Fields
  <2>1. SubSeq(file, t + 1, t + n) \in String
    BY StretchBytes
  <2> QED
    BY <2>1, SplitIsFields, SimpleSplit
<1>4. fields' = Merged(fields, Simple!split(SubSeq(file, t + 1, t + n)))
  <2> DEFINE pieces == Simple!split(SubSeq(file, t + 1, t + n))
  <2>1. pieces \in Fields /\ Simple!insert_fields(pieces)
    BY <1>3
  <2> HIDE DEF pieces
  <2>2. fields' = Merged(fields, pieces)
    BY <2>1, Inserts
  <2> QED
    BY <2>2 DEF pieces
<1>5. ~Fresh(At(t + n))
  <2> DEFINE e == t + n
  <2>1. e \in Nat /\ e <= Len(file) /\ e # 0 /\ e \in t + 1 .. t + n
    OBVIOUS
  <2>2. file[e] # newline(config.line_ending)
    BY <2>1
  <2> HIDE DEF e
  <2>3. ~Fresh(At(e))
    BY <2>1, <2>2, FreshAt
  <2> QED
    BY <2>3 DEF e
<1> QED
  BY <1>2, <1>4, <1>5

\* A record whose last byte is taken off.
LEMMA WithoutLastOf ==
  ASSUME NEW front \in Seq(String), NEW text \in String, text # <<>>
  PROVE  WithoutLastChar(Append(front, text)) = Append(front, SubSeq(text, 1, Len(text) - 1))
<1> DEFINE fs == Append(front, text)
           shorter == SubSeq(text, 1, Len(text) - 1)
           want == Append(front, shorter)
<1>1. /\ fs \in Seq(String) /\ Len(fs) = Len(front) + 1 /\ Len(front) \in Nat
      /\ fs[Len(front) + 1] = text /\ \A k \in 1 .. Len(front) : fs[k] = front[k]
  BY FrontOfAppend
<1>2. shorter \in String
  <2>1. text \in Seq(Char) /\ Len(text) \in Nat /\ Len(text) # 0
    BY EmptySeq, LenProperties DEF String
  <2> DEFINE b == Len(text) - 1
  <2>2. b \in Nat /\ b <= Len(text)
    BY <2>1
  <2> HIDE DEF b
  <2>3. SubSeq(text, 0 + 1, b) \in Seq(Char)
    BY <2>1, <2>2, StretchIsSeq
  <2>4. SubSeq(text, 1, b) \in Seq(Char)
    BY <2>3
  <2> QED
    BY <2>4 DEF b, String
<1> HIDE DEF shorter
<1>3. /\ want \in Seq(String) /\ Len(want) = Len(front) + 1
      /\ want[Len(front) + 1] = shorter /\ \A k \in 1 .. Len(front) : want[k] = front[k]
  BY <1>2, FrontOfAppend
<1> HIDE DEF fs, want
<1>4. fs # <<>> /\ fs[Len(fs)] # <<>>
  BY <1>1
<1>5. WithoutLastChar(fs) = [fs EXCEPT ![Len(fs)] = shorter]
  BY <1>1, <1>4 DEF WithoutLastChar, shorter
<1>6. [fs EXCEPT ![Len(fs)] = shorter] = want
  <2> DEFINE cut == [fs EXCEPT ![Len(fs)] = shorter]
  <2>1. Len(fs) \in 1 .. Len(fs)
    BY <1>1
  <2>2. cut \in Seq(String) /\ Len(cut) = Len(fs)
    BY <1>1, <1>2, <2>1, ExceptSeq
  <2>3. \A k \in 1 .. Len(fs) : cut[k] = IF k = Len(fs) THEN shorter ELSE fs[k]
    BY <1>1, <1>2, <2>1, ExceptSeq
  <2> HIDE DEF cut
  <2>4. ASSUME NEW k \in 1 .. Len(cut) PROVE cut[k] = want[k]
    <3>1. CASE k = Len(front) + 1
      BY <1>1, <1>3, <2>2, <2>3, <3>1
    <3>2. CASE k # Len(front) + 1
      <4>1. k \in 1 .. Len(front)
        BY <1>1, <2>2, <3>2
      <4> QED
        BY <1>1, <1>3, <2>2, <2>3, <3>2, <4>1
    <3> QED
      BY <3>1, <3>2
  <2>5. cut = want
    BY <1>1, <1>3, <2>2, <2>4, SeqEqual
  <2> QED
    BY <2>5 DEF cut
<1> QED
  BY <1>5, <1>6 DEF fs, want, shorter

\* Without its last char, a record whose last byte is a '\r' is what it was before.
LEMMA DropsCr ==
  ASSUME ~config.has_quoting, file \in String, crlf, NEW i \in Nat, i < Len(file),
         file[i + 1] = CR
  PROVE  /\ WithoutLastChar(Open(At(i + 1))) = Open(At(i))
         /\ Simple!Last(Open(At(i + 1))) # <<>>
<1> DEFINE before == At(i).fields
           text == At(i).text
           more == Append(text, CR)
<1>1. At(i) \in Passes /\ CR \in Char
  BY PlainStep DEF Char
<1>2. before \in Seq(String) /\ text \in Seq(Char)
  BY <1>1, PassAt
<1>3. Open(At(i + 1)) = Append(before, more) /\ Open(At(i)) = Append(before, text)
  BY TrimmedAt DEF Open
<1> HIDE DEF before, text
<1>4. more \in String /\ more # <<>> /\ SubSeq(more, 1, Len(more) - 1) = text
  BY <1>1, <1>2, FrontOfAppend DEF String
<1> HIDE DEF more
<1>5. WithoutLastChar(Append(before, more)) = Append(before, text)
  BY <1>2, <1>4, WithoutLastOf
<1>6. Simple!Last(Append(before, more)) # <<>>
  <2>1. /\ Len(Append(before, more)) = Len(before) + 1
        /\ Append(before, more)[Len(before) + 1] = more
    BY <1>2, <1>4, FrontOfAppend
  <2> QED
    BY <1>4, <2>1 DEF Simple!Last
<1> QED
  BY <1>3, <1>5, <1>6

\* A call of the simple parser on the n bytes behind byte t of the file: it takes
\* them all and is in a record still, or it has completed the next record.
LEMMA SimpleReads ==
  ASSUME ~config.has_quoting, file \in String, ~Sensitive, NEW t \in Nat, NEW n \in Nat,
         n # 0, t + n <= Len(file), ParserAt(t), ~Fresh(At(t)) => t \in Cuts,
         Simple!Parse(SubSeq(file, t + 1, t + n))
  PROVE  \/ /\ status' = "need_more_data" /\ consumed' = n
            /\ fields' = Open(At(t + n)) /\ ~Fresh(At(t + n))
            /\ At(t + n).records = At(t).records
            /\ incomplete_last_read'
            /\ crlf => (pending_cr' <=> file[t + n] = CR)
         \/ /\ status' = "complete" /\ consumed' \in 1 .. n
            /\ Fresh(At(t + consumed'))
            /\ At(t + consumed').records = Append(At(t).records, fields')
<1> DEFINE buffer == SubSeq(file, t + 1, t + n)
           nl == newline(config.line_ending)
           p == Simple!newline_pos(buffer)
<1>1. /\ buffer \in String /\ Len(buffer) = n
      /\ \A i \in 1 .. n : buffer[i] = file[t + i]
      /\ \A q \in 0 .. n : SubSeq(buffer, 1, q) = SubSeq(file, t + 1, t + q)
  BY StretchBytes
<1>2. Len(file) \in Nat
  BY LenProperties DEF String
<1>3. Simple!Parse(buffer)
  OBVIOUS
<1> HIDE DEF buffer
<1>4. /\ p \in 0 .. n
      /\ p = 0 => \A i \in 1 .. n : buffer[i] # nl
      /\ p # 0 => buffer[p] = nl /\ \A i \in 1 .. p - 1 : buffer[i] # nl
  BY <1>1, FirstNewline
<1> HIDE DEF p, nl
<1>5. /\ p = 0 => \A i \in t + 1 .. t + n : file[i] # nl
      /\ p # 0 => file[t + p] = nl /\ \A i \in t + 1 .. t + (p - 1) : file[i] # nl
  <2>1. ASSUME NEW k \in Nat, k <= n, \A i \in 1 .. k : buffer[i] # nl
        PROVE  \A i \in t + 1 .. t + k : file[i] # nl
    <3>1. ASSUME NEW i \in t + 1 .. t + k PROVE file[i] # nl
      <4> DEFINE m == i - t
      <4>1. m \in 1 .. k /\ m \in 1 .. n /\ t + m = i
        BY <2>1
      <4> HIDE DEF m
      <4>2. buffer[m] = file[t + m] /\ buffer[m] # nl
        BY <1>1, <2>1, <4>1
      <4> QED
        BY <4>1, <4>2
    <3> QED
      BY <3>1
  <2>2. p = 0 => \A i \in t + 1 .. t + n : file[i] # nl
    BY <1>4, <2>1
  <2>3. CASE p # 0
    <3>1. p - 1 \in Nat /\ p - 1 <= n /\ p \in 1 .. n
      BY <1>4, <2>3
    <3>2. \A i \in t + 1 .. t + (p - 1) : file[i] # nl
      BY <1>4, <2>1, <2>3, <3>1
    <3> QED
      BY <1>1, <1>4, <2>3, <3>1, <3>2
  <2> QED
    BY <2>2, <2>3
\* A '\r' is pending when it is the byte before the chunk.
<1>6. ASSUME crlf, pending_cr
      PROVE  t # 0 /\ file[t] = CR /\ HoldsRecord(t)
  <2>1. HoldsRecord(t) /\ file[t] = CR
    BY <1>6 DEF ParserAt, HoldsRecord
  <2>2. t # 0
    BY <2>1, AtBytes, StartPass DEF HoldsRecord
  <2> QED
    BY <2>1, <2>2
<1>7. ASSUME crlf, t # 0, file[t] = CR
      PROVE  pending_cr /\ HoldsRecord(t) /\ p = 1 /\ nl = LF /\ t # 1 /\ file[t - 1] # LF
  <2>1. t <= Len(file) /\ t \in Nat
    BY <1>2
  <2>2. nl = LF
    BY <1>7 DEF nl, crlf, newline
  <2>3. ~Fresh(At(t))
    <3>1. Fresh(At(t)) <=> t = 0 \/ file[t] = nl
      BY <2>1, FreshAt DEF nl
    <3> QED
      BY <1>7, <2>2, <3>1, CharAssumption
  <2>4. HoldsRecord(t) /\ pending_cr /\ t \in Cuts
    BY <1>7, <2>3 DEF ParserAt, HoldsRecord
  <2>5. file[t + 1] = LF /\ t # 1 /\ file[t - 1] # LF
    BY <1>7, <2>4, CrThenLf
  <2>6. p = 1
    <3>1. CASE p = 0
      <4>1. t + 1 \in t + 1 .. t + n
        BY <1>2
      <4> QED
        BY <1>5, <2>2, <2>5, <3>1, <4>1
    <3>2. CASE p > 1
      <4>1. t + 1 \in t + 1 .. t + (p - 1) /\ p # 0
        BY <1>4, <3>2
      <4> QED
        BY <1>5, <2>2, <2>5, <4>1
    <3> QED
      BY <1>4, <3>1, <3>2
  <2> QED
    BY <2>2, <2>4, <2>5, <2>6
<1>8. CASE p = 0
  <2>1. /\ Simple!insert_fields(Simple!split(buffer)) /\ consumed' = Len(buffer)
        /\ incomplete_last_read' = TRUE /\ Simple!Return("need_more_data")
        /\ pending_cr' = (pending_cr \/ Simple!Last(buffer) = CR)
    BY <1>3, <1>8 DEF Simple!Parse, Simple!NoNewline, Simple!BlankLineAfterCr,
       Simple!BlankLine, Simple!Line, p
  <2>2. fields' = Open(At(t + n)) /\ ~Fresh(At(t + n)) /\ At(t + n).records = At(t).records
    BY <1>5, <1>8, <2>1, InsertsStretch DEF buffer, nl
  <2>3. crlf => (pending_cr' <=> file[t + n] = CR)
    <3>1. Simple!Last(buffer) = file[t + n]
      <4>1. n \in 1 .. n
        OBVIOUS
      <4> QED
        BY <1>1, <4>1 DEF Simple!Last
    <3>2. ~(crlf /\ pending_cr)
      BY <1>6, <1>7, <1>8
    <3> QED
      BY <2>1, <3>1, <3>2
  <2>4. status' = "need_more_data"
    BY <2>1 DEF Simple!Return
  <2> QED
    BY <1>1, <2>1, <2>2, <2>3, <2>4
<1>9. CASE p # 0
  <2> DEFINE j == t + (p - 1)
             at_cr == crlf /\ j > 0 /\ file[j] = CR
  <2>1. /\ j \in Nat /\ j < Len(file) /\ j + 1 = t + p /\ p - 1 \in Nat
        /\ t + (p - 1) <= Len(file) /\ p \in 1 .. n /\ t + p \in Nat
        /\ t + p <= Len(file)
    BY <1>2, <1>4, <1>9
  <2>2. At(j).records = At(t).records
    <3>1. Held(fields, At(t))
      BY DEF ParserAt, HoldsRecord, Held
    <3> QED
      BY <1>5, <1>9, <2>1, <3>1, StretchSplits, SimpleSplit DEF nl
  <2>3. Fresh(At(t + p)) /\ At(t + p).records = Append(At(t).records, Row(At(j)))
    <3> HIDE DEF j
    <3>1. file[j + 1] = nl
      BY <1>5, <1>9, <2>1
    <3>2. ReadsByte(At(j), file[j + 1], At(j + 1))
      BY <2>1, PlainStep
    <3>3. Fresh(At(j + 1)) /\ At(j + 1).records = Append(At(j).records, Row(At(j)))
      BY <3>1, <3>2 DEF ReadsByte, nl
    <3> QED
      BY <2>1, <2>2, <3>3
  <2>4. Held(Row(At(j)), IF at_cr THEN At(j - 1) ELSE At(j))
    <3> HIDE DEF j
    <3> QED
      BY <2>1, RowAt
  <2> DEFINE q == line_end(buffer, p - 1, crlf)
  <2>5. /\ q \in 0 .. p - 1 /\ Simple!line(buffer) = SubSeq(file, t + 1, t + q)
        /\ Simple!line(buffer) = <<>> <=> q = 0
    <3> DEFINE b == p - 1
    <3>1. b \in 0 .. Len(buffer) - 1 /\ p = b + 1
      BY <1>1, <2>1
    <3> HIDE DEF b
    <3>2. /\ line_end(buffer, b, crlf) \in 0 .. b
          /\ Simple!line(buffer) = SubSeq(buffer, 1, line_end(buffer, b, crlf))
          /\ Simple!line(buffer) = <<>> <=> line_end(buffer, b, crlf) = 0
      BY <1>1, <3>1, SimpleLine DEF p
    <3>3. q = line_end(buffer, b, crlf)
      BY DEF b
    <3> HIDE DEF q
    <3>4. q \in 0 .. n
      BY <1>4, <3>1, <3>2, <3>3
    <3>5. SubSeq(buffer, 1, q) = SubSeq(file, t + 1, t + q)
      BY <1>1, <3>4
    <3> QED
      BY <3>2, <3>3, <3>5 DEF b
  <2>6. q = IF crlf /\ p > 1 /\ file[j] = CR THEN p - 2 ELSE p - 1
    <3>1. q = IF crlf /\ p - 1 > 0 /\ buffer[p - 1] = CR THEN (p - 1) - 1 ELSE p - 1
      BY DEF line_end
    <3> HIDE DEF q
    <3>2. p > 1 => buffer[p - 1] = file[j]
      <4>1. p > 1 => p - 1 \in 1 .. n
        BY <1>4
      <4> QED
        BY <1>1, <4>1
    <3> QED
      BY <1>4, <3>1, <3>2
  <2> HIDE DEF q
  <2>7. fields' = Row(At(j)) /\ status' = "complete" /\ consumed' = p
    <3>1. CASE p = 1 /\ crlf /\ t # 0 /\ file[t] = CR
      <4>1. pending_cr /\ HoldsRecord(t) /\ nl = LF /\ t # 1 /\ file[t - 1] # LF
        BY <1>7, <3>1
      <4>2. q = 0 /\ j = t
        BY <2>6, <3>1
      <4>3. /\ consumed' = p /\ fields' = Simple!WithoutLastChar(fields)
            /\ Simple!Return(IF Simple!Last(fields) = <<>> THEN "undefined" ELSE "complete")
        BY <1>3, <1>9, <2>5, <3>1, <4>1, <4>2
        DEF Simple!Parse, Simple!NoNewline, Simple!BlankLineAfterCr, Simple!BlankLine,
            Simple!Line, Simple!crlf, crlf, p
      <4> DEFINE b == t - 1
      <4>4. b \in Nat /\ b < Len(file) /\ b + 1 = t /\ b # 0 /\ b <= Len(file)
        BY <1>2, <3>1, <4>1
      <4>5. fields = Open(At(t))
        BY <4>1 DEF HoldsRecord
      <4>6. WithoutLastChar(Open(At(t))) = Open(At(b)) /\ Simple!Last(Open(At(t))) # <<>>
        <5> HIDE DEF b
        <5>1. file[b + 1] = CR
          BY <3>1, <4>4
        <5>2. WithoutLastChar(Open(At(b + 1))) = Open(At(b))
              /\ Simple!Last(Open(At(b + 1))) # <<>>
          BY <3>1, <4>4, <5>1, DropsCr
        <5> QED
          BY <4>4, <5>2
      <4>7. Simple!WithoutLastChar(fields) = WithoutLastChar(fields)
        BY DEF Simple!WithoutLastChar, WithoutLastChar
      <4>8. fields' = Open(At(b)) /\ status' = "complete"
        BY <4>3, <4>5, <4>6, <4>7 DEF Simple!Return
      <4>9. ~Fresh(At(b))
        <5>1. file[b] # nl
          BY <4>1
        <5> HIDE DEF b
        <5> QED
          BY <4>4, <5>1, FreshAt DEF nl
      <4>10. Held(Row(At(j)), At(b))
        <5>1. at_cr /\ j - 1 = b
          BY <3>1, <4>2, <4>4
        <5> HIDE DEF b, j, at_cr
        <5> QED
          BY <2>4, <5>1
      <4> QED
        BY <4>3, <4>8, <4>9, <4>10 DEF Held
    <3>2. CASE ~(p = 1 /\ crlf /\ t # 0 /\ file[t] = CR)
      <4>1. ~(crlf /\ pending_cr)
        BY <1>6, <1>7, <3>2
      <4>2. Held(Row(At(j)), At(t + q))
        <5>1. at_cr => p > 1 /\ j - 1 = t + q
          BY <1>4, <1>9, <2>6, <3>2
        <5>2. ~at_cr => j = t + q
          BY <1>4, <1>9, <2>6
        <5> HIDE DEF j, at_cr
        <5> QED
          BY <2>4, <5>1, <5>2
      <4>3. CASE q = 0
        <5>1. consumed' = p /\ fields' = fields /\ Simple!Return("complete")
          BY <1>3, <1>9, <2>5, <4>1, <4>3
          DEF Simple!Parse, Simple!NoNewline, Simple!BlankLineAfterCr, Simple!BlankLine,
              Simple!Line, Simple!crlf, crlf, p
        <5>2. Held(fields, At(t))
          BY DEF ParserAt, HoldsRecord, Held
        <5>3. t + q = t
          BY <4>3
        <5>4. Held(Row(At(j)), At(t))
          BY <4>2, <5>3
        <5> QED
          BY <5>1, <5>2, <5>4 DEF Held, Simple!Return
      <4>4. CASE q # 0
        <5>1. /\ consumed' = p /\ Simple!Return("complete")
              /\ Simple!insert_fields(Simple!split(Simple!line(buffer)))
          BY <1>3, <1>9, <2>5, <4>1, <4>4
          DEF Simple!Parse, Simple!NoNewline, Simple!BlankLineAfterCr, Simple!BlankLine,
              Simple!Line, Simple!crlf, crlf, p
        <5>2. /\ q \in Nat /\ t + q <= Len(file)
              /\ \A i \in t + 1 .. t + q : i \in t + 1 .. t + (p - 1)
          BY <2>1, <2>5
        <5>3. \A i \in t + 1 .. t + q : file[i] # nl
          BY <1>5, <1>9, <5>2
        <5>4. fields' = Open(At(t + q)) /\ ~Fresh(At(t + q))
          BY <2>5, <4>4, <5>1, <5>2, <5>3, InsertsStretch DEF nl
        <5> QED
          BY <4>2, <5>1, <5>4 DEF Held, Simple!Return
      <4> QED
        BY <4>3, <4>4
    <3> QED
      BY <3>1, <3>2
  <2> QED
    BY <2>1, <2>3, <2>7
<1> QED
  BY <1>8, <1>9
=============================================================================
