-------------------------- MODULE ReaderBaseProofs --------------------------
(***************************************************************************)
(* Proofs about what Reader and ViewReader share, for every set of         *)
(* configurations, every file, every block size and every alphabet: the    *)
(* ways a call ends keep the size policies and the row counts; a buffer    *)
(* over which next() has reported the end has nothing more to give; the    *)
(* block is a stretch of the file; the scan for newlines and delimiters    *)
(* and the grammar's pass, each taken a byte at a time; and the pieces of  *)
(* a line and the fields they make, merged where a chunk ends.  What the   *)
(* parsers put into a record matters to none of this: nothing is assumed   *)
(* of it.                                                                  *)
(***************************************************************************)
EXTENDS ReaderBase, SimdScan, CsvGrammar, Stretches

\* The records accepted so far form a sequence (of what, does not matter).
AcceptedInv == \E T : accepted \in Seq(T)

\* Where a call can be: until the constructor is done no record has been
\* accepted, and a reader that is ready has read its header if it has one.
ControlInv ==
  /\ config \in Configs
  /\ in_ctor \in BOOLEAN
  /\ line_number \in Nat
  /\ pc \in {"construct", "ready", "next", "closed"}
  /\ in_ctor => pc = "next" /\ config.has_header
  /\ pc = "construct" \/ in_ctor =>
       /\ accepted = <<>>
       /\ headers = <<>>
       /\ line_number = 0
       /\ outcome = "none"
  /\ pc \in {"ready", "next"} /\ ~in_ctor /\ config.has_header =>
       Len(accepted) # 0

\* What record_size says about the rows accepted so far.
SizeInv ==
  /\ config.policy = "strict_to_value" /\ pc \in {"ready", "next"} =>
       record_size = config.record_size /\ record_size # 0
  /\ config.policy = "strict_to_header" /\ Len(headers) # 0 =>
       record_size = Len(headers)
  /\ config.policy = "strict_to_first" =>
       \A i \in 1 .. Len(accepted) :
         Len(accepted[i]) # 0 => record_size = Len(accepted[i])

BaseInv ==
  /\ AcceptedInv
  /\ ControlInv
  /\ SizeInv
  /\ RowsFitThePolicy
  /\ CountsRows

-----------------------------------------------------------------------------
(***************************************************************************)
(* The ends of a call.                                                      *)
(***************************************************************************)
\* One record more: the sequence stays a sequence and keeps what it held.
LEMMA AppendedRecord ==
  ASSUME AcceptedInv, NEW record, accepted' = Append(accepted, record)
  PROVE  /\ AcceptedInv'
         /\ Len(accepted) \in Nat
         /\ Len(accepted') = Len(accepted) + 1
         /\ \A i \in 1 .. Len(accepted) : accepted'[i] = accepted[i]
         /\ accepted'[Len(accepted) + 1] = record
<1>1. PICK T : accepted \in Seq(T)
  BY DEF AcceptedInv
<1> DEFINE U == T \cup {record}
<1>2. accepted \in Seq(U)
  BY <1>1
<1>3. record \in U
  OBVIOUS
<1> HIDE DEF U
<1>4. Append(accepted, record) \in Seq(U)
  BY <1>2, <1>3, AppendProperties
<1>5. AcceptedInv'
  BY <1>4 DEF AcceptedInv
<1> QED
  BY <1>1, <1>2, <1>3, <1>5, AppendProperties, LenProperties

\* A call that ends without a record touches no row, no header and no count.
LEMMA EndKeepsBase ==
  ASSUME BaseInv, pc = "next", NEW result, End(result), config' = config
  PROVE  BaseInv'
<1> USE DEF BaseInv
<1>1. /\ UNCHANGED <<record_size, line_number, headers, accepted>>
      /\ pc' = (IF in_ctor THEN "closed" ELSE "ready") /\ in_ctor' = FALSE
  BY DEF End
<1>2. AcceptedInv'
  BY <1>1 DEF AcceptedInv
<1>3. ControlInv'
  BY <1>1 DEF ControlInv
<1>4. SizeInv'
  BY <1>1 DEF SizeInv
<1>5. RowsFitThePolicy'
  BY <1>1 DEF RowsFitThePolicy
<1>6. CountsRows'
  BY <1>1 DEF CountsRows
<1> QED
  BY <1>2, <1>3, <1>4, <1>5, <1>6

\* A record that save_record lets through has the size of the rows before it,
\* and is counted as a row unless it is the header.
LEMMA AcceptKeepsBase ==
  ASSUME BaseInv, pc = "next", NEW record, NEW text, Accept(record, text), config' = config
  PROVE  BaseInv'
<1> USE DEF BaseInv
<1>1. /\ AcceptedInv'
      /\ Len(accepted) \in Nat
      /\ Len(accepted') = Len(accepted) + 1
      /\ \A i \in 1 .. Len(accepted) : accepted'[i] = accepted[i]
      /\ accepted'[Len(accepted) + 1] = text
  BY AppendedRecord DEF Accept
<1>2. pc' = "ready" /\ in_ctor' = FALSE
  BY DEF Accept
<1>3. ControlInv'
  <2>1. line_number' \in Nat
    BY DEF ControlInv, Accept
  <2>2. Len(accepted') # 0
    BY <1>1
  <2> QED
    BY <1>2, <2>1, <2>2 DEF ControlInv
<1>4. in_ctor => Len(accepted) = 0
  BY DEF ControlInv
<1>5. SizeInv'
  <2>1. ASSUME config.policy = "strict_to_value"
        PROVE  record_size' = config.record_size /\ record_size' # 0
    BY <2>1 DEF Accept, SizeInv
  <2>2. ASSUME config.policy = "strict_to_header", Len(headers') # 0
        PROVE  record_size' = Len(headers')
    BY <2>2 DEF Accept, SizeInv
  <2>3. ASSUME config.policy = "strict_to_first",
               NEW i \in 1 .. Len(accepted'), Len(accepted'[i]) # 0
        PROVE  record_size' = Len(accepted'[i])
    <3>1. CASE i = Len(accepted) + 1
      <4>1. accepted'[i] = text
        BY <1>1, <3>1
      <4> QED
        BY <2>3, <4>1 DEF Accept, fits
    <3>2. CASE i \in 1 .. Len(accepted)
      <4>1. accepted'[i] = accepted[i]
        BY <1>1, <3>2
      <4>2. record_size = Len(accepted[i])
        BY <2>3, <3>2, <4>1 DEF SizeInv
      <4>3. record_size' = record_size
        BY <2>3, <4>1, <4>2 DEF Accept
      <4> QED
        BY <4>1, <4>2, <4>3
    <3> QED
      BY <1>1, <3>1, <3>2
  <2> QED
    BY <1>2, <2>1, <2>2, <2>3 DEF SizeInv
<1>6. RowsFitThePolicy'
  <2>1. \A i \in 1 .. Len(accepted') :
          \/ i \in 1 .. Len(accepted) /\ accepted'[i] = accepted[i]
          \/ i = Len(accepted) + 1 /\ accepted'[i] = text
    BY <1>1
  <2>2. ASSUME config.policy = "strict_to_value", NEW i \in 1 .. Len(accepted')
        PROVE  Len(accepted'[i]) = config.record_size
    <3>1. Len(text) = config.record_size
      BY <2>2 DEF Accept, fits, SizeInv
    <3> QED
      BY <2>1, <2>2, <3>1 DEF RowsFitThePolicy
  <2>3. ASSUME config.policy = "strict_to_header", Len(headers') # 0,
               NEW i \in 1 .. Len(accepted')
        PROVE  Len(accepted'[i]) = Len(headers')
    <3>1. CASE in_ctor
      <4>1. i = Len(accepted) + 1
        BY <1>4, <2>1, <3>1
      <4> QED
        BY <1>1, <3>1, <4>1 DEF Accept
    <3>2. CASE ~in_ctor
      <4>1. headers' = headers
        BY <3>2 DEF Accept
      <4>2. Len(text) = Len(headers)
        BY <2>3, <4>1 DEF Accept, fits, SizeInv
      <4> QED
        BY <2>1, <2>3, <4>1, <4>2 DEF RowsFitThePolicy
    <3> QED
      BY <3>1, <3>2
  <2>4. ASSUME config.policy = "strict_to_first", NEW i \in 1 .. Len(accepted'),
               NEW j \in 1 .. Len(accepted'), i < j, Len(accepted'[i]) # 0
        PROVE  Len(accepted'[j]) = Len(accepted'[i])
    <3>1. i \in 1 .. Len(accepted) /\ accepted'[i] = accepted[i]
      BY <1>1, <2>4
    <3>2. CASE j \in 1 .. Len(accepted)
      <4>1. accepted'[j] = accepted[j]
        BY <1>1, <3>2
      <4> QED
        BY <2>4, <3>1, <3>2, <4>1 DEF RowsFitThePolicy
    <3>3. CASE j = Len(accepted) + 1
      <4>1. accepted'[j] = text
        BY <1>1, <3>3
      <4>2. record_size = Len(accepted[i])
        BY <2>4, <3>1 DEF SizeInv
      <4>3. Len(text) = record_size
        BY <2>4, <3>1, <4>2 DEF Accept, fits
      <4> QED
        BY <3>1, <4>1, <4>2, <4>3
    <3> QED
      BY <1>1, <3>2, <3>3
  <2> QED
    BY <2>2, <2>3, <2>4 DEF RowsFitThePolicy
<1>7. CountsRows'
  BY <1>1, <1>4 DEF CountsRows, ControlInv, Accept
<1> QED
  BY <1>1, <1>3, <1>5, <1>6, <1>7

LEMMA SaveRecordKeepsBase ==
  ASSUME BaseInv, pc = "next", NEW record, NEW text, SaveRecord(record, text),
         config' = config
  PROVE  BaseInv'
BY AcceptKeepsBase, EndKeepsBase DEF SaveRecord, RejectSize

-----------------------------------------------------------------------------
(***************************************************************************)
(* The other steps.                                                         *)
(***************************************************************************)
LEMMA ReaderUnchangedKeepsBase ==
  ASSUME BaseInv, UNCHANGED reader_vars, config' = config
  PROVE  BaseInv'
BY DEF reader_vars, row_vars, BaseInv, AcceptedInv, ControlInv, SizeInv,
       RowsFitThePolicy, CountsRows

LEMMA InitBase == ReaderInit => BaseInv
<1> SUFFICES ASSUME ReaderInit PROVE BaseInv
  OBVIOUS
<1>1. accepted = <<>> /\ Len(accepted) = 0 /\ accepted \in Seq({})
  BY DEF ReaderInit
<1>2. headers = <<>> /\ Len(headers) = 0
  BY DEF ReaderInit
<1>3. AcceptedInv
  BY <1>1 DEF AcceptedInv
<1>4. ControlInv
  BY <1>1, <1>2 DEF ReaderInit, ControlInv
<1>5. SizeInv /\ RowsFitThePolicy
  BY <1>1, <1>2 DEF ReaderInit, SizeInv, RowsFitThePolicy
<1>6. CountsRows
  BY <1>1 DEF ReaderInit, CountsRows
<1> QED
  BY <1>3, <1>4, <1>5, <1>6 DEF BaseInv

\* A constructor that throws leaves no reader behind.
LEMMA RejectedKeepsBase ==
  ASSUME BaseInv, config' = config, NEW error, Rejects(error),
         record_size' = record_size
  PROVE  BaseInv'
<1>1. /\ pc = "construct" /\ pc' = "closed"
      /\ UNCHANGED <<in_ctor, accepted, headers, line_number>>
  BY DEF Rejects, row_vars
<1>2. AcceptedInv' /\ ControlInv'
  BY <1>1 DEF BaseInv, AcceptedInv, ControlInv
<1>3. SizeInv' /\ RowsFitThePolicy' /\ CountsRows'
  BY <1>1 DEF BaseInv, SizeInv, RowsFitThePolicy, CountsRows
<1> QED
  BY <1>2, <1>3 DEF BaseInv

\* The constructor: it sets record_size and, before read_headers, nothing else.
LEMMA ConstructKeepsBase ==
  ASSUME BaseInv, config' = config,
         RejectConfig \/ RejectBuffer \/ ConstructWithoutHeader \/ ConstructWithHeader
  PROVE  BaseInv'
<1> USE DEF BaseInv
<1>1. pc = "construct" /\ UNCHANGED <<accepted, headers, line_number>>
  BY DEF RejectConfig, RejectBuffer, Rejects, ConstructWithoutHeader,
         ConstructWithHeader, Constructs, row_vars
<1>2. accepted = <<>> /\ headers = <<>> /\ Len(accepted) = 0 /\ Len(headers) = 0
  BY <1>1 DEF ControlInv
<1>3. AcceptedInv'
  BY <1>1 DEF AcceptedInv
<1>4. ControlInv'
  <2>1. CASE RejectConfig \/ RejectBuffer
    <3>1. pc' = "closed" /\ in_ctor' = in_ctor /\ ~in_ctor
      BY <1>1, <2>1 DEF RejectConfig, RejectBuffer, Rejects, ControlInv
    <3> QED
      BY <1>1, <3>1 DEF ControlInv
  <2>2. CASE ConstructWithoutHeader
    <3>1. pc' = "ready" /\ in_ctor' = in_ctor /\ ~config.has_header /\ ~in_ctor
      BY <1>1, <2>2 DEF ConstructWithoutHeader, ControlInv
    <3> QED
      BY <1>1, <3>1 DEF ControlInv
  <2>3. CASE ConstructWithHeader
    <3>1. /\ pc' = "next" /\ in_ctor' = TRUE /\ config.has_header
          /\ outcome' = outcome
      BY <2>3 DEF ConstructWithHeader, Constructs
    <3> QED
      BY <1>1, <3>1 DEF ControlInv
  <2> QED
    BY <2>1, <2>2, <2>3
<1>5. SizeInv'
  BY <1>1, <1>2 DEF SizeInv, RejectConfig, RejectBuffer, Rejects,
     ConstructWithoutHeader, ConstructWithHeader, Constructs, valid_config,
     initial_record_size
<1>6. RowsFitThePolicy'
  BY <1>1, <1>2 DEF RowsFitThePolicy
<1>7. CountsRows'
  BY <1>1, <1>2 DEF CountsRows, ControlInv
<1> QED
  BY <1>3, <1>4, <1>5, <1>6, <1>7

LEMMA CallNextKeepsBase == ASSUME BaseInv, CallNext, config' = config PROVE BaseInv'
BY DEF CallNext, row_vars, BaseInv, AcceptedInv, ControlInv, SizeInv,
       RowsFitThePolicy, CountsRows

-----------------------------------------------------------------------------
(***************************************************************************)
(* The end is final.  A buffer that is spent has nothing to show and never  *)
(* will: it is what next() leaves behind when it returns false.             *)
(***************************************************************************)
spent == buffer_empty /\ (config.mapped_buffer \/ bits # {})

\* What refill() needs to be sure of on a stream.
StreamInv ==
  ~config.mapped_buffer =>
    /\ N \in Nat \ {0}
    /\ size \in Nat
    /\ Len(file) \in Nat
    /\ pos \in 0 .. Len(file)

LEMMA InitStream == ReaderInit => StreamInv
<1> SUFFICES ASSUME ReaderInit, ~config.mapped_buffer PROVE StreamInv
  BY DEF StreamInv
<1>1. file \in Files /\ pos = 0 /\ N \in Capacities /\ size = 0
  BY DEF ReaderInit, StreamInit, MappedInit, Stream!Init
<1>2. file \in Seq(Char)
  BY <1>1, ReaderAssumption DEF String
<1>3. Len(file) \in Nat
  BY <1>2, LenProperties
<1> QED
  BY <1>1, <1>3, ReaderAssumption DEF StreamInv

LEMMA ConsumeKeepsStream ==
  ASSUME StreamInv, NEW bytes, consume(bytes), config' = config
  PROVE  StreamInv' /\ UNCHANGED bits
BY DEF StreamInv, consume, Stream!Consume, Stream!stream_vars, Mapped!Consume

\* What a refill of a stream does to the unread bytes: it moves them to the
\* front, and when it brings nothing, the stream will not bring more or the
\* block is full.
LEMMA StreamRefill ==
  ASSUME StreamInv, ~config.mapped_buffer, Stream!Refill, config' = config,
         start \in Int, start <= size
  PROVE  /\ StreamInv' /\ start' = 0
         /\ reading' # "ok" =>
              size' = size - start /\ (bits' # {} \/ size - start = N)
<1>1. /\ N \in Nat \ {0} /\ size \in Nat /\ Len(file) \in Nat
      /\ pos \in 0 .. Len(file)
  BY DEF StreamInv
<1>2. Stream!available = size - start /\ Stream!available \in Nat
  BY <1>1 DEF Stream!available
<1>3. CASE Stream!RefillFull
  BY <1>1, <1>2, <1>3 DEF Stream!RefillFull, Stream!stream_vars, StreamInv
<1>4. ASSUME NEW n \in 0 .. Len(file) - pos, NEW b, Stream!RefillWith(n, b),
             n = 0 => b # {}
      PROVE  /\ StreamInv' /\ start' = 0
             /\ reading' # "ok" => size' = size - start /\ bits' # {}
  <2>1. /\ size' = Stream!available + n /\ start' = 0 /\ pos' = pos + n /\ bits' = b
        /\ reading' # "ok" => n = 0
        /\ UNCHANGED <<file, N>>
    BY <1>1, <1>4 DEF Stream!RefillWith
  <2>2. StreamInv'
    BY <1>1, <1>2, <2>1 DEF StreamInv
  <2>3. ASSUME reading' # "ok" PROVE size' = size - start /\ bits' # {}
    BY <1>2, <1>4, <2>1, <2>3
  <2> QED
    BY <2>1, <2>2, <2>3
<1>5. CASE Stream!RefillReads
  <2> DEFINE left == Len(file) - pos
             n == Stream!Least(N - Stream!available, left)
             b == IF left < N - Stream!available THEN {"eofbit"} ELSE {}
  <2>1. Stream!RefillWith(n, b) /\ Stream!available < N
    BY <1>5 DEF Stream!RefillReads, Stream!RefillWith
  <2>2. n \in 0 .. left /\ (n = 0 => b # {})
    BY <1>1, <1>2, <2>1 DEF Stream!Least
  <2> QED
    BY <1>4, <2>1, <2>2
<1>6. CASE Stream!RefillOnSpentStream
  BY <1>1, <1>4, <1>6 DEF Stream!RefillOnSpentStream
<1>7. CASE Stream!RefillHitsReadError
  <2>1. PICK n \in 0 .. Stream!Least(N - Stream!available, Len(file) - pos) :
               Stream!RefillWith(n, {"badbit"})
    BY <1>7 DEF Stream!RefillHitsReadError
  <2>2. n \in 0 .. Len(file) - pos
    BY <1>1, <1>2, <2>1 DEF Stream!Least
  <2> QED
    BY <1>4, <2>1, <2>2
<1> QED
  BY <1>3, <1>4, <1>5, <1>6, <1>7 DEF Stream!Refill

\* A refill of an empty buffer that brings nothing leaves it spent.
LEMMA RefillLeavesSpent ==
  ASSUME StreamInv, buffer_empty, refill, config' = config
  PROVE  /\ StreamInv'
         /\ reading' # "ok" => spent'
<1>1. CASE config.mapped_buffer
  <2>1. UNCHANGED <<start, size>>
    BY <1>1 DEF refill, Mapped!refill
  <2> QED
    BY <1>1, <2>1 DEF StreamInv, spent, buffer_empty, Mapped!empty
<1>2. CASE ~config.mapped_buffer
  <2>1. Stream!Refill /\ start = size /\ size \in Nat /\ N # 0
    BY <1>2 DEF refill, buffer_empty, Stream!empty, StreamInv
  <2>2. /\ StreamInv' /\ start' = 0
        /\ reading' # "ok" => size' = 0 /\ bits' # {}
    BY <1>2, <2>1, StreamRefill
  <2> QED
    BY <1>2, <2>2 DEF spent, buffer_empty, Stream!empty
<1> QED
  BY <1>1, <1>2

\* A spent buffer stays so and brings nothing more.
LEMMA SpentStaysSpent ==
  ASSUME StreamInv, spent, refill, config' = config
  PROVE  spent' /\ reading' # "ok"
<1>1. reading' # "ok"
  <2>1. CASE config.mapped_buffer
    BY <2>1 DEF refill, Mapped!refill, spent, buffer_empty
  <2>2. CASE ~config.mapped_buffer
    <3>1. Stream!Refill /\ bits # {} /\ start = size /\ size \in Nat /\ N \in Nat \ {0}
      BY <2>2 DEF refill, spent, buffer_empty, Stream!empty, StreamInv
    <3>2. Stream!available = 0
      BY <3>1 DEF Stream!available
    <3>3. Stream!RefillOnSpentStream
      BY <3>1, <3>2 DEF Stream!Refill, Stream!RefillFull, Stream!RefillReads,
         Stream!RefillHitsReadError
    <3> QED
      BY <3>3 DEF Stream!RefillOnSpentStream, Stream!RefillWith
  <2> QED
    BY <2>1, <2>2
<1> QED
  BY <1>1, RefillLeavesSpent DEF spent

\* What the other steps leave alone.
LEMMA UnchangedKeepsStream ==
  ASSUME UNCHANGED buffer_vars, config' = config
  PROVE  /\ StreamInv => StreamInv'
         /\ spent => spent'
<1>1. StreamInv => StreamInv'
  BY DEF buffer_vars, StreamInv
<1>2. spent => spent'
  BY DEF buffer_vars, spent, buffer_empty, Stream!empty, Mapped!empty
<1> QED
  BY <1>1, <1>2

-----------------------------------------------------------------------------
(***************************************************************************)
(* The steps of a reader as steps of RowSource.                             *)
(***************************************************************************)
SourceStep == Source!SourceNext \/ UNCHANGED Source!source_vars

LEMMA RejectIsSourceStep ==
  ASSUME ControlInv, NEW error \in {"ConfigError", "BufferError"}, Rejects(error)
  PROVE  SourceStep
<1>1. pc = "construct" /\ ~in_ctor
  BY DEF Rejects, ControlInv
<1>2. Source!Refuse(error) /\ error \in Source!ConstructorErrors
  BY <1>1 DEF Rejects, row_vars, Source!Refuse, Source!ConstructorErrors
<1> QED
  BY <1>2 DEF Source!SourceNext, SourceStep

LEMMA ConstructIsSourceStep ==
  ASSUME ControlInv,
         RejectConfig \/ RejectBuffer \/ ConstructWithoutHeader \/ ConstructWithHeader
  PROVE  SourceStep
<1>1. CASE RejectConfig \/ RejectBuffer
  BY <1>1, RejectIsSourceStep DEF RejectConfig, RejectBuffer
<1>2. CASE ConstructWithoutHeader
  BY <1>2 DEF ControlInv, ConstructWithoutHeader, Constructs, row_vars, Source!Open,
     Source!SourceNext, SourceStep
<1>3. CASE ConstructWithHeader
  BY <1>3 DEF ControlInv, ConstructWithHeader, Constructs, row_vars,
     Source!source_vars, SourceStep
<1> QED
  BY <1>1, <1>2, <1>3

\* A step that leaves the reader alone, or only enters next().
LEMMA StutterIsSourceStep ==
  ASSUME ControlInv, UNCHANGED reader_vars \/ CallNext
  PROVE  SourceStep
BY DEF ControlInv, reader_vars, row_vars, CallNext, Source!source_vars, SourceStep

LEMMA InitIsSourceInit == ReaderInit => Source!SourceInit
BY DEF ReaderInit, Source!SourceInit

LEMMA EndIsSourceStep ==
  ASSUME ControlInv, pc = "next", NEW result \in {"end"} \cup Source!NextErrors,
         End(result), in_ctor \/ outcome # "end" \/ result = "end"
  PROVE  SourceStep
<1>1. /\ pc' = (IF in_ctor THEN "closed" ELSE "ready") /\ ~in_ctor'
      /\ outcome' = (IF in_ctor /\ result = "end" THEN "FileHeaderError" ELSE result)
      /\ line_number' = line_number
  BY DEF End
<1>2. CASE in_ctor
  BY <1>1, <1>2 DEF Source!Refuse, Source!ConstructorErrors, Source!NextErrors,
     Source!SourceNext, SourceStep
<1>3. CASE ~in_ctor /\ result = "end"
  BY <1>1, <1>3 DEF Source!ReportEnd, Source!SourceNext, SourceStep
<1>4. CASE ~in_ctor /\ result # "end"
  <2>1. Source!Throw(result)
    BY <1>1, <1>4 DEF Source!Throw
  <2> QED
    BY <1>4, <2>1 DEF Source!SourceNext, SourceStep
<1> QED
  BY <1>2, <1>3, <1>4

LEMMA SaveIsSourceStep ==
  ASSUME ControlInv, pc = "next", NEW record, NEW text, SaveRecord(record, text),
         in_ctor \/ outcome # "end"
  PROVE  SourceStep
<1>1. CASE Accept(record, text)
  <2>1. CASE in_ctor
    BY <1>1, <2>1 DEF Accept, ControlInv, Source!Open, Source!SourceNext, SourceStep
  <2>2. CASE ~in_ctor
    BY <1>1, <2>2 DEF Accept, Source!HandOut, Source!SourceNext, SourceStep
  <2> QED
    BY <2>1, <2>2
<1>2. CASE RejectSize(text)
  BY <1>2, EndIsSourceStep DEF RejectSize, Source!NextErrors
<1> QED
  BY <1>1, <1>2 DEF SaveRecord
-----------------------------------------------------------------------------
(***************************************************************************)
(* Types: the rows and the block.                                           *)
(***************************************************************************)
Outcomes == {"none", "record", "end", "ConfigError", "BufferError",
             "FileHeaderError", "ParseError", "RecordSizeError",
             "RecordTooLargeError"}

RowTypes ==
  /\ record_size \in Nat
  /\ headers \in Seq(String)
  /\ outcome \in Outcomes
  /\ parsed \in Seq(Seq(String))
  /\ accepted \in Seq(Seq(String))
  /\ failed \in BOOLEAN

LEMMA InitRows == ReaderInit => RowTypes
<1> SUFFICES ASSUME ReaderInit PROVE RowTypes
  OBVIOUS
<1>1. /\ record_size = 0 /\ headers = <<>> /\ outcome = "none"
      /\ parsed = <<>> /\ accepted = <<>> /\ failed = FALSE
  BY DEF ReaderInit
<1>2. headers \in Seq(String) /\ parsed \in Seq(Seq(String)) /\ accepted \in Seq(Seq(String))
  BY <1>1, EmptySeq
<1> QED
  BY <1>1, <1>2 DEF RowTypes, Outcomes

LEMMA EndKeepsRows ==
  ASSUME RowTypes, NEW result \in Outcomes, End(result),
         failed' \in BOOLEAN, parsed' \in Seq(Seq(String))
  PROVE  RowTypes' /\ UNCHANGED current_record
BY DEF RowTypes, End, Outcomes

\* What save_record is given ends up in the rows.
LEMMA SaveKeepsRows ==
  ASSUME RowTypes, NEW record, NEW text \in Seq(String), SaveRecord(record, text)
  PROVE  /\ RowTypes'
         /\ current_record' \in {record, <<>>, current_record}
<1>1. Len(text) \in Nat /\ Append(parsed, text) \in Seq(Seq(String))
      /\ Append(accepted, text) \in Seq(Seq(String))
  <2>1. parsed \in Seq(Seq(String)) /\ accepted \in Seq(Seq(String))
    BY DEF RowTypes
  <2> QED
    BY <2>1, LenProperties, AppendProperties
<1>2. CASE Accept(record, text)
  <2>1. /\ record_size' \in {record_size, Len(text)} /\ headers' \in {headers, text}
        /\ outcome' \in {"none", "record"} /\ failed' = failed
        /\ parsed' = Append(parsed, text) /\ accepted' = Append(accepted, text)
        /\ current_record' \in {record, <<>>}
    BY <1>2 DEF Accept
  <2> QED
    BY <1>1, <2>1 DEF RowTypes, Outcomes
<1>3. CASE RejectSize(text)
  BY <1>1, <1>3, EndKeepsRows DEF RejectSize, RowTypes, Outcomes
<1> QED
  BY <1>2, <1>3 DEF SaveRecord

LEMMA OutsideKeepsRows ==
  ASSUME RowTypes, config \in Configs,
         \/ RejectConfig \/ RejectBuffer \/ ConstructWithoutHeader \/ ConstructWithHeader
         \/ CallNext \/ (Rejects("ConfigError") /\ UNCHANGED record_size)
  PROVE  RowTypes' /\ UNCHANGED current_record
<1>1. config.record_size \in Nat
  BY ReaderAssumption DEF Config
<1>2. /\ record_size' \in {record_size, config.record_size}
      /\ outcome' \in {outcome, "ConfigError", "BufferError"} /\ UNCHANGED row_vars
  BY DEF RejectConfig, RejectBuffer, ConstructWithoutHeader, ConstructWithHeader,
     Constructs, CallNext, Rejects, initial_record_size
<1> QED
  BY <1>1, <1>2 DEF RowTypes, row_vars, Outcomes

\* The indices in order, and bytes of the file wherever the block has been filled.
BytesInv ==
  /\ file \in String
  /\ N \in Nat /\ size \in 0 .. N /\ start \in 0 .. size
  /\ reading \in ReadingResult
  /\ \A i \in 0 .. size - 1 : data[i] \in Char

LEMMA InitBytes == ReaderInit => BytesInv
<1> SUFFICES ASSUME ReaderInit PROVE BytesInv
  OBVIOUS
<1>1. CASE StreamInit
  <2>1. file \in String /\ N \in Nat /\ size = 0 /\ start = 0 /\ reading = "ok"
    BY <1>1, ReaderAssumption DEF StreamInit, Stream!Init
  <2> QED
    BY <2>1 DEF BytesInv, ReadingResult
<1>2. CASE MappedInit
  <2>1. /\ file \in Seq(Char) /\ size = Len(file) /\ N = size /\ start = 0
        /\ reading = "ok" /\ data = [i \in 0 .. size - 1 |-> file[i + 1]]
    BY <1>2, ReaderAssumption DEF MappedInit, Mapped!Init, String
  <2>2. size \in Nat
    BY <2>1, LenProperties
  <2>3. ASSUME NEW i \in 0 .. size - 1 PROVE data[i] \in Char
    <3>1. i + 1 \in 1 .. Len(file) /\ data[i] = file[i + 1]
      BY <2>1, <2>2
    <3> QED
      BY <2>1, <3>1, ElementOfSeq
  <2> QED
    BY <2>1, <2>2, <2>3 DEF BytesInv, ReadingResult, String
<1> QED
  BY <1>1, <1>2 DEF ReaderInit

LEMMA ConsumeKeepsBytes ==
  ASSUME BytesInv, NEW bytes \in Nat, consume(bytes)
  PROVE  /\ BytesInv' /\ UNCHANGED <<file, N, size, data, reading, bits>>
         /\ start' = start + (IF bytes <= size - start THEN bytes ELSE size - start)
<1>1. /\ UNCHANGED <<file, N, size, data, reading, bits>>
      /\ start' = start + (IF bytes <= size - start THEN bytes ELSE size - start)
  BY DEF consume, Stream!Consume, Mapped!Consume, Stream!available, Mapped!available,
     Stream!Least, Mapped!Least, Stream!stream_vars
<1>2. start' \in 0 .. size
  <2>1. size \in Nat /\ start \in 0 .. size
    BY DEF BytesInv
  <2> QED
    BY <1>1, <2>1
<1> QED
  BY <1>1, <1>2 DEF BytesInv

\* Compaction leaves a byte of the file where there was one.
LEMMA CompactedKeepsBytes ==
  ASSUME BytesInv
  PROVE  /\ \A i \in 0 .. size - start - 1 : Stream!Compacted[i] \in Char
         /\ \A i \in 0 .. N - 1 : data[i] \in Char => Stream!Compacted[i] \in Char
<1>1. /\ N \in Nat /\ size \in 0 .. N /\ start \in 0 .. size
      /\ \A i \in 0 .. size - 1 : data[i] \in Char
  BY DEF BytesInv
<1>2. CASE size - start # 0 /\ start # 0
  <2>1. Stream!Compacted =
          [i \in 0 .. N - 1 |-> IF i < size - start THEN data[start + i] ELSE data[i]]
    BY <1>2 DEF Stream!Compacted, Stream!available
  <2>2. ASSUME NEW i \in 0 .. size - start - 1 PROVE Stream!Compacted[i] \in Char
    <3>1. i \in 0 .. N - 1 /\ start + i \in 0 .. size - 1 /\ i < size - start
      BY <1>1
    <3> QED
      BY <1>1, <2>1, <3>1
  <2>3. ASSUME NEW i \in 0 .. N - 1, data[i] \in Char PROVE Stream!Compacted[i] \in Char
    <3>1. CASE i < size - start
      <4>1. i \in 0 .. size - start - 1
        BY <1>1, <3>1
      <4> QED
        BY <2>2, <4>1
    <3>2. CASE ~(i < size - start)
      BY <2>1, <2>3, <3>2
    <3> QED
      BY <3>1, <3>2
  <2> QED
    BY <2>2, <2>3
<1>3. CASE ~(size - start # 0 /\ start # 0)
  <2>1. Stream!Compacted = data
    BY <1>3 DEF Stream!Compacted, Stream!available
  <2>2. ASSUME NEW i \in 0 .. size - start - 1 PROVE i \in 0 .. size - 1
    BY <1>1
  <2> QED
    BY <1>1, <2>1, <2>2
<1> QED
  BY <1>2, <1>3

\* A refill of either buffer: unread bytes stay unread, no byte of the file turns
\* into anything else, and a stream that can bring bytes fills the block unless
\* it ends there.
LEMMA RefillKeepsBytes ==
  ASSUME BytesInv, StreamInv, refill, config' = config
  PROVE  /\ BytesInv' /\ UNCHANGED <<file, N>>
         /\ size' - start' >= size - start
         /\ \A i \in 0 .. N - 1 : data[i] \in Char => data'[i] \in Char
         /\ config.mapped_buffer =>
              /\ UNCHANGED <<start, size>>
              /\ reading' = "ok" => start # size
         /\ ~config.mapped_buffer =>
              /\ start' = 0
              /\ reading' = "ok" => bits = {} /\ (size' = N \/ bits' # {})
<1>1. /\ N \in Nat /\ size \in 0 .. N /\ start \in 0 .. size /\ file \in Seq(Char)
      /\ reading \in ReadingResult
      /\ \A i \in 0 .. size - 1 : data[i] \in Char
  BY DEF BytesInv, String
<1>2. CASE config.mapped_buffer
  <2>1. /\ UNCHANGED <<file, N, data, start, size>>
        /\ reading' \in ReadingResult /\ (reading' = "ok" => start # size)
    BY <1>1, <1>2 DEF refill, Mapped!refill, Mapped!empty, ReadingResult
  <2>2. size' - start' >= size - start
    BY <1>1, <2>1
  <2> QED
    BY <1>2, <2>1, <2>2 DEF BytesInv
<1>3. CASE ~config.mapped_buffer
  <2> DEFINE unread == size - start
  <2>1. /\ Stream!Refill /\ Stream!available = unread /\ unread \in 0 .. size
        /\ pos \in 0 .. Len(file) /\ Len(file) \in Nat
    BY <1>1, <1>3, LenProperties DEF refill, StreamInv, Stream!available
  <2>2. /\ \A i \in 0 .. unread - 1 : Stream!Compacted[i] \in Char
        /\ \A i \in 0 .. N - 1 : data[i] \in Char => Stream!Compacted[i] \in Char
    BY CompactedKeepsBytes
  <2> HIDE DEF unread
  <2>3. CASE Stream!RefillFull
    <3>1. /\ data' = Stream!Compacted /\ start' = 0 /\ size' = unread
          /\ reading' = "buffer_full" /\ UNCHANGED <<file, N>>
      BY <2>1, <2>3 DEF Stream!RefillFull, Stream!stream_vars
    <3>2. BytesInv'
      BY <1>1, <2>1, <2>2, <3>1 DEF BytesInv, ReadingResult, String
    <3>3. size' - start' >= size - start
      BY <2>1, <3>1 DEF unread
    <3> QED
      BY <1>3, <2>2, <3>1, <3>2, <3>3
  <2>4. ASSUME NEW n \in Nat, n <= N - unread, n <= Len(file) - pos,
               NEW b, Stream!RefillWith(n, b)
        PROVE  /\ BytesInv' /\ UNCHANGED <<file, N>> /\ start' = 0
               /\ size' = unread + n /\ size' - start' >= size - start
               /\ \A i \in 0 .. N - 1 : data[i] \in Char => data'[i] \in Char
               /\ bits' = b /\ (reading' = "ok" => n # 0)
    <3>1. /\ data' = [i \in 0 .. N - 1 |->
                        IF i \in unread .. unread + n - 1
                        THEN file[pos + i - unread + 1] ELSE Stream!Compacted[i]]
          /\ start' = 0 /\ size' = unread + n /\ bits' = b /\ UNCHANGED <<file, N>>
          /\ reading' = IF n > 0 THEN "ok" ELSE IF "eofbit" \in b THEN "eof" ELSE "fail"
      BY <2>1, <2>4 DEF Stream!RefillWith
    <3>2. ASSUME NEW i \in unread .. unread + n - 1 PROVE data'[i] \in Char
      <4>1. i \in 0 .. N - 1 /\ pos + i - unread + 1 \in 1 .. Len(file)
        BY <1>1, <2>1, <2>4
      <4>2. file[pos + i - unread + 1] \in Char
        BY <1>1, <4>1, ElementOfSeq
      <4> QED
        BY <3>1, <4>1, <4>2
    <3>3. ASSUME NEW i \in 0 .. size' - 1 PROVE data'[i] \in Char
      <4>1. CASE i \in unread .. unread + n - 1
        BY <3>2, <4>1
      <4>2. CASE i \notin unread .. unread + n - 1
        <5>1. i \in 0 .. unread - 1 /\ i \in 0 .. N - 1
          BY <1>1, <2>1, <2>4, <3>1, <4>2
        <5> QED
          BY <2>2, <3>1, <4>2, <5>1
      <4> QED
        BY <4>1, <4>2
    <3>4. ASSUME NEW i \in 0 .. N - 1, data[i] \in Char PROVE data'[i] \in Char
      BY <2>2, <3>1, <3>2, <3>4
    <3>5. size' \in 0 .. N' /\ start' \in 0 .. size' /\ size' - start' >= size - start
      <4>1. unread + n \in 0 .. N /\ unread + n >= unread
        BY <1>1, <2>1, <2>4
      <4> QED
        BY <3>1, <4>1 DEF unread
    <3>6. BytesInv'
      BY <1>1, <3>1, <3>3, <3>5 DEF BytesInv, ReadingResult, String
    <3> QED
      BY <3>1, <3>4, <3>5, <3>6
  <2>5. CASE Stream!RefillReads
    <3> DEFINE space == N - unread
               left == Len(file) - pos
               n == Stream!Least(space, left)
               b == IF left < space THEN {"eofbit"} ELSE {}
    <3>1. Stream!RefillWith(n, b) /\ bits = {}
      BY <2>1, <2>5 DEF Stream!RefillReads
    <3>2. n \in Nat /\ n <= space /\ n <= left /\ (n = space \/ b # {})
      BY <1>1, <2>1 DEF Stream!Least
    <3> HIDE DEF n, b
    <3>3. /\ BytesInv' /\ UNCHANGED <<file, N>> /\ start' = 0
          /\ size' = unread + n /\ size' - start' >= size - start
          /\ \A i \in 0 .. N - 1 : data[i] \in Char => data'[i] \in Char
          /\ bits' = b
      BY <2>4, <3>1, <3>2
    <3>4. size' = N \/ bits' # {}
      BY <1>1, <2>1, <3>2, <3>3
    <3> QED
      BY <1>3, <3>1, <3>3, <3>4
  <2>6. CASE Stream!RefillOnSpentStream
    <3>1. Stream!RefillWith(0, bits)
      BY <2>6 DEF Stream!RefillOnSpentStream
    <3>2. 0 \in Nat /\ 0 <= N - unread /\ 0 <= Len(file) - pos
      BY <1>1, <2>1
    <3> QED
      BY <1>3, <2>4, <3>1, <3>2
  <2>7. CASE Stream!RefillHitsReadError
    <3>1. /\ bits = {}
          /\ \E n \in 0 .. Stream!Least(N - unread, Len(file) - pos) :
               Stream!RefillWith(n, {"badbit"})
      BY <2>1, <2>7 DEF Stream!RefillHitsReadError
    <3>2. PICK n \in 0 .. Stream!Least(N - unread, Len(file) - pos) :
                 Stream!RefillWith(n, {"badbit"})
      BY <3>1
    <3>3. n \in Nat /\ n <= N - unread /\ n <= Len(file) - pos
      BY <1>1, <2>1 DEF Stream!Least
    <3> QED
      BY <1>3, <2>4, <3>1, <3>2, <3>3
  <2> QED
    BY <2>1, <2>3, <2>5, <2>6, <2>7 DEF Stream!Refill
<1> QED
  BY <1>2, <1>3

-----------------------------------------------------------------------------
(***************************************************************************)
(* The vector scan, for every buffer, every vector width and every          *)
(* alphabet: what it finds, and how a line is cut into fields.              *)
(***************************************************************************)
\* The first of some indices.
LEMMA MinIsLeast ==
  ASSUME NEW S, S \subseteq Nat, S # {}
  PROVE  Min(S) \in S /\ \A y \in S : Min(S) <= y
BY LeastNumber DEF Min

-----------------------------------------------------------------------------
(***************************************************************************)
(* The scans.  Both tell the first newline, or that there is none, and the  *)
(* delimiters before it.                                                    *)
(***************************************************************************)
\* The indices of a byte in a buffer.
Places(buffer, c) == {i \in 0 .. Len(buffer) - 1 : buffer[i + 1] = c}

\* newline_pos is the first newline, if there is one, and delim_positions are
\* right up to there.
Finds(scanned, buffer, c) ==
  /\ \/ scanned.newline_pos = NoPosition /\ Places(buffer, c) = {}
     \/ /\ scanned.newline_pos \in Places(buffer, c)
        /\ \A i \in Places(buffer, c) : scanned.newline_pos <= i
  /\ \A i \in 0 .. Len(buffer) - 1 :
       (scanned.newline_pos = NoPosition \/ i < scanned.newline_pos) =>
         (i \in scanned.delim_positions <=> i \in Places(buffer, delimiter))

\* Every byte before the tail lies in one vector, and the vectors before a
\* multiple of the width end before it.
LEMMA VectorOf ==
  ASSUME NEW buffer, Len(buffer) \in Nat, NEW stop \in Nat, stop % LaneWidth = 0,
         stop <= Len(buffer), NEW p \in 0 .. stop - 1
  PROVE  \E v \in Vectors(buffer), bit \in 0 .. LaneWidth - 1 : v < stop /\ p = v + bit
<1> DEFINE v == p - (p % LaneWidth)
<1>1. LaneWidth \in Nat \ {0}
  BY LaneAssumption
<1>2. p % LaneWidth \in 0 .. LaneWidth - 1 /\ v % LaneWidth = 0 /\ v \in Nat
  BY <1>1, Division, p \in Nat
<1>3. v < stop
  BY <1>1, <1>2
<1>4. v + LaneWidth <= stop
  <2> HIDE DEF v
  <2> QED
    BY <1>1, <1>2, <1>3, MultiplesApart
<1> QED
  <2> DEFINE bit == p % LaneWidth
  <2>1. bit \in 0 .. LaneWidth - 1 /\ p = v + bit
    BY <1>1, <1>2
  <2>2. v \in Vectors(buffer)
    BY <1>1, <1>2, <1>4 DEF Vectors
  <2> HIDE DEF v, bit
  <2> QED
    BY <1>3, <2>1, <2>2

LEMMA VectorScan ==
  ASSUME NEW buffer, Len(buffer) \in Nat, NEW c
  PROVE  Finds(scan_for_structural_chars(buffer, c), buffer, c)
<1> DEFINE scanned == scan_for_structural_chars(buffer, c)
           stop == ScanStop(buffer, c)
           in_vector == NewlineVectors(buffer, c)
           before == {v \in Vectors(buffer) : v < stop}
           passed == UNION {{i + bit : bit \in mask(buffer, i, delimiter)} : i \in before}
           bit_of_newline == Min(mask(buffer, stop, c))
           tail == {i \in stop .. Len(buffer) - 1 : buffer[i + 1] = c}
           limit == IF tail = {} THEN Len(buffer) ELSE Min(tail)
<1>1. LaneWidth \in Nat \ {0}
  BY LaneAssumption
<1>2. /\ Vectors(buffer) \subseteq Nat /\ in_vector \subseteq Vectors(buffer)
      /\ \A v \in Vectors(buffer) : v % LaneWidth = 0 /\ v + LaneWidth <= Len(buffer)
  BY <1>1 DEF NewlineVectors, Vectors
<1>3. in_vector # {} => stop \in in_vector /\ \A v \in in_vector : stop <= v
  <2>1. in_vector \subseteq Nat
    BY <1>2
  <2> QED
    BY <2>1, MinIsLeast DEF ScanStop
<1>4. stop \in Nat /\ stop % LaneWidth = 0 /\ stop <= Len(buffer)
  <2>1. CASE in_vector # {}
    BY <1>1, <1>2, <1>3, <2>1
  <2>2. CASE in_vector = {}
    <3>1. stop = Len(buffer) - (Len(buffer) % LaneWidth)
      BY <2>2 DEF ScanStop
    <3>2. /\ Len(buffer) % LaneWidth \in 0 .. LaneWidth - 1
          /\ Len(buffer) = (LaneWidth * (Len(buffer) \div LaneWidth)) + (Len(buffer) % LaneWidth)
          /\ Len(buffer) \div LaneWidth \in Nat
          /\ (Len(buffer) - (Len(buffer) % LaneWidth)) % LaneWidth = 0
      BY <1>1, Division
    <3> QED
      BY <1>1, <3>1, <3>2
  <2> QED
    BY <2>1, <2>2
<1> HIDE DEF stop
\* The vectors passed tell their bytes, and hold no newline.
<1>5. ASSUME NEW p \in 0 .. stop - 1
      PROVE  /\ p \in passed <=> buffer[p + 1] = delimiter
             /\ buffer[p + 1] # c
  <2>1. PICK v \in before, bit \in 0 .. LaneWidth - 1 : v \in Nat /\ p = v + bit
    BY <1>1, <1>2, <1>4, VectorOf
  <2>2. ASSUME buffer[p + 1] = delimiter PROVE p \in passed
    <3>1. bit \in mask(buffer, v, delimiter)
      BY <2>1, <2>2 DEF mask
    <3> QED
      BY <2>1, <3>1
  <2>3. ASSUME p \in passed PROVE buffer[p + 1] = delimiter
    <3>1. PICK w \in before : p \in {w + b : b \in mask(buffer, w, delimiter)}
      BY <2>3
    <3>2. PICK b \in mask(buffer, w, delimiter) : p = w + b
      BY <3>1
    <3> QED
      BY <3>2 DEF mask
  <2>4. buffer[p + 1] # c
    <3>1. ASSUME buffer[p + 1] = c PROVE FALSE
      <4>1. bit \in mask(buffer, v, c)
        BY <2>1, <3>1 DEF mask
      <4>2. v \in in_vector /\ v < stop
        BY <2>1, <4>1 DEF NewlineVectors
      <4> QED
        BY <1>3, <1>4, <2>1, <4>2
    <3> QED
      BY <3>1
  <2> QED
    BY <2>2, <2>3, <2>4
<1>6. CASE in_vector # {}
  <2>1. /\ mask(buffer, stop, c) \subseteq Nat
        /\ bit_of_newline \in mask(buffer, stop, c)
        /\ \A b \in mask(buffer, stop, c) : bit_of_newline <= b
    <3>1. mask(buffer, stop, c) # {} /\ mask(buffer, stop, c) \subseteq Nat
      BY <1>1, <1>3, <1>6 DEF NewlineVectors, mask
    <3> QED
      BY <3>1, MinIsLeast
  <2> DEFINE newline_pos == stop + bit_of_newline
             found == {stop + bit : bit \in
                        {b \in mask(buffer, stop, delimiter) : b < bit_of_newline}}
  <2>2. /\ scanned.newline_pos = newline_pos
        /\ scanned.delim_positions = passed \cup found
    BY <1>6 DEF scan_for_structural_chars, ctz, stop
  <2> HIDE DEF passed, bit_of_newline
  <2>3. newline_pos \in Places(buffer, c)
    <3>1. /\ bit_of_newline \in 0 .. LaneWidth - 1 /\ buffer[stop + bit_of_newline + 1] = c
          /\ stop + LaneWidth <= Len(buffer)
      BY <1>2, <1>3, <1>6, <2>1 DEF mask
    <3> QED
      BY <1>1, <1>4, <3>1 DEF Places
  <2>4. ASSUME NEW i \in Places(buffer, c) PROVE newline_pos <= i
    <3>1. i \in 0 .. Len(buffer) - 1 /\ buffer[i + 1] = c
      BY DEF Places
    <3>2. i >= stop
      BY <1>4, <1>5, <3>1
    <3>3. CASE i < stop + LaneWidth
      <4>1. i - stop \in mask(buffer, stop, c)
        BY <1>1, <1>4, <3>1, <3>2, <3>3 DEF mask
      <4> QED
        BY <1>4, <2>1, <3>1, <4>1
    <3> QED
      BY <1>1, <1>4, <2>1, <3>1, <3>3 DEF mask
  <2>5. ASSUME NEW i \in 0 .. Len(buffer) - 1, i < newline_pos
        PROVE  i \in passed \cup found <=> i \in Places(buffer, delimiter)
    <3>1. CASE i < stop
      <4>1. i \notin found
        BY <1>4, <2>1, <3>1 DEF mask
      <4> QED
        BY <1>4, <1>5, <3>1, <4>1 DEF Places
    <3>2. CASE i >= stop
      <4>1. i \notin passed
        <5>1. ASSUME i \in passed PROVE FALSE
          <6>1. PICK w \in before : i \in {w + b : b \in mask(buffer, w, delimiter)}
            BY <5>1 DEF passed
          <6>2. PICK b \in mask(buffer, w, delimiter) : i = w + b
            BY <6>1
          <6>3. w + LaneWidth <= stop
            BY <1>1, <1>2, <1>4, MultiplesApart
          <6> QED
            BY <1>1, <1>2, <1>4, <3>2, <6>2, <6>3 DEF mask
        <5> QED
          BY <5>1
      <4>2. i - stop \in 0 .. LaneWidth - 1 /\ i - stop < bit_of_newline
        BY <1>1, <1>4, <2>1, <2>5, <3>2 DEF mask
      <4>3. i \in found <=> i - stop \in mask(buffer, stop, delimiter)
        BY <1>4, <2>1, <4>2 DEF mask
      <4>4. i - stop \in mask(buffer, stop, delimiter) <=> buffer[i + 1] = delimiter
        BY <1>4, <4>2 DEF mask
      <4> QED
        BY <4>1, <4>3, <4>4 DEF Places
    <3> QED
      BY <1>4, <3>1, <3>2
  <2> HIDE DEF newline_pos, found, scanned
  <2>6. newline_pos # NoPosition
    BY <2>3 DEF Places, NoPosition
  <2> QED
    BY <2>2, <2>3, <2>4, <2>5, <2>6 DEF Finds, scanned
<1>7. CASE in_vector = {}
  <2>1. tail # {} => Min(tail) \in tail /\ \A y \in tail : Min(tail) <= y
    <3>1. tail \subseteq Nat
      BY <1>4
    <3> HIDE DEF tail
    <3> QED
      BY <3>1, MinIsLeast
  <2> DEFINE found == {i \in stop .. limit - 1 : buffer[i + 1] = delimiter}
  <2>2. /\ scanned.newline_pos = (IF tail = {} THEN NoPosition ELSE Min(tail))
        /\ scanned.delim_positions = passed \cup found
    BY <1>7 DEF scan_for_structural_chars, stop
  <2>3. limit \in stop .. Len(buffer) /\ (tail # {} => limit = Min(tail) /\ limit \in tail)
    BY <1>4, <2>1
  <2>4. Places(buffer, c) = tail
    BY <1>4, <1>5 DEF Places
  <2> HIDE DEF passed, tail
  <2>5. ASSUME NEW i \in 0 .. Len(buffer) - 1, i < limit
        PROVE  i \in passed \cup found <=> i \in Places(buffer, delimiter)
    <3>1. CASE i < stop
      <4>1. i \notin found
        BY <1>4, <3>1
      <4> QED
        BY <1>4, <1>5, <3>1, <4>1 DEF Places
    <3>2. CASE i >= stop
      <4>1. i \notin passed
        <5>1. ASSUME i \in passed PROVE FALSE
          <6>1. PICK w \in before : i \in {w + b : b \in mask(buffer, w, delimiter)}
            BY <5>1 DEF passed
          <6>2. PICK b \in mask(buffer, w, delimiter) : i = w + b
            BY <6>1
          <6>3. w + LaneWidth <= stop
            BY <1>1, <1>2, <1>4, MultiplesApart
          <6> QED
            BY <1>1, <1>2, <1>4, <3>2, <6>2, <6>3 DEF mask
        <5> QED
          BY <5>1
      <4> QED
        BY <1>4, <2>3, <2>5, <3>2, <4>1 DEF Places
    <3> QED
      BY <1>4, <3>1, <3>2
  <2> HIDE DEF found, limit, scanned
  <2>6. tail \subseteq Nat /\ NoPosition \notin Nat
    BY <1>4 DEF tail, NoPosition
  <2>7. CASE tail = {}
    <3>1. limit = Len(buffer)
      BY <2>7 DEF limit
    <3> QED
      BY <2>2, <2>4, <2>5, <2>7, <3>1 DEF Finds, scanned
  <2>8. CASE tail # {}
    BY <2>1, <2>2, <2>3, <2>4, <2>5, <2>6, <2>8 DEF Finds, scanned
  <2> QED
    BY <2>7, <2>8
<1> QED
  BY <1>6, <1>7

-----------------------------------------------------------------------------
(***************************************************************************)
(* Views that lie one delimiter apart.                                      *)
(***************************************************************************)
Views == Seq(View) \ {<<>>}

\* The index behind the last byte of a view.
behind(view) == view.from + view.len

\* The views divide the bytes from a up to b, but for one byte between each two.
Spans(views, a, b) ==
  /\ \A k \in 1 .. Len(views) : a <= views[k].from /\ behind(views[k]) <= b
  /\ \A k \in 2 .. Len(views) : views[k].from = behind(views[k - 1]) + 1
  /\ views[1].from = a /\ behind(views[Len(views)]) = b

LEMMA ViewAt ==
  ASSUME NEW views \in Seq(View), NEW k \in 1 .. Len(views)
  PROVE  views[k].from \in Nat /\ views[k].len \in Nat /\ behind(views[k]) \in Nat
<1>1. views[k] \in View
  BY ElementOfSeq
<1>2. views[k].from \in Nat /\ views[k].len \in Nat
  BY <1>1 DEF View
<1> QED
  BY <1>2 DEF behind

LEMMA ViewsAreViews ==
  ASSUME NEW views \in Views
  PROVE  /\ views \in Seq(View) /\ Len(views) \in Nat \ {0}
         /\ \A k \in 1 .. Len(views) :
              views[k] \in View /\ views[k].from \in Nat /\ views[k].len \in Nat
<1>1. views \in Seq(View) /\ Len(views) \in Nat \ {0}
  BY EmptySeq DEF Views
<1>2. ASSUME NEW k \in 1 .. Len(views) PROVE views[k] \in View
  BY <1>1, ElementOfSeq
<1> QED
  BY <1>1, <1>2 DEF View

LEMMA SpansAt ==
  ASSUME NEW views \in Views, NEW a \in Int, NEW b \in Int, Spans(views, a, b),
         NEW k \in 1 .. Len(views)
  PROVE  /\ views[k].from \in Nat /\ views[k].len \in Nat /\ behind(views[k]) \in Nat
         /\ a <= views[k].from /\ views[k].from <= behind(views[k])
         /\ behind(views[k]) <= b
         /\ k # 1 => k - 1 \in 1 .. Len(views) /\ views[k].from = behind(views[k - 1]) + 1
         /\ k = 1 => views[k].from = a
         /\ k = Len(views) => behind(views[k]) = b
<1>1. Len(views) \in Nat \ {0} /\ views[k].from \in Nat /\ views[k].len \in Nat
  BY ViewsAreViews
<1>2. /\ behind(views[k]) \in Nat /\ views[k].from <= behind(views[k])
  BY <1>1 DEF behind
<1> QED
  BY <1>1, <1>2 DEF Spans

\* The last view made longer.
Lengthened(views, more) == [views EXCEPT ![Len(views)].len = @ + more]

LEMMA LastLengthened ==
  ASSUME NEW views \in Views, NEW more \in Nat
  PROVE  LET longer == Lengthened(views, more)
         IN  /\ longer \in Views /\ Len(longer) = Len(views)
             /\ \A k \in 1 .. Len(views) : /\ longer[k].from = views[k].from
                                           /\ k < Len(views) => longer[k] = views[k]
             /\ longer[Len(views)].len = views[Len(views)].len + more
<1> DEFINE longer == Lengthened(views, more)
<1>1. /\ views \in Seq(View) /\ Len(views) \in Nat \ {0}
      /\ views[Len(views)] \in View /\ views[Len(views)].len \in Nat
  BY ViewsAreViews
<1> DEFINE last == [views[Len(views)] EXCEPT !.len = @ + more]
<1>2. last \in View /\ last.from = views[Len(views)].from
      /\ last.len = views[Len(views)].len + more
  BY <1>1 DEF View
<1>3. longer = [views EXCEPT ![Len(views)] = last]
  BY DEF Lengthened
<1> HIDE DEF last, longer
<1>4. /\ longer \in Seq(View) /\ Len(longer) = Len(views)
      /\ \A k \in 1 .. Len(views) : longer[k] = IF k = Len(views) THEN last ELSE views[k]
  BY <1>1, <1>2, <1>3, ExceptSeq
<1>5. longer \in Views
  BY <1>1, <1>4, EmptySeq DEF Views
<1> QED
  BY <1>1, <1>2, <1>4, <1>5 DEF longer

\* Fields that lie between two ends are between two ends in order.
LEMMA SpansOrdered ==
  ASSUME NEW views \in Views, NEW a \in Int, NEW b \in Int, Spans(views, a, b)
  PROVE  a <= b
<1> DEFINE k == Len(views)
<1>1. k \in 1 .. Len(views)
  BY ViewsAreViews
<1> HIDE DEF k
<1>2. a <= views[k].from /\ views[k].from <= behind(views[k]) /\ behind(views[k]) <= b
  BY <1>1, SpansAt
<1>3. views[k].from \in Nat /\ behind(views[k]) \in Nat
  BY <1>1, SpansAt
<1> HIDE DEF behind
<1> QED
  BY <1>2, <1>3

LEMMA LengthenedSpans ==
  ASSUME NEW views \in Views, NEW a \in Int, NEW b \in Int, Spans(views, a, b),
         NEW more \in Nat
  PROVE  Spans(Lengthened(views, more), a, b + more)
<1> DEFINE longer == Lengthened(views, more)
<1>1. /\ Len(views) \in Nat \ {0}
      /\ \A k \in 1 .. Len(views) : views[k].from \in Nat /\ views[k].len \in Nat
      /\ 1 \in 1 .. Len(views) /\ Len(views) \in 1 .. Len(views)
  BY ViewsAreViews
<1>2. /\ Len(longer) = Len(views)
      /\ \A k \in 1 .. Len(views) : /\ longer[k].from = views[k].from
                                    /\ k < Len(views) => longer[k] = views[k]
      /\ longer[Len(views)].len = views[Len(views)].len + more
  BY LastLengthened
<1> HIDE DEF longer
<1>3. /\ behind(views[Len(views)]) = b /\ behind(longer[Len(views)]) = b + more
      /\ longer[1].from = a
  <2>1. behind(views[Len(views)]) = b /\ views[1].from = a
    BY DEF Spans
  <2>2. /\ longer[Len(views)].from = views[Len(views)].from /\ longer[1].from = views[1].from
        /\ views[Len(views)].from \in Nat /\ views[Len(views)].len \in Nat
    BY <1>1, <1>2
  <2>3. behind(longer[Len(views)]) = behind(views[Len(views)]) + more
    BY <1>2, <2>2 DEF behind
  <2> QED
    BY <2>1, <2>2, <2>3
<1>4. ASSUME NEW k \in 1 .. Len(longer)
      PROVE  a <= longer[k].from /\ behind(longer[k]) <= b + more
  <2>1. a <= views[k].from /\ behind(views[k]) <= b /\ behind(views[k]) \in Nat
    BY <1>1, <1>2 DEF Spans, behind
  <2>2. CASE k = Len(views)
    BY <1>2, <1>3, <2>1, <2>2
  <2>3. CASE k # Len(views)
    BY <1>1, <1>2, <2>1, <2>3
  <2> QED
    BY <2>2, <2>3
<1>5. ASSUME NEW k \in 2 .. Len(longer)
      PROVE  longer[k].from = behind(longer[k - 1]) + 1
  <2>1. k \in 1 .. Len(views) /\ k - 1 \in 1 .. Len(views) /\ k - 1 < Len(views)
    BY <1>1, <1>2
  <2> QED
    BY <1>2, <2>1 DEF Spans
<1> QED
  BY <1>2, <1>3, <1>4, <1>5 DEF Spans, longer

LEMMA TakeByteSpans ==
  ASSUME NEW cut \in Views, NEW i \in Nat, Spans(cut, 0, i), NEW D
  PROVE  LET further == TakeByte(cut, i + 1, D)
         IN  /\ further \in Views
             /\ Spans(further, 0, i + 1)
             /\ further[Len(further)].len = 0 <=> i \in D
<1> DEFINE further == TakeByte(cut, i + 1, D)
<1>1. /\ cut \in Seq(View) /\ Len(cut) \in Nat \ {0}
      /\ \A k \in 1 .. Len(cut) : cut[k].from \in Nat /\ cut[k].len \in Nat
  BY ViewsAreViews
<1>2. CASE i \in D
  <2> DEFINE new == [from |-> i + 1, len |-> 0]
  <2>1. further = Append(cut, new) /\ new \in View
    BY <1>2 DEF TakeByte, View
  <2> HIDE DEF further, new
  <2>2. /\ further \in Views /\ Len(further) = Len(cut) + 1
        /\ \A k \in 1 .. Len(cut) : further[k] = cut[k]
        /\ further[Len(cut) + 1] = new
    BY <1>1, <2>1, AppendProperties DEF Views
  <2>3. behind(new) = i + 1 /\ new.from = i + 1 /\ behind(cut[Len(cut)]) = i
    BY DEF Spans, behind, new
  <2>4. ASSUME NEW k \in 1 .. Len(further)
        PROVE  0 <= further[k].from /\ behind(further[k]) <= i + 1
    <3>1. CASE k \in 1 .. Len(cut)
      <4>1. behind(cut[k]) <= i /\ 0 <= cut[k].from /\ behind(cut[k]) \in Nat
        BY <1>1, <3>1 DEF Spans, behind
      <4> QED
        BY <2>2, <3>1, <4>1
    <3> QED
      BY <1>1, <2>2, <2>3, <3>1
  <2>5. ASSUME NEW k \in 2 .. Len(further)
        PROVE  further[k].from = behind(further[k - 1]) + 1
    BY <1>1, <2>2, <2>3 DEF Spans
  <2>6. Spans(further, 0, i + 1)
    BY <1>1, <2>2, <2>3, <2>4, <2>5 DEF Spans
  <2> QED
    BY <1>2, <2>2, <2>6 DEF further, new
<1>3. CASE i \notin D
  <2>1. further = Lengthened(cut, 1)
    BY <1>3 DEF TakeByte, Lengthened
  <2> HIDE DEF further
  <2>2. /\ further \in Views /\ Len(further) = Len(cut)
        /\ further[Len(cut)].len = cut[Len(cut)].len + 1
    BY <2>1, LastLengthened
  <2>3. Spans(further, 0, i + 1)
    BY <2>1, LengthenedSpans
  <2> QED
    BY <1>1, <1>3, <2>2, <2>3 DEF further
<1> QED
  BY <1>2, <1>3

\* The views moved by an offset, and those of a field cut in two put together.
Moved(views, offset) ==
  [k \in 1 .. Len(views) |-> [views[k] EXCEPT !.from = offset + @]]

Joined(first, second) == Lengthened(first, second[1].len) \o Tail(second)

LEMMA MovedSpans ==
  ASSUME NEW views \in Views, NEW a \in Int, NEW b \in Int, Spans(views, a, b),
         NEW offset \in Int, 0 <= offset + a
  PROVE  /\ Moved(views, offset) \in Views
         /\ Len(Moved(views, offset)) = Len(views)
         /\ \A k \in 1 .. Len(views) : Moved(views, offset)[k].len = views[k].len
         /\ Spans(Moved(views, offset), offset + a, offset + b)
<1> DEFINE moved == Moved(views, offset)
<1>1. /\ Len(views) \in Nat \ {0}
      /\ \A k \in 1 .. Len(views) :
           views[k] \in View /\ views[k].from \in Nat /\ views[k].len \in Nat
  BY ViewsAreViews
<1>2. ASSUME NEW k \in 1 .. Len(views)
      PROVE  /\ moved[k].from = offset + views[k].from /\ moved[k].len = views[k].len
             /\ behind(moved[k]) = offset + behind(views[k]) /\ moved[k] \in View
  <2>1. moved[k] = [views[k] EXCEPT !.from = offset + @]
    BY DEF Moved
  <2>2. offset + views[k].from \in Nat
    BY <1>1 DEF Spans
  <2>3. views[k] \in View
    BY <1>1
  <2> HIDE DEF moved
  <2>4. moved[k].from = offset + views[k].from /\ moved[k].len = views[k].len
        /\ moved[k] \in View
    BY <2>1, <2>2, <2>3 DEF View
  <2> QED
    BY <1>1, <2>4 DEF behind
<1>3. Len(moved) = Len(views) /\ moved \in Views
  <2>1. moved \in [1 .. Len(views) -> View]
    BY <1>2 DEF Moved
  <2>2. moved \in Seq(View) /\ Len(moved) = Len(views)
    BY <1>1, <2>1
  <2> QED
    BY <1>1, <2>2, EmptySeq DEF Views
<1> HIDE DEF moved
<1>4. Spans(moved, offset + a, offset + b)
  <2>1. ASSUME NEW k \in 1 .. Len(moved)
        PROVE  offset + a <= moved[k].from /\ behind(moved[k]) <= offset + b
    <3>1. /\ k \in 1 .. Len(views) /\ moved[k].from = offset + views[k].from
          /\ behind(moved[k]) = offset + behind(views[k])
      BY <1>2, <1>3
    <3>2. /\ a <= views[k].from /\ behind(views[k]) <= b
          /\ views[k].from \in Nat /\ behind(views[k]) \in Nat
      BY <3>1, SpansAt
    <3> QED
      BY <3>1, <3>2
  <2>2. ASSUME NEW k \in 2 .. Len(moved)
        PROVE  moved[k].from = behind(moved[k - 1]) + 1
    <3>1. k \in 1 .. Len(views) /\ k - 1 \in 1 .. Len(views)
          /\ views[k].from = behind(views[k - 1]) + 1
      BY <1>1, <1>3 DEF Spans
    <3>2. /\ behind(views[k - 1]) \in Nat
          /\ moved[k].from = offset + views[k].from
          /\ behind(moved[k - 1]) = offset + behind(views[k - 1])
      BY <1>2, <3>1, SpansAt
    <3> QED
      BY <3>1, <3>2
  <2>3. moved[1].from = offset + a /\ behind(moved[Len(moved)]) = offset + b
    BY <1>1, <1>2, <1>3 DEF Spans
  <2> QED
    BY <2>1, <2>2, <2>3 DEF Spans
<1> QED
  BY <1>2, <1>3, <1>4 DEF moved

LEMMA JoinedSpans ==
  ASSUME NEW first \in Views, NEW second \in Views, NEW a \in Int, NEW m \in Int,
         NEW b \in Int, Spans(first, a, m), Spans(second, m, b)
  PROVE  LET joined == Joined(first, second)
         IN  /\ joined \in Views
             /\ Spans(joined, a, b)
             /\ second[Len(second)].len # 0 => joined[Len(joined)].len # 0
<1> DEFINE longer == Lengthened(first, second[1].len)
           rest == Tail(second)
           joined == Joined(first, second)
<1>1. /\ second \in Seq(View) /\ second # <<>> /\ Len(second) \in Nat \ {0}
      /\ \A k \in 1 .. Len(second) : second[k].from \in Nat /\ second[k].len \in Nat
  BY ViewsAreViews DEF Views
<1>2. /\ longer \in Views /\ Spans(longer, a, m + second[1].len)
      /\ second[1].len \in Nat
  BY <1>1, LastLengthened, LengthenedSpans
<1>3. /\ rest \in Seq(View) /\ Len(rest) = Len(second) - 1
      /\ \A k \in 1 .. Len(rest) : rest[k] = second[k + 1]
  BY <1>1, HeadTailProperties
<1>4. joined = longer \o rest
  BY DEF Joined
<1> HIDE DEF longer, rest, joined
<1> DEFINE n == Len(longer)
<1>5. /\ n \in Nat \ {0} /\ longer \in Seq(View)
      /\ \A k \in 1 .. n : longer[k].from \in Nat /\ longer[k].len \in Nat
  BY <1>2, ViewsAreViews
<1>6. /\ joined \in Seq(View) /\ Len(joined) = n + Len(second) - 1
      /\ \A k \in 1 .. n : joined[k] = longer[k]
      /\ \A k \in n + 1 .. Len(joined) : joined[k] = second[k - n + 1]
  <2>1. /\ joined \in Seq(View) /\ Len(joined) = n + Len(rest)
        /\ \A k \in 1 .. n + Len(rest) :
             joined[k] = IF k <= n THEN longer[k] ELSE rest[k - n]
    BY <1>3, <1>4, <1>5, ConcatProperties
  <2>2. ASSUME NEW k \in n + 1 .. Len(joined) PROVE joined[k] = second[k - n + 1]
    <3>1. k - n \in 1 .. Len(rest)
      BY <1>1, <1>3, <1>5, <2>1
    <3>2. joined[k] = rest[k - n]
      BY <1>1, <1>3, <1>5, <2>1, <3>1
    <3> QED
      BY <1>3, <3>1, <3>2
  <2> QED
    BY <1>1, <1>3, <1>5, <2>1, <2>2
<1>7. joined \in Views
  BY <1>1, <1>5, <1>6, EmptySeq DEF Views
<1>8. /\ behind(longer[n]) = m + second[1].len /\ m + second[1].len = behind(second[1])
      /\ second[1].from = m /\ longer[1].from = a
  BY <1>1, <1>2 DEF Spans, behind
<1>9. a <= m /\ m <= m + second[1].len /\ m + second[1].len <= b
  <2>1. 1 \in 1 .. Len(first) /\ Len(first) \in 1 .. Len(first)
        /\ 1 \in 1 .. Len(second)
    BY <1>1, ViewsAreViews
  <2>2. a <= m
    BY SpansOrdered
  <2>3. behind(second[1]) <= b
    BY <2>1, SpansAt
  <2> QED
    BY <1>2, <1>8, <2>2, <2>3
<1>10. ASSUME NEW k \in 1 .. Len(joined)
       PROVE  a <= joined[k].from /\ behind(joined[k]) <= b
  <2>1. CASE k <= n
    <3>1. k \in 1 .. n /\ joined[k] = longer[k]
      BY <1>5, <1>6, <2>1
    <3>2. /\ a <= longer[k].from /\ behind(longer[k]) \in Nat
          /\ behind(longer[k]) <= m + second[1].len
      <4>1. m + second[1].len \in Int
        BY <1>2
      <4> QED
        BY <1>2, <3>1, <4>1, SpansAt
    <3> QED
      BY <1>2, <1>9, <3>1, <3>2
  <2>2. CASE k > n
    <3>1. k - n + 1 \in 1 .. Len(second) /\ joined[k] = second[k - n + 1]
      <4> HIDE DEF n
      <4>1. k \in n + 1 .. Len(joined) /\ k - n + 1 \in 1 .. Len(second)
        BY <1>1, <1>5, <1>6, <2>2
      <4> QED
        BY <1>6, <4>1
    <3>2. m <= joined[k].from /\ behind(joined[k]) <= b /\ joined[k].from \in Nat
      BY <3>1, SpansAt
    <3> QED
      BY <1>9, <3>2
  <2> QED
    BY <1>5, <1>6, <2>1, <2>2
<1>11. ASSUME NEW k \in 2 .. Len(joined)
       PROVE  joined[k].from = behind(joined[k - 1]) + 1
  <2>1. CASE k <= n
    <3>1. /\ k \in 1 .. n /\ k - 1 \in 1 .. n /\ k # 1
          /\ joined[k] = longer[k] /\ joined[k - 1] = longer[k - 1]
      <4> HIDE DEF n
      <4>1. k \in 1 .. n /\ k - 1 \in 1 .. n /\ k # 1
        BY <1>5, <2>1
      <4> QED
        BY <1>6, <4>1
    <3>2. m + second[1].len \in Int
      BY <1>2
    <3> QED
      BY <1>2, <3>1, <3>2, SpansAt
  <2>2. CASE k = n + 1
    <3>1. joined[k] = second[2] /\ joined[k - 1] = longer[n] /\ 2 \in 1 .. Len(second)
      BY <1>1, <1>5, <1>6, <2>2
    <3>2. second[2].from = behind(second[1]) + 1
      BY <3>1 DEF Spans
    <3> QED
      BY <1>8, <3>1, <3>2
  <2>3. CASE k > n + 1
    <3>1. /\ k - n + 1 \in 1 .. Len(second) /\ (k - 1) - n + 1 = (k - n + 1) - 1
          /\ k - n + 1 # 1 /\ k - 1 \in n + 1 .. Len(joined)
      BY <1>1, <1>5, <1>6, <2>3
    <3>2. joined[k] = second[k - n + 1] /\ joined[k - 1] = second[(k - n + 1) - 1]
      BY <1>5, <1>6, <2>3, <3>1
    <3>3. second[k - n + 1].from = behind(second[(k - n + 1) - 1]) + 1
      BY <3>1, SpansAt
    <3> QED
      BY <3>2, <3>3
  <2> QED
    BY <1>5, <1>6, <2>1, <2>2, <2>3
<1>12. /\ joined[1].from = a /\ behind(joined[Len(joined)]) = b
       /\ second[Len(second)].len # 0 => joined[Len(joined)].len # 0
  <2>1. joined[1].from = a
    BY <1>5, <1>6, <1>8
  <2>2. CASE Len(second) = 1
    <3>1. joined[Len(joined)] = longer[n]
      BY <1>5, <1>6, <2>2
    <3>2. second[1].len # 0 => longer[n].len # 0
      <4>1. n = Len(first) /\ first[n].len \in Nat
            /\ longer[n].len = first[n].len + second[1].len
        BY ViewsAreViews, <1>1, LastLengthened DEF longer
      <4> QED
        BY <1>2, <4>1
    <3> QED
      BY <1>8, <2>1, <2>2, <3>1, <3>2 DEF Spans
  <2>3. CASE Len(second) # 1
    <3>1. /\ Len(joined) \in n + 1 .. Len(joined)
          /\ Len(joined) - n + 1 = Len(second)
      <4>1. Len(second) \in Nat /\ Len(second) >= 2
        <5>1. Len(second) \in Nat /\ Len(second) # 0 /\ Len(second) # 1
          BY <1>1, <2>3
        <5>2. \A x \in Nat : x # 0 /\ x # 1 => x >= 2
          OBVIOUS
        <5> QED
          BY <5>1, <5>2
      <4>2. Len(joined) = n + Len(second) - 1 /\ n \in Nat
        BY <1>5, <1>6
      <4> HIDE DEF n
      <4> QED
        BY <4>1, <4>2
    <3>2. joined[Len(joined)] = second[Len(second)]
      BY <1>6, <3>1
    <3> QED
      BY <2>1, <3>2 DEF Spans
  <2> QED
    BY <2>2, <2>3
<1> QED
  BY <1>7, <1>10, <1>11, <1>12 DEF Spans, joined

\* Cut is computed a byte at a time.
LEMMA CutByBytes ==
  ASSUME NEW D, NEW width \in Nat
  PROVE  \E cut : /\ cut[0] = << [from |-> 0, len |-> 0] >>
                  /\ \A i \in 1 .. width : cut[i] = TakeByte(cut[i - 1], i, D)
                  /\ Cut(D, width) = cut[width]
<1> DEFINE first == << [from |-> 0, len |-> 0] >>
           step == [i \in 1 .. width |-> [views \in Views |-> TakeByte(views, i, D)]]
           cut[i \in 0 .. width] == IF i = 0 THEN first ELSE TakeByte(cut[i - 1], i, D)
<1>1. Cut(D, width) = cut[width]
  BY DEF Cut
<1>2. first \in Views
  BY DEF Views, View
<1> HIDE DEF first, cut
<1>3. step \in Steps(Views, width)
  <2>1. ASSUME NEW i \in Nat, NEW views \in Views PROVE TakeByte(views, i, D) \in Views
    <3>1. Lengthened(views, 1) \in Views
      BY LastLengthened
    <3>2. Append(views, [from |-> i, len |-> 0]) \in Views
      BY AppendProperties DEF Views, View
    <3> QED
      BY <3>1, <3>2 DEF TakeByte, Lengthened
  <2> QED
    BY <2>1 DEF Steps
<1>4. PICK f \in [0 .. width -> Views] : Iterates(f, first, step, width)
  <2> HIDE DEF step
  <2> QED
    BY <1>2, <1>3, Recursion
<1>5. ASSUME NEW i \in 1 .. width PROVE f[i] = TakeByte(f[i - 1], i, D)
  <2>1. f[i - 1] \in Views
    OBVIOUS
  <2> QED
    BY <1>4, <2>1 DEF Iterates
<1>6. f = [i \in 0 .. width |-> IF i = 0 THEN first ELSE TakeByte(f[i - 1], i, D)]
  BY <1>4, <1>5 DEF Iterates
<1>7. cut = [i \in 0 .. width |-> IF i = 0 THEN first ELSE TakeByte(cut[i - 1], i, D)]
  BY <1>6, Zenon DEF cut
<1>8. cut[0] = first /\ \A i \in 1 .. width : cut[i] = TakeByte(cut[i - 1], i, D)
  BY <1>7
<1> QED
  BY <1>1, <1>8 DEF first

\* The fields of a line lie one delimiter apart from its first byte to its end,
\* and the last one has a byte unless a delimiter ends the line.
LEMMA CutSpans ==
  ASSUME NEW D, NEW width \in Nat
  PROVE  /\ Cut(D, width) \in Views
         /\ Spans(Cut(D, width), 0, width)
         /\ width # 0 /\ width - 1 \notin D => Cut(D, width)[Len(Cut(D, width))].len # 0
<1>1. PICK cut : /\ cut[0] = << [from |-> 0, len |-> 0] >>
                 /\ \A i \in 1 .. width : cut[i] = TakeByte(cut[i - 1], i, D)
                 /\ Cut(D, width) = cut[width]
  BY CutByBytes
<1> DEFINE good == {i \in 0 .. width : cut[i] \in Views /\ Spans(cut[i], 0, i)}
<1>2. 0 \in good
  <2>1. cut[0] \in Views /\ Len(cut[0]) = 1 /\ cut[0][1] = [from |-> 0, len |-> 0]
    BY <1>1 DEF Views, View
  <2> QED
    BY <2>1 DEF Spans, behind
<1>3. \A i \in 1 .. width : i - 1 \in good => i \in good
  <2> SUFFICES ASSUME NEW i \in 1 .. width, i - 1 \in good PROVE i \in good
    OBVIOUS
  <2>1. i - 1 \in Nat /\ (i - 1) + 1 = i
    OBVIOUS
  <2> QED
    BY <1>1, <2>1, TakeByteSpans
<1>4. 0 .. width \subseteq good
  <2> HIDE DEF good
  <2> QED
    BY <1>2, <1>3, IndexInduction
<1>5. cut[width] \in Views /\ Spans(cut[width], 0, width)
  BY <1>4
<1>6. ASSUME width # 0, width - 1 \notin D PROVE cut[width][Len(cut[width])].len # 0
  <2>1. width - 1 \in Nat /\ (width - 1) + 1 = width /\ width - 1 \in good
        /\ cut[width] = TakeByte(cut[width - 1], width, D)
    BY <1>1, <1>4, <1>6
  <2> QED
    BY <1>6, <2>1, TakeByteSpans
<1> QED
  BY <1>1, <1>5, <1>6
-----------------------------------------------------------------------------
(***************************************************************************)
(* What the file means, a byte at a time.                                   *)
(***************************************************************************)
\* Where a pass of the grammar can stand.
Modes == {"start", "plain", "quoted", "closed", "closed_cr", "bad"}

Passes ==
  {s \in [records : Seq(Seq(String)), fields : Seq(String), text : String, mode : Modes] :
     /\ s.mode = "start" => s.text = <<>>
     /\ s.mode = "plain" => s.text # <<>>}

Pass(rows, fs, text, mode) ==
  [records |-> rows, fields |-> fs, text |-> text, mode |-> mode]

\* Nothing of a record has been read.
Fresh(s) == s.mode = "start" /\ s.fields = <<>>

\* The fields of the record that is being read.
Open(s) == Append(s.fields, s.text)

\* What a newline leaves of the field before it.
Kept(s) == IF crlf /\ EndsInCr(s) THEN SubSeq(s.text, 1, Len(s.text) - 1) ELSE s.text

\* The record a newline completes.
Row(s) ==
  IF ~config.has_quoting /\ s.fields = <<>> /\ Kept(s) = <<>>
  THEN <<>> ELSE Append(s.fields, Kept(s))

\* The newline that strict quoting refuses.
Refused(s) ==
  /\ crlf /\ s.mode \notin {"closed", "closed_cr"} /\ ~EndsInCr(s)
  /\ config.has_quoting /\ config.parse_mode = "strict"

\* The parts of a pass.
LEMMA PassAt ==
  ASSUME NEW s \in Passes
  PROVE  /\ s.records \in Seq(Seq(String)) /\ s.fields \in Seq(String) /\ s.text \in Seq(Char)
         /\ s.text \in String
         /\ s.mode \in Modes /\ (s.mode = "start" => s.text = <<>>)
         /\ s.mode = "plain" => s.text # <<>>
         /\ s = Pass(s.records, s.fields, s.text, s.mode)
BY DEF Passes, String, Pass

LEMMA PassOf ==
  ASSUME NEW rows \in Seq(Seq(String)), NEW fs \in Seq(String), NEW text \in String,
         NEW mode \in Modes, mode = "start" => text = <<>>, mode = "plain" => text # <<>>
  PROVE  LET s == Pass(rows, fs, text, mode)
         IN  /\ s \in Passes /\ s.records = rows /\ s.fields = fs /\ s.text = text
             /\ s.mode = mode
BY DEF Passes, Pass

\* The pass begins with nothing.
LEMMA StartPass == Start \in Passes /\ Fresh(Start) /\ Start.records = <<>>
<1>1. <<>> \in Seq(Seq(String)) /\ <<>> \in Seq(String) /\ <<>> \in String
  BY EmptySeq DEF String
<1>2. Start = Pass(<<>>, <<>>, <<>>, "start") /\ "start" \in Modes
  BY DEF Start, Pass, Modes
<1>3. Pass(<<>>, <<>>, <<>>, "start") \in Passes
  BY <1>1 DEF Passes, Pass, Modes
<1>4. Start.mode = "start" /\ Start.fields = <<>> /\ Start.records = <<>>
  BY DEF Start
<1> QED
  BY <1>2, <1>3, <1>4 DEF Fresh

\* What the operators of the grammar make of a pass.
LEMMA ModeChanged ==
  ASSUME NEW s \in Passes, NEW mode \in Modes \ {"start", "plain"}
  PROVE  LET next == [s EXCEPT !.mode = mode]
         IN  /\ next = Pass(s.records, s.fields, s.text, mode) /\ next \in Passes
             /\ next.records = s.records /\ next.fields = s.fields /\ next.text = s.text
             /\ next.mode = mode
<1>1. [s EXCEPT !.mode = mode] = Pass(s.records, s.fields, s.text, mode)
  BY DEF Passes, Pass
<1> QED
  BY <1>1, PassAt, PassOf

LEMMA ByteAdded ==
  ASSUME NEW s \in Passes, NEW c \in Char, NEW mode \in Modes \ {"start"}
  PROVE  LET next == Add(s, c, mode)
         IN  /\ next = Pass(s.records, s.fields, Append(s.text, c), mode) /\ next \in Passes
             /\ next.records = s.records /\ next.fields = s.fields
             /\ next.text = Append(s.text, c) /\ next.mode = mode
<1> DEFINE more == Append(s.text, c)
<1>1. more \in String /\ more # <<>>
  <2>1. more \in Seq(Char) /\ Len(more) = Len(s.text) + 1 /\ Len(s.text) \in Nat
    BY PassAt, AppendProperties, LenProperties
  <2> QED
    BY <2>1, EmptySeq DEF String
<1>2. Add(s, c, mode) = [s EXCEPT !.text = more, !.mode = mode]
  BY DEF Add
<1> HIDE DEF more
<1>3. Add(s, c, mode) = Pass(s.records, s.fields, more, mode)
  BY <1>2 DEF Passes, Pass
<1>4. mode \in Modes /\ (mode = "start" => more = <<>>) /\ (mode = "plain" => more # <<>>)
  BY <1>1
<1>5. s.records \in Seq(Seq(String)) /\ s.fields \in Seq(String)
  BY PassAt
<1>6. LET next == Pass(s.records, s.fields, more, mode)
      IN  /\ next \in Passes /\ next.records = s.records /\ next.fields = s.fields
          /\ next.text = more /\ next.mode = mode
  BY <1>1, <1>4, <1>5 DEF Passes, Pass
<1> QED
  BY <1>3, <1>6 DEF more

LEMMA FieldEnded ==
  ASSUME NEW s \in Passes
  PROVE  LET next == EndField(s)
         IN  /\ next = Pass(s.records, Open(s), <<>>, "start") /\ next \in Passes
             /\ next.records = s.records /\ next.fields = Open(s)
             /\ next.text = <<>> /\ next.mode = "start"
             /\ Open(s) \in Seq(String) /\ Open(s) # <<>>
<1>1. Open(s) \in Seq(String) /\ Open(s) # <<>> /\ <<>> \in String
  <2>1. Open(s) \in Seq(String) /\ Len(Open(s)) = Len(s.fields) + 1 /\ Len(s.fields) \in Nat
    BY PassAt, AppendProperties, LenProperties DEF Open
  <2> QED
    BY <2>1, EmptySeq DEF String
<1>2. EndField(s) = [s EXCEPT !.fields = Open(s), !.text = <<>>, !.mode = "start"]
  BY DEF EndField, Open
<1>3. EndField(s) = Pass(s.records, Open(s), <<>>, "start") /\ "start" \in Modes
  BY <1>2 DEF Passes, Pass, Modes
<1> QED
  BY <1>1, <1>3, PassAt, PassOf

\* What is kept are bytes.
LEMMA KeptIsString ==
  ASSUME NEW s \in Passes
  PROVE  Kept(s) \in String /\ Row(s) \in Seq(String)
<1>1. s.fields \in Seq(String) /\ s.text \in Seq(Char) /\ s.text \in String
      /\ (s.mode = "plain" => s.text # <<>>)
  BY PassAt
<1>2. Kept(s) \in String
  <2>1. CASE crlf /\ EndsInCr(s)
    <3>1. s.text # <<>>
      BY <1>1, <2>1 DEF EndsInCr
    <3>2. Len(s.text) - 1 \in Nat /\ Len(s.text) - 1 <= Len(s.text) /\ 0 + 1 = 1
      BY <1>1, <3>1, EmptySeq, LenProperties
    <3>3. SubSeq(s.text, 0 + 1, Len(s.text) - 1) \in Seq(Char)
      BY <1>1, <3>2, StretchIsSeq
    <3> QED
      BY <2>1, <3>2, <3>3 DEF Kept, String
  <2>2. CASE ~(crlf /\ EndsInCr(s))
    BY <1>1, <2>2 DEF Kept
  <2> QED
    BY <2>1, <2>2
<1> QED
  BY <1>1, <1>2, AppendProperties, EmptySeq DEF Row

\* One row more.
LEMMA RowAppended ==
  ASSUME NEW rows \in Seq(Seq(String)), NEW row \in Seq(String)
  PROVE  /\ Append(rows, row) \in Seq(Seq(String)) /\ Len(Append(rows, row)) = Len(rows) + 1
         /\ Len(rows) \in Nat
         /\ \A k \in 1 .. Len(rows) : Append(rows, row)[k] = rows[k]
         /\ rows \o << row >> = Append(rows, row)
BY AppendProperties, LenProperties, AppendIsConcat

\* A newline is no delimiter.
LEMMA NewlineByte ==
  /\ newline(config.line_ending) \in {LF, CR}
  /\ newline(config.line_ending) # delimiter
  /\ newline(config.line_ending) # quote_char
  /\ crlf => newline(config.line_ending) = LF
BY CharAssumption DEF newline, crlf

\* A newline completes the record, or is refused.
LEMMA NewlineRead ==
  ASSUME NEW s \in Passes
  PROVE  LET next == ReadNewline(config, s)
         IN  /\ Refused(s) => next = Pass(s.records, s.fields, s.text, "bad")
             /\ ~Refused(s) =>
                  /\ next = Pass(Append(s.records, Row(s)), <<>>, <<>>, "start")
                  /\ next.records = Append(s.records, Row(s)) /\ Fresh(next)
             /\ next \in Passes
<1> DEFINE kept == Kept(s)
           s2 == [s EXCEPT !.text = kept]
           next == ReadNewline(config, s)
           rows == Append(s.records, Row(s))
<1>1. /\ s.records \in Seq(Seq(String)) /\ s.fields \in Seq(String) /\ s.text \in String
      /\ Row(s) \in Seq(String)
  BY PassAt, KeptIsString
<1>2. CASE Refused(s)
  <2>1. next = Reject(s)
    BY <1>2 DEF ReadNewline, Refused, crlf
  <2>2. "bad" \in Modes \ {"start", "plain"}
    BY DEF Modes
  <2> QED
    BY <1>2, <2>1, <2>2, ModeChanged DEF Reject
<1>3. CASE ~Refused(s)
  <2>1. s2.records = s.records /\ s2.fields = s.fields /\ s2.text = kept
    BY DEF Passes
  <2>2. kept = s.text => s2 = s
    BY DEF Passes
  <2>3. next = EndRecord(config, s2)
    <3>1. CASE crlf /\ EndsInCr(s)
      <4>1. s2 = [s EXCEPT !.text = SubSeq(@, 1, Len(@) - 1)]
        BY <3>1 DEF Kept
      <4>2. next = EndRecord(config, [s EXCEPT !.text = SubSeq(@, 1, Len(@) - 1)])
        BY <3>1 DEF ReadNewline, EndsInCr, crlf
      <4> QED
        BY <4>1, <4>2
    <3>2. CASE ~(crlf /\ EndsInCr(s))
      <4>1. s2 = s
        BY <2>2, <3>2 DEF Kept
      <4>2. next = EndRecord(config, s)
        BY <1>3, <3>2 DEF ReadNewline, Refused, crlf
      <4> QED
        BY <4>1, <4>2
    <3> QED
      BY <3>1, <3>2
  <2> HIDE DEF s2, next, kept
  <2>4. EndField(s2).fields = Append(s.fields, kept)
    BY <2>1 DEF EndField
  <2>5. EndRecord(config, s2) = [Start EXCEPT !.records = rows]
    BY <2>1, <2>4 DEF EndRecord, Row, kept
  <2>6. rows \in Seq(Seq(String))
    BY <1>1, RowAppended
  <2> HIDE DEF rows
  <2>7. [Start EXCEPT !.records = rows] = Pass(rows, <<>>, <<>>, "start")
    BY DEF Start, Pass
  <2>8. <<>> \in Seq(String) /\ <<>> \in String /\ "start" \in Modes
    BY EmptySeq DEF String, Modes
  <2>9. next = Pass(rows, <<>>, <<>>, "start")
    BY <2>3, <2>5, <2>7
  <2>10. Pass(rows, <<>>, <<>>, "start") \in Passes
    BY <2>6, <2>8 DEF Passes, Pass
  <2>11. next.records = rows /\ Fresh(next)
    BY <2>9 DEF Fresh, Pass
  <2> QED
    BY <1>3, <2>9, <2>10, <2>11 DEF next, rows
<1> QED
  BY <1>2, <1>3

\* What a byte may do to a pass, whatever the configuration.
ReadsOn(s, c, next) ==
  LET nl == newline(config.line_ending)
  IN  /\ next.records = s.records
         \/ (Fresh(next) /\ next.records = Append(s.records, Row(s)))
      /\ s.mode = "bad" => next = s
      /\ next.mode = "start" => c \in {delimiter, nl}
      /\ next.mode = "plain" => c \notin {delimiter, nl} /\ next.text = Append(s.text, c)

\* One byte of the pass.
LEMMA ByteRead ==
  ASSUME NEW s \in Passes, NEW c \in Char
  PROVE  ReadByte(config, s, c) \in Passes /\ ReadsOn(s, c, ReadByte(config, s, c))
<1> DEFINE nl == newline(config.line_ending)
           next == ReadByte(config, s, c)
<1>1. s.mode \in Modes /\ nl # delimiter
  BY PassAt, NewlineByte
<1>2. CASE s.mode = "bad"
  BY <1>2 DEF ReadByte, ReadsOn
<1>3. ASSUME NEW mode \in Modes \ {"start", "plain"}, next = [s EXCEPT !.mode = mode],
             s.mode # "bad"
      PROVE  next \in Passes /\ ReadsOn(s, c, next)
  <2> HIDE DEF next
  <2>1. /\ [s EXCEPT !.mode = mode] \in Passes /\ [s EXCEPT !.mode = mode].mode = mode
        /\ [s EXCEPT !.mode = mode].records = s.records
    BY ModeChanged
  <2> QED
    BY <1>3, <2>1 DEF ReadsOn
<1>4. ASSUME NEW mode \in Modes \ {"start"}, next = Add(s, c, mode), s.mode # "bad",
             c # nl, c # delimiter \/ mode # "plain"
      PROVE  next \in Passes /\ ReadsOn(s, c, next)
  <2> HIDE DEF next
  <2>1. /\ Add(s, c, mode) \in Passes /\ Add(s, c, mode).mode = mode
        /\ Add(s, c, mode).text = Append(s.text, c) /\ Add(s, c, mode).records = s.records
    BY ByteAdded
  <2> QED
    BY <1>4, <2>1 DEF ReadsOn
<1>5. CASE s.mode = "closed_cr" /\ c # nl
  <2>1. next = [s EXCEPT !.mode = "bad"]
    BY <1>5 DEF ReadByte, Reject
  <2> QED
    BY <1>3, <1>5, <2>1 DEF Modes
<1>6. CASE s.mode \notin {"bad", "quoted"} /\ c = nl
  <2>1. next = ReadNewline(config, s)
    BY <1>6 DEF ReadByte
  <2> HIDE DEF next
  <2>2. next \in Passes
    BY <2>1, NewlineRead
  <2>3. CASE Refused(s)
    <3>1. next = Pass(s.records, s.fields, s.text, "bad")
      BY <2>1, <2>3, NewlineRead
    <3> QED
      BY <1>6, <2>2, <3>1 DEF ReadsOn, Pass, next
  <2>4. CASE ~Refused(s)
    <3>1. /\ next = Pass(Append(s.records, Row(s)), <<>>, <<>>, "start")
          /\ next.records = Append(s.records, Row(s)) /\ Fresh(next)
      BY <2>1, <2>4, NewlineRead
    <3> QED
      BY <1>6, <2>2, <3>1 DEF ReadsOn, Fresh, next
  <2> QED
    BY <2>3, <2>4 DEF next
<1>7. CASE s.mode \notin {"bad", "quoted", "closed_cr"} /\ c = delimiter
  <2>1. next = EndField(s)
    BY <1>1, <1>7 DEF ReadByte
  <2> HIDE DEF next
  <2>2. next \in Passes /\ next.mode = "start" /\ next.records = s.records
    BY <2>1, FieldEnded
  <2> QED
    BY <1>7, <2>2 DEF ReadsOn, next
<1>8. CASE s.mode = "quoted"
  <2>1. next = [s EXCEPT !.mode = "closed"] \/ next = Add(s, c, "quoted")
    BY <1>8 DEF ReadByte, ReadQuote, ReadData
  <2>2. ASSUME next = Add(s, c, "quoted") PROVE next \in Passes /\ ReadsOn(s, c, next)
    <3> HIDE DEF next
    <3>1. /\ Add(s, c, "quoted") \in Passes /\ Add(s, c, "quoted").mode = "quoted"
          /\ Add(s, c, "quoted").records = s.records
      BY ByteAdded DEF Modes
    <3> QED
      BY <1>8, <2>2, <3>1 DEF ReadsOn
  <2> QED
    BY <1>3, <1>8, <2>1, <2>2 DEF Modes
<1>9. CASE s.mode \notin {"bad", "quoted", "closed_cr"} /\ c # nl /\ c # delimiter
  <2>1. CASE c = quote_char /\ config.has_quoting
    <3>1. next = ReadQuote(config, s)
      BY <1>9, <2>1 DEF ReadByte
    <3>2. \/ next = [s EXCEPT !.mode = "quoted"] \/ next = [s EXCEPT !.mode = "bad"]
          \/ next = Add(s, c, "quoted") \/ next = Add(s, c, "plain")
      BY <1>1, <1>9, <2>1, <3>1 DEF ReadQuote, Reject, Modes
    <3> QED
      BY <1>3, <1>4, <1>9, <3>2 DEF Modes
  <2>2. CASE ~(c = quote_char /\ config.has_quoting)
    <3>1. next = ReadData(config, s, c)
      BY <1>9, <2>2 DEF ReadByte
    <3>2. \/ next = [s EXCEPT !.mode = "closed_cr"] \/ next = [s EXCEPT !.mode = "bad"]
          \/ next = Add(s, c, "plain")
      BY <1>1, <1>9, <3>1 DEF ReadData, Reject, Modes
    <3> QED
      BY <1>3, <1>4, <1>9, <3>2 DEF Modes
  <2> QED
    BY <2>1, <2>2
<1> QED
  BY <1>2, <1>5, <1>6, <1>7, <1>8, <1>9

\* The pass over f byte by byte.
PassOver(pass, f) ==
  /\ pass \in [0 .. Len(f) -> Passes]
  /\ pass[0] = Start
  /\ \A i \in 1 .. Len(f) : pass[i] = ReadByte(config, pass[i - 1], f[i])

\* The pass is what ReadByte makes of the bytes, one after the other.
LEMMA ReadingSteps ==
  ASSUME NEW f \in String
  PROVE  \E pass : PassOver(pass, f) /\ Reading(config, f) = pass[Len(f)]
<1> DEFINE n == Len(f)
           step == [i \in 1 .. n |-> [s \in Passes |-> ReadByte(config, s, f[i])]]
           upto[i \in 0 .. n] == IF i = 0 THEN Start ELSE ReadByte(config, upto[i - 1], f[i])
<1>1. Reading(config, f) = upto[n]
  BY DEF Reading
<1>2. Start \in Passes /\ n \in Nat
  BY StartPass, LenProperties DEF String
<1>3. \A i \in 1 .. n : f[i] \in Char
  BY ElementOfSeq DEF String
<1> HIDE DEF n, upto
<1>4. step \in Steps(Passes, n)
  <2>1. ASSUME NEW i \in 1 .. n, NEW s \in Passes PROVE ReadByte(config, s, f[i]) \in Passes
    BY <1>3, ByteRead
  <2> QED
    BY <2>1 DEF Steps
<1>5. PICK g \in [0 .. n -> Passes] : Iterates(g, Start, step, n)
  <2> HIDE DEF step
  <2> QED
    BY <1>2, <1>4, Recursion
<1>6. ASSUME NEW i \in 1 .. n PROVE g[i] = ReadByte(config, g[i - 1], f[i])
  <2>1. g[i - 1] \in Passes
    BY <1>2
  <2> QED
    BY <1>5, <2>1 DEF Iterates
<1>7. g = [i \in 0 .. n |-> IF i = 0 THEN Start ELSE ReadByte(config, g[i - 1], f[i])]
  BY <1>5, <1>6 DEF Iterates
<1>8. upto = [i \in 0 .. n |-> IF i = 0 THEN Start ELSE ReadByte(config, upto[i - 1], f[i])]
  BY <1>7, Zenon DEF upto
<1>9. upto[0] = Start
      /\ \A i \in 1 .. n : upto[i] = ReadByte(config, upto[i - 1], f[i])
  BY <1>2, <1>8
<1> DEFINE good == {i \in 0 .. n : upto[i] \in Passes}
<1>10. 0 .. n \subseteq good
  <2>1. 0 \in good
    BY <1>2, <1>9
  <2>2. ASSUME NEW i \in 1 .. n, i - 1 \in good PROVE i \in good
    BY <1>3, <1>9, <2>2, ByteRead
  <2> HIDE DEF good
  <2> QED
    BY <1>2, <2>1, <2>2, IndexInduction
<1>11. upto \in [0 .. n -> Passes]
  BY <1>8, <1>10
<1>12. PassOver(upto, f)
  BY <1>9, <1>11 DEF PassOver, n
<1> QED
  BY <1>1, <1>12 DEF n

\* A pass goes on with the byte behind it.
LEMMA ReadingGrows ==
  ASSUME NEW f \in String, NEW c \in Char
  PROVE  /\ Reading(config, f) \in Passes
         /\ Reading(config, Append(f, c)) = ReadByte(config, Reading(config, f), c)
<1> DEFINE more == Append(f, c)
           n == Len(f)
<1>1. /\ more \in String /\ n \in Nat /\ Len(more) = n + 1
      /\ \A i \in 1 .. n : more[i] = f[i]
      /\ more[n + 1] = c
  BY AppendProperties, LenProperties DEF String
<1>2. PICK g : PassOver(g, f) /\ Reading(config, f) = g[n]
  BY ReadingSteps
<1>3. PICK h : PassOver(h, more) /\ Reading(config, more) = h[n + 1]
  <2> HIDE DEF more, n
  <2> QED
    BY <1>1, ReadingSteps
<1> HIDE DEF more
<1> DEFINE same == {i \in 0 .. n : g[i] = h[i]}
<1>4. /\ g[0] = h[0]
      /\ \A i \in 1 .. n : g[i] = ReadByte(config, g[i - 1], f[i])
      /\ \A i \in 1 .. n + 1 : h[i] = ReadByte(config, h[i - 1], more[i])
  BY <1>1, <1>2, <1>3 DEF PassOver
<1>5. 0 .. n \subseteq same
  <2>1. 0 \in same
    BY <1>1, <1>4
  <2>2. ASSUME NEW i \in 1 .. n, i - 1 \in same PROVE i \in same
    <3>1. i \in 1 .. n + 1 /\ more[i] = f[i]
      BY <1>1
    <3> QED
      BY <1>4, <2>2, <3>1
  <2> HIDE DEF same, n
  <2> QED
    BY <1>1, <2>1, <2>2, IndexInduction
<1>6. n \in 0 .. n /\ n + 1 \in 1 .. n + 1 /\ (n + 1) - 1 = n
  BY <1>1
<1>7. g[n] = h[n] /\ h[n + 1] = ReadByte(config, h[n], c)
  BY <1>1, <1>4, <1>5, <1>6
<1>8. g[n] \in Passes
  BY <1>2, <1>6 DEF PassOver
<1> QED
  BY <1>2, <1>3, <1>7, <1>8 DEF more

\* The pass over the first i bytes of the file.
At(i) == Reading(config, SubSeq(file, 1, i))

\* Byte by byte through the file.
LEMMA AtBytes ==
  ASSUME file \in String
  PROVE  /\ At(0) = Start
         /\ \A i \in 0 .. Len(file) : At(i) \in Passes
         /\ \A i \in 1 .. Len(file) : At(i) = ReadByte(config, At(i - 1), file[i])
         /\ At(Len(file)) = Reading(config, file)
<1>1. file \in Seq(Char) /\ Len(file) \in Nat /\ \A i \in 1 .. Len(file) : file[i] \in Char
  BY LenProperties, ElementOfSeq DEF String
<1>2. At(0) = Start
  <2>1. SubSeq(file, 1, 0) = <<>> /\ <<>> \in String /\ Len(<<>>) = 0
    BY <1>1, SubSeqEmpty, EmptySeq DEF String
  <2>2. PICK pass : PassOver(pass, <<>>) /\ Reading(config, <<>>) = pass[0]
    BY <2>1, ReadingSteps
  <2> QED
    BY <2>1, <2>2 DEF At, PassOver
<1>3. ASSUME NEW i \in 1 .. Len(file)
      PROVE  At(i - 1) \in Passes /\ At(i) = ReadByte(config, At(i - 1), file[i])
  <2> DEFINE f == SubSeq(file, 1, i - 1)
  <2>1. i - 1 \in Nat /\ i - 1 < Len(file) /\ 0 <= i - 1 /\ (i - 1) + 1 = i /\ 0 + 1 = 1
    BY <1>1
  <2>2. SubSeq(file, 0 + 1, i - 1) \in Seq(Char)
    BY <1>1, <2>1, StretchIsSeq
  <2>3. SubSeq(file, 0 + 1, (i - 1) + 1) = Append(SubSeq(file, 0 + 1, i - 1), file[(i - 1) + 1])
    BY <1>1, <2>1, StretchGrows
  <2>4. f \in String /\ SubSeq(file, 1, i) = Append(f, file[i])
    BY <2>1, <2>2, <2>3 DEF String
  <2> HIDE DEF f
  <2>5. file[i] \in Char
    BY <1>1
  <2>6. /\ Reading(config, f) \in Passes
        /\ Reading(config, Append(f, file[i])) = ReadByte(config, Reading(config, f), file[i])
    BY <2>4, <2>5, ReadingGrows
  <2> QED
    BY <2>4, <2>6 DEF At, f
<1>4. ASSUME NEW i \in 0 .. Len(file) PROVE At(i) \in Passes
  <2>1. CASE i = 0
    BY <1>2, <2>1, StartPass
  <2>2. CASE i # 0
    <3>1. i \in 1 .. Len(file) /\ file[i] \in Char
      BY <1>1, <2>2
    <3> QED
      BY <1>3, <3>1, ByteRead
  <2> QED
    BY <2>1, <2>2
<1>5. At(Len(file)) = Reading(config, file)
  <2>1. SubSeq(file, 1, Len(file)) = file
    BY <1>1, SubSeqFull
  <2> QED
    BY <2>1 DEF At
<1> QED
  BY <1>2, <1>3, <1>4, <1>5

\* What the next byte does to the pass.
LEMMA AtStep ==
  ASSUME file \in String, NEW i \in Nat, i < Len(file)
  PROVE  /\ i + 1 \in 1 .. Len(file) /\ file[i + 1] \in Char
         /\ At(i) \in Passes /\ At(i + 1) \in Passes
         /\ At(i + 1) = ReadByte(config, At(i), file[i + 1])
         /\ ReadsOn(At(i), file[i + 1], At(i + 1))
<1>1. Len(file) \in Nat /\ \A j \in 1 .. Len(file) : file[j] \in Char
  BY LenProperties, ElementOfSeq DEF String
<1>2. i + 1 \in 1 .. Len(file) /\ i \in 0 .. Len(file) /\ i + 1 \in 0 .. Len(file)
      /\ (i + 1) - 1 = i
  BY <1>1
<1>3. At(i + 1) = ReadByte(config, At((i + 1) - 1), file[i + 1])
  BY <1>2, AtBytes
<1>4. At(i) \in Passes /\ At(i + 1) \in Passes
  BY <1>2, AtBytes
<1> QED
  BY <1>1, <1>2, <1>3, <1>4, ByteRead

\* The first of the rows are these.
Prefix(some, rows) ==
  Len(some) <= Len(rows) /\ \A k \in 1 .. Len(some) : some[k] = rows[k]

\* The record a file may end in: behind a closing quote a '\r' is only dropped
\* with the newline that follows it.
Left(s) == IF s.mode = "closed_cr" THEN Append(s.fields, Append(s.text, CR)) ELSE Open(s)

LEMMA LeftIsRow ==
  ASSUME NEW s \in Passes
  PROVE  Left(s) \in Seq(String) /\ Left(s) # <<>>
<1>1. Open(s) \in Seq(String) /\ Open(s) # <<>>
  BY FieldEnded
<1>2. CASE s.mode = "closed_cr"
  <2> DEFINE s2 == Add(s, CR, "plain")
  <2>1. CR \in Char /\ "plain" \in Modes \ {"start"}
    BY DEF Char, Modes
  <2>2. s2 \in Passes /\ s2.fields = s.fields /\ s2.text = Append(s.text, CR)
    BY <2>1, ByteAdded
  <2> HIDE DEF s2
  <2>3. Open(s2) \in Seq(String) /\ Open(s2) # <<>>
    BY <2>2, FieldEnded
  <2> QED
    BY <1>2, <2>2, <2>3 DEF Left, Open
<1> QED
  BY <1>1, <1>2 DEF Left

\* The records of the file, told by the pass over all of it.
LEMMA RecordsAtEnd ==
  ASSUME file \in String
  PROVE  LET s == At(Len(file))
         IN  /\ Rejected(config, file) <=> s.mode = "bad"
             /\ s \in Passes
             /\ AllRecords(config, file) =
                  IF s.mode = "bad" \/ Fresh(s) THEN s.records ELSE Append(s.records, Left(s))
<1> DEFINE s == At(Len(file))
<1>1. Len(file) \in 0 .. Len(file)
  BY LenProperties DEF String
<1>2. s = Reading(config, file) /\ s \in Passes
  BY <1>1, AtBytes
<1> HIDE DEF s
<1>3. s.records \in Seq(Seq(String))
  BY <1>2, PassAt
<1>4. LastRecord(config, file) = IF s.mode = "bad" \/ Fresh(s) THEN <<>> ELSE << Left(s) >>
  <2>1. EndField(s).fields = Append(s.fields, s.text)
        /\ EndField(Add(s, CR, "plain")).fields = Append(s.fields, Append(s.text, CR))
    BY <1>2 DEF EndField, Add, Passes
  <2> QED
    BY <1>2, <2>1 DEF LastRecord, Left, Open, Fresh
<1>5. Left(s) \in Seq(String)
  BY <1>2, LeftIsRow
<1>6. s.records \o << Left(s) >> = Append(s.records, Left(s)) /\ s.records \o <<>> = s.records
  BY <1>3, <1>5, RowAppended, ConcatEmptySeq
<1>7. AllRecords(config, file) = s.records \o LastRecord(config, file)
  BY <1>2 DEF AllRecords, Records
<1> QED
  BY <1>2, <1>4, <1>6, <1>7 DEF s, Rejected

\* From byte i to the end: the records read so far are the first of those at the
\* end, and what has been rejected stays so.
LEMMA PassGoesOn ==
  ASSUME file \in String, NEW i \in 0 .. Len(file)
  PROVE  /\ Prefix(At(i).records, At(Len(file)).records)
         /\ At(i).mode = "bad" => At(Len(file)).mode = "bad"
<1> DEFINE n == Len(file)
           left == n - i
           Good(k) == /\ Prefix(At(i).records, At(i + k).records)
                      /\ At(i).mode = "bad" => At(i + k).mode = "bad"
           T == {k \in 0 .. left : Good(k)}
<1>1. n \in Nat /\ left \in Nat
  BY LenProperties DEF String
<1>2. \A k \in 0 .. n : At(k).records \in Seq(Seq(String)) /\ At(k) \in Passes
  BY AtBytes, PassAt
<1>3. 0 \in T
  BY <1>1, i + 0 = i DEF Prefix
<1>4. ASSUME NEW k \in 1 .. left, k - 1 \in T PROVE k \in T
  <2> DEFINE j == i + (k - 1)
             row == Row(At(j))
  <2>1. j \in Nat /\ j < n /\ j + 1 = i + k /\ j \in 0 .. n /\ i + k \in 0 .. n
    BY <1>1
  <2>2. ReadsOn(At(j), file[j + 1], At(j + 1))
    <3> HIDE DEF j
    <3> QED
      BY <2>1, AtStep
  <2>3. /\ At(j + 1).records = At(j).records \/ At(j + 1).records = Append(At(j).records, row)
        /\ At(j).mode = "bad" => At(j + 1).mode = "bad"
    BY <2>2 DEF ReadsOn
  <2> HIDE DEF j
  <2>4. Prefix(At(j).records, At(j + 1).records)
    <3>1. CASE At(j + 1).records = At(j).records
      BY <1>2, <2>1, <3>1, LenProperties DEF Prefix
    <3>2. CASE At(j + 1).records = Append(At(j).records, row)
      <4>1. At(j).records \in Seq(Seq(String)) /\ row \in Seq(String)
        BY <1>2, <2>1, KeptIsString
      <4> HIDE DEF row
      <4>2. Len(At(j).records) \in Nat /\ Len(At(j + 1).records) = Len(At(j).records) + 1
            /\ \A m \in 1 .. Len(At(j).records) : At(j + 1).records[m] = At(j).records[m]
        BY <3>2, <4>1, RowAppended
      <4> QED
        BY <4>2 DEF Prefix
    <3> QED
      BY <2>3, <3>1, <3>2
  <2>5. Good(k - 1)
    BY <1>4
  <2>6. Prefix(At(i).records, At(j).records) /\ (At(i).mode = "bad" => At(j).mode = "bad")
    BY <2>5 DEF j
  <2>7. Len(At(i).records) \in Nat /\ Len(At(j).records) \in Nat /\ Len(At(j + 1).records) \in Nat
    BY <1>2, <2>1, LenProperties
  <2>8. Prefix(At(i).records, At(j + 1).records)
    BY <2>4, <2>6, <2>7 DEF Prefix
  <2> QED
    BY <2>1, <2>3, <2>6, <2>8
<1> HIDE DEF Good
<1>5. left \in T /\ i + left = n
  <2>1. i + left = n
    BY <1>1
  <2> HIDE DEF T, left
  <2>2. 0 .. left \subseteq T
    BY <1>1, <1>3, <1>4, IndexInduction
  <2> QED
    BY <1>1, <2>1, <2>2
<1>6. Good(left)
  <2> HIDE DEF left
  <2> QED
    BY <1>5
<1> QED
  BY <1>5, <1>6 DEF Good

\* The records read so far are the first of those of the file.
LEMMA RecordsGrow ==
  ASSUME file \in String, NEW i \in 0 .. Len(file)
  PROVE  Prefix(At(i).records, AllRecords(config, file))
<1> DEFINE s == At(Len(file))
<1>1. Prefix(At(i).records, s.records)
  BY PassGoesOn
<1>2. /\ s \in Passes
      /\ AllRecords(config, file) =
           IF s.mode = "bad" \/ Fresh(s) THEN s.records ELSE Append(s.records, Left(s))
  BY RecordsAtEnd
<1>3. At(i).records \in Seq(Seq(String))
  BY AtBytes, PassAt
<1> HIDE DEF s
<1>4. s.records \in Seq(Seq(String)) /\ Left(s) \in Seq(String)
  BY <1>2, PassAt, LeftIsRow
<1>5. /\ Len(At(i).records) \in Nat /\ Len(s.records) \in Nat
      /\ Len(Append(s.records, Left(s))) = Len(s.records) + 1
      /\ \A k \in 1 .. Len(s.records) : Append(s.records, Left(s))[k] = s.records[k]
  BY <1>3, <1>4, RowAppended, LenProperties
<1>6. Prefix(At(i).records, Append(s.records, Left(s)))
  BY <1>1, <1>5 DEF Prefix
<1> QED
  BY <1>1, <1>2, <1>6

\* A file is rejected where its pass is.
LEMMA RejectedFrom ==
  ASSUME file \in String, NEW i \in 0 .. Len(file), At(i).mode = "bad"
  PROVE  Rejected(config, file)
BY PassGoesOn, RecordsAtEnd

\* The records of a file are records.
LEMMA RecordsAreRows ==
  ASSUME file \in String
  PROVE  AllRecords(config, file) \in Seq(Seq(String))
<1> DEFINE s == At(Len(file))
<1>1. /\ s \in Passes
      /\ AllRecords(config, file) =
           IF s.mode = "bad" \/ Fresh(s) THEN s.records ELSE Append(s.records, Left(s))
  BY RecordsAtEnd
<1> HIDE DEF s
<1>2. s.records \in Seq(Seq(String)) /\ Left(s) \in Seq(String)
  BY <1>1, PassAt, LeftIsRow
<1> QED
  BY <1>1, <1>2, RowAppended

-----------------------------------------------------------------------------
(***************************************************************************)
(* What a byte means where there is quoting.                                *)
(***************************************************************************)
\* The byte c takes the pass s here, whatever the mode of the parser.
LEMMA QuotingByte ==
  ASSUME config.has_quoting, NEW s \in Passes, NEW c \in Char
  PROVE  LET next == ReadByte(config, s, c)
             nl == newline(config.line_ending)
         IN  /\ s.mode = "quoted" /\ c # quote_char =>
                  next = Pass(s.records, s.fields, Append(s.text, c), "quoted")
             /\ s.mode = "quoted" /\ c = quote_char =>
                  next = Pass(s.records, s.fields, s.text, "closed")
             /\ s.mode = "closed" /\ c = quote_char =>
                  next = Pass(s.records, s.fields, Append(s.text, c), "quoted")
             /\ s.mode = "start" /\ c = quote_char =>
                  next = Pass(s.records, s.fields, s.text, "quoted")
             /\ s.mode \in {"start", "plain", "closed"} /\ c = delimiter =>
                  next = Pass(s.records, Open(s), <<>>, "start")
             /\ s.mode \in {"start", "plain"} /\ c \notin {nl, delimiter, quote_char} =>
                  next = Pass(s.records, s.fields, Append(s.text, c), "plain")
             /\ s.mode \in {"start", "plain", "closed", "closed_cr"} /\ c = nl =>
                  IF Refused(s) THEN next.mode = "bad"
                  ELSE next = Pass(Append(s.records, Row(s)), <<>>, <<>>, "start")
<1> DEFINE next == ReadByte(config, s, c)
           nl == newline(config.line_ending)
<1>1. nl # delimiter /\ nl # quote_char /\ delimiter # quote_char
  BY NewlineByte, CharAssumption
<1>2. ASSUME NEW mode \in {"quoted", "closed"}, next = [s EXCEPT !.mode = mode]
      PROVE  next = Pass(s.records, s.fields, s.text, mode)
  <2>1. mode \in Modes \ {"start", "plain"}
    BY DEF Modes
  <2> HIDE DEF next
  <2> QED
    BY <1>2, <2>1, ModeChanged
<1>3. ASSUME NEW mode \in {"quoted", "plain"}, next = Add(s, c, mode)
      PROVE  next = Pass(s.records, s.fields, Append(s.text, c), mode)
  <2>1. mode \in Modes \ {"start"}
    BY DEF Modes
  <2> HIDE DEF next
  <2> QED
    BY <1>3, <2>1, ByteAdded
<1>4. CASE s.mode = "quoted"
  <2>1. /\ c # quote_char => next = Add(s, c, "quoted")
        /\ c = quote_char => next = [s EXCEPT !.mode = "closed"]
    BY <1>4 DEF ReadByte, ReadQuote, ReadData
  <2> QED
    BY <1>2, <1>3, <1>4, <2>1
<1>5. CASE s.mode \in {"start", "plain", "closed", "closed_cr"} /\ c = nl
  <2>1. next = ReadNewline(config, s)
    BY <1>5 DEF ReadByte
  <2>2. IF Refused(s) THEN next.mode = "bad"
        ELSE next = Pass(Append(s.records, Row(s)), <<>>, <<>>, "start")
    <3> HIDE DEF next
    <3> QED
      BY <2>1, NewlineRead DEF Pass
  <2> QED
    BY <1>1, <1>5, <2>2
<1>6. CASE s.mode \in {"start", "plain", "closed"} /\ c = delimiter
  <2>1. next = EndField(s)
    BY <1>1, <1>6 DEF ReadByte
  <2>2. next = Pass(s.records, Open(s), <<>>, "start")
    <3> HIDE DEF next
    <3> QED
      BY <2>1, FieldEnded
  <2> QED
    BY <1>1, <1>6, <2>2
<1>7. CASE s.mode \in {"start", "plain", "closed"} /\ c = quote_char
  <2>1. next = ReadQuote(config, s)
    BY <1>1, <1>7 DEF ReadByte
  <2>2. /\ s.mode = "start" => next = [s EXCEPT !.mode = "quoted"]
        /\ s.mode = "closed" => next = Add(s, c, "quoted")
    BY <1>7, <2>1 DEF ReadQuote
  <2> QED
    BY <1>1, <1>2, <1>3, <1>7, <2>2
<1>8. CASE s.mode \in {"start", "plain"} /\ c \notin {nl, delimiter, quote_char}
  <2>1. next = Add(s, c, "plain")
    BY <1>8 DEF ReadByte, ReadData
  <2> QED
    BY <1>3, <1>8, <2>1
<1> QED
  BY <1>4, <1>5, <1>6, <1>7, <1>8

\* What strict mode rejects, and the '\r' it waits for behind a closing quote.
LEMMA StrictByte ==
  ASSUME config.has_quoting, config.parse_mode = "strict", NEW s \in Passes, NEW c \in Char
  PROVE  LET next == ReadByte(config, s, c)
             nl == newline(config.line_ending)
         IN  /\ s.mode = "plain" /\ c = quote_char => next.mode = "bad"
             /\ s.mode = "closed" /\ c \notin {nl, delimiter, quote_char} =>
                  IF crlf /\ c = CR
                  THEN next = Pass(s.records, s.fields, s.text, "closed_cr")
                  ELSE next.mode = "bad"
             /\ s.mode = "closed_cr" /\ c # nl => next.mode = "bad"
<1> DEFINE next == ReadByte(config, s, c)
           nl == newline(config.line_ending)
<1>1. nl # quote_char /\ delimiter # quote_char
  BY NewlineByte, CharAssumption
<1>2. Reject(s).mode = "bad"
  BY DEF Reject, Passes
<1>3. CASE s.mode = "plain" /\ c = quote_char
  <2>1. next = Reject(s)
    BY <1>1, <1>3 DEF ReadByte, ReadQuote
  <2> HIDE DEF next
  <2> QED
    BY <1>2, <1>3, <2>1 DEF next
<1>4. CASE s.mode = "closed" /\ c \notin {nl, delimiter, quote_char}
  <2>1. next = IF crlf /\ c = CR THEN [s EXCEPT !.mode = "closed_cr"] ELSE Reject(s)
    BY <1>4 DEF ReadByte, ReadData, crlf
  <2>2. crlf /\ c = CR => next = Pass(s.records, s.fields, s.text, "closed_cr")
    <3>1. "closed_cr" \in Modes \ {"start", "plain"}
      BY DEF Modes
    <3> HIDE DEF next
    <3> QED
      BY <2>1, <3>1, ModeChanged
  <2> HIDE DEF next
  <2> QED
    BY <1>2, <1>4, <2>1, <2>2 DEF next
<1>5. CASE s.mode = "closed_cr" /\ c # nl
  <2>1. next = Reject(s)
    BY <1>5 DEF ReadByte
  <2> HIDE DEF next
  <2> QED
    BY <1>2, <1>5, <2>1 DEF next
<1> QED
  BY <1>3, <1>4, <1>5

\* What lenient mode takes for data.
LEMMA LenientByte ==
  ASSUME config.has_quoting, config.parse_mode = "lenient", NEW s \in Passes, NEW c \in Char
  PROVE  LET next == ReadByte(config, s, c)
             nl == newline(config.line_ending)
         IN  /\ s.mode = "closed" /\ c \notin {nl, delimiter, quote_char} =>
                  next = Pass(s.records, s.fields, Append(s.text, c), "plain")
             /\ s.mode = "plain" /\ c = quote_char =>
                  next = Pass(s.records, s.fields, Append(s.text, c), "plain")
<1> DEFINE next == ReadByte(config, s, c)
           nl == newline(config.line_ending)
<1>1. nl # quote_char /\ delimiter # quote_char
  BY NewlineByte, CharAssumption
<1>2. ASSUME next = Add(s, c, "plain")
      PROVE  next = Pass(s.records, s.fields, Append(s.text, c), "plain")
  <2>1. "plain" \in Modes \ {"start"}
    BY DEF Modes
  <2> HIDE DEF next
  <2> QED
    BY <1>2, <2>1, ByteAdded
<1>3. CASE s.mode = "closed" /\ c \notin {nl, delimiter, quote_char}
  <2>1. next = Add(s, c, "plain")
    BY <1>3 DEF ReadByte, ReadData
  <2> QED
    BY <1>2, <1>3, <2>1
<1>4. CASE s.mode = "plain" /\ c = quote_char
  <2>1. next = Add(s, c, "plain")
    BY <1>1, <1>4 DEF ReadByte, ReadQuote
  <2> QED
    BY <1>2, <1>4, <2>1
<1> QED
  BY <1>3, <1>4

\* Where a pass in lenient mode can stand, which rejects nothing.
LenientModes == {"start", "plain", "quoted", "closed"}

LEMMA LenientRead ==
  ASSUME config.has_quoting, config.parse_mode = "lenient", NEW s \in Passes, NEW c \in Char,
         s.mode \in LenientModes
  PROVE  LET next == ReadByte(config, s, c)
         IN  next.mode \in LenientModes /\ (next.mode = "closed" => c = quote_char)
<1> DEFINE next == ReadByte(config, s, c)
           nl == newline(config.line_ending)
<1>1. ASSUME NEW rows, NEW fs, NEW text, NEW mode, next = Pass(rows, fs, text, mode)
      PROVE  next.mode = mode
  <2> HIDE DEF next
  <2> QED
    BY <1>1 DEF Pass
<1>2. ~Refused(s)
  BY DEF Refused
<1>3. CASE s.mode = "quoted"
  <2>1. next.mode = IF c = quote_char THEN "closed" ELSE "quoted"
    BY <1>1, <1>3, QuotingByte
  <2> QED
    BY <2>1 DEF LenientModes
<1>4. CASE s.mode # "quoted" /\ c \in {nl, delimiter}
  <2>1. next.mode = "start"
    BY <1>1, <1>2, <1>4, QuotingByte DEF LenientModes
  <2> QED
    BY <2>1 DEF LenientModes
<1>5. CASE s.mode # "quoted" /\ c = quote_char /\ c \notin {nl, delimiter}
  <2>1. next.mode \in {"quoted", "plain"}
    BY <1>1, <1>5, QuotingByte, LenientByte DEF LenientModes
  <2> QED
    BY <2>1 DEF LenientModes
<1>6. CASE s.mode # "quoted" /\ c \notin {nl, delimiter, quote_char}
  <2>1. next.mode = "plain"
    BY <1>1, <1>6, QuotingByte, LenientByte DEF LenientModes
  <2> QED
    BY <2>1 DEF LenientModes
<1> QED
  BY <1>3, <1>4, <1>5, <1>6

\* Behind a closing quote it stands nowhere but behind a quote.
LEMMA LenientAt ==
  ASSUME config.has_quoting, config.parse_mode = "lenient", file \in String,
         NEW i \in Nat, i <= Len(file)
  PROVE  /\ At(i).mode \in LenientModes
         /\ At(i).mode = "closed" => i # 0 /\ file[i] = quote_char
<1> DEFINE n == Len(file)
           good == {k \in 0 .. n : /\ At(k) \in Passes /\ At(k).mode \in LenientModes
                                   /\ At(k).mode = "closed" => k # 0 /\ file[k] = quote_char}
<1>1. n \in Nat
  BY LenProperties DEF String
<1>2. 0 \in good
  BY <1>1, AtBytes, StartPass DEF LenientModes, Start
<1>3. ASSUME NEW k \in 1 .. n, k - 1 \in good PROVE k \in good
  <2>1. /\ file[k] \in Char /\ At(k) = ReadByte(config, At(k - 1), file[k])
        /\ At(k) \in Passes /\ k # 0 /\ k \in 0 .. n
    BY <1>1, AtBytes, ElementOfSeq DEF String
  <2>2. At(k - 1) \in Passes /\ At(k - 1).mode \in LenientModes
    BY <1>3
  <2>3. At(k).mode \in LenientModes /\ (At(k).mode = "closed" => file[k] = quote_char)
    BY <2>1, <2>2, LenientRead
  <2> QED
    BY <2>1, <2>3
<1> HIDE DEF good, n
<1>4. 0 .. n \subseteq good
  BY <1>1, <1>2, <1>3, IndexInduction
<1> QED
  BY <1>1, <1>4 DEF good, n

\* With quoting a record has the fields read, the last without its '\r'.
LEMMA QuotingRow ==
  ASSUME config.has_quoting, NEW s
  PROVE  /\ Row(s) = Append(s.fields, Kept(s))
         /\ ~(crlf /\ EndsInCr(s)) => Row(s) = Open(s) /\ Kept(s) = s.text
BY DEF Row, Kept, Open

\* In CRLF an unquoted field ends in '\r' when that was the last byte read.
LEMMA EndsAt ==
  ASSUME file \in String, crlf, NEW i \in Nat, i <= Len(file),
         At(i).mode \in {"start", "plain"}
  PROVE  /\ EndsInCr(At(i)) <=> i # 0 /\ file[i] = CR
         /\ i # 0 /\ file[i] = CR => At(i).mode = "plain"
<1>1. CASE i = 0
  BY <1>1, AtBytes DEF Start, EndsInCr
<1>2. CASE i # 0
  <2> DEFINE j == i - 1
             s == At(j)
             next == At(j + 1)
             c == file[j + 1]
  <2>1. j \in Nat /\ j < Len(file) /\ j + 1 = i
    BY <1>2, LenProperties DEF String
  <2> HIDE DEF j
  <2>2. s \in Passes /\ c \in Char /\ ReadsOn(s, c, next)
    BY <2>1, AtStep
  <2>3. next.mode \in {"start", "plain"}
    BY <2>1
  <2> HIDE DEF s, next, c
  <2>4. CR \notin {delimiter, newline(config.line_ending)}
    BY NewlineByte, CharAssumption
  <2>5. CASE next.mode = "start"
    BY <1>2, <2>1, <2>2, <2>4, <2>5 DEF ReadsOn, EndsInCr, next, c
  <2>6. CASE next.mode = "plain"
    <3>1. next.text = Append(s.text, c) /\ s.text \in Seq(Char)
      BY <2>2, <2>6, PassAt DEF ReadsOn
    <3>2. Append(s.text, c)[Len(Append(s.text, c))] = c
      BY <2>2, <3>1, FrontOfAppend
    <3>3. EndsInCr(next) <=> c = CR
      BY <2>6, <3>1, <3>2 DEF EndsInCr
    <3> QED
      BY <1>2, <2>1, <2>6, <3>3 DEF next, c
  <2> QED
    BY <2>3, <2>5, <2>6
<1> QED
  BY <1>1, <1>2

-----------------------------------------------------------------------------
(***************************************************************************)
(* The grammar without quoting, a byte at a time.                           *)
(***************************************************************************)
\* Where a pass without quoting can stand.
Unquoted(s) == s \in Passes /\ s.mode \in {"start", "plain"}

\* What the byte c does to the pass s.
ReadsByte(s, c, next) ==
  /\ c = newline(config.line_ending) =>
       Fresh(next) /\ next.records = Append(s.records, Row(s))
  /\ c # newline(config.line_ending) =>
       /\ next.records = s.records
       /\ c = delimiter => next.fields = Open(s) /\ next.text = <<>>
       /\ c # delimiter => next.fields = s.fields /\ next.text = Append(s.text, c)

\* One byte of the pass.
LEMMA PlainByte ==
  ASSUME ~config.has_quoting, NEW s, Unquoted(s), NEW c \in Char
  PROVE  Unquoted(ReadByte(config, s, c)) /\ ReadsByte(s, c, ReadByte(config, s, c))
<1> DEFINE nl == newline(config.line_ending)
           next == ReadByte(config, s, c)
<1>1. s \in Passes /\ s.mode \in {"start", "plain"} /\ nl # delimiter
  BY NewlineByte DEF Unquoted
<1>2. next = IF c = nl THEN ReadNewline(config, s)
             ELSE IF c = delimiter THEN EndField(s) ELSE Add(s, c, "plain")
  BY <1>1 DEF ReadByte, ReadData
<1>3. "plain" \in Modes \ {"start"}
  BY DEF Modes
<1>4. CASE c = nl
  <2>1. next = ReadNewline(config, s) /\ ~Refused(s)
    BY <1>2, <1>4 DEF Refused
  <2> HIDE DEF next
  <2>2. next \in Passes /\ next.records = Append(s.records, Row(s)) /\ Fresh(next)
    BY <1>1, <2>1, NewlineRead
  <2> QED
    BY <1>4, <2>2 DEF ReadsByte, next, Unquoted, Fresh
<1>5. CASE c # nl /\ c = delimiter
  <2>1. next = EndField(s)
    BY <1>2, <1>5
  <2> HIDE DEF next
  <2>2. /\ next \in Passes /\ next.mode = "start" /\ next.records = s.records
        /\ next.fields = Open(s) /\ next.text = <<>>
    BY <1>1, <2>1, FieldEnded
  <2> QED
    BY <1>5, <2>2 DEF ReadsByte, next, Unquoted
<1>6. CASE c # nl /\ c # delimiter
  <2>1. next = Add(s, c, "plain")
    BY <1>2, <1>6
  <2> HIDE DEF next
  <2>2. /\ next \in Passes /\ next.mode = "plain" /\ next.records = s.records
        /\ next.fields = s.fields /\ next.text = Append(s.text, c)
    BY <1>1, <1>3, <2>1, ByteAdded
  <2> QED
    BY <1>6, <2>2 DEF ReadsByte, next, Unquoted
<1> QED
  BY <1>4, <1>5, <1>6

\* No byte takes a pass without quoting elsewhere.
LEMMA PlainAt ==
  ASSUME ~config.has_quoting, file \in String, NEW i \in Nat, i <= Len(file)
  PROVE  Unquoted(At(i))
<1> DEFINE n == Len(file)
           good == {k \in 0 .. n : Unquoted(At(k))}
<1>1. n \in Nat
  BY LenProperties DEF String
<1>2. 0 \in good
  BY <1>1, AtBytes, StartPass DEF Unquoted, Start
<1>3. ASSUME NEW k \in 1 .. n, k - 1 \in good PROVE k \in good
  <2>1. file[k] \in Char /\ At(k) = ReadByte(config, At(k - 1), file[k])
    BY <1>1, AtBytes, ElementOfSeq DEF String
  <2>2. Unquoted(At(k - 1))
    BY <1>3
  <2>3. Unquoted(ReadByte(config, At(k - 1), file[k]))
    BY <2>1, <2>2, PlainByte
  <2> QED
    BY <2>1, <2>3
<1> HIDE DEF good, n
<1>4. 0 .. n \subseteq good
  BY <1>1, <1>2, <1>3, IndexInduction
<1> QED
  BY <1>1, <1>4 DEF good, n

\* What the next byte does to a pass.
LEMMA PlainStep ==
  ASSUME ~config.has_quoting, file \in String, NEW i \in Nat, i < Len(file)
  PROVE  /\ i + 1 \in 1 .. Len(file) /\ file[i + 1] \in Char
         /\ At(i) \in Passes /\ At(i + 1) \in Passes
         /\ Unquoted(At(i)) /\ Unquoted(At(i + 1))
         /\ ReadsByte(At(i), file[i + 1], At(i + 1))
<1>1. /\ i + 1 \in 1 .. Len(file) /\ file[i + 1] \in Char
      /\ At(i) \in Passes /\ At(i + 1) \in Passes
      /\ At(i + 1) = ReadByte(config, At(i), file[i + 1])
  BY AtStep
<1>2. Unquoted(At(i))
  BY PlainAt, LenProperties DEF String
<1> QED
  BY <1>1, <1>2, PlainByte

\* Such a pass has read nothing of a record when it holds nothing.
LEMMA PlainFresh ==
  ASSUME NEW s, Unquoted(s)
  PROVE  /\ Fresh(s) <=> s.fields = <<>> /\ s.text = <<>>
         /\ s.mode = "start" <=> s.text = <<>>
<1>1. s \in Passes /\ s.mode \in {"start", "plain"}
  BY DEF Unquoted
<1>2. (s.mode = "start" => s.text = <<>>) /\ (s.mode = "plain" => s.text # <<>>)
  BY <1>1, PassAt
<1> QED
  BY <1>1, <1>2 DEF Fresh

\* A record begins behind a newline, and a field's bytes end with the last byte read.
LEMMA LastByte ==
  ASSUME ~config.has_quoting, file \in String, NEW i \in Nat, i < Len(file)
  PROVE  /\ Fresh(At(i + 1)) <=> file[i + 1] = newline(config.line_ending)
         /\ crlf => (EndsInCr(At(i + 1)) <=> file[i + 1] = CR)
<1> DEFINE s == At(i)
           next == At(i + 1)
           c == file[i + 1]
<1>1. /\ s \in Passes /\ ReadsByte(s, c, next) /\ c \in Char
      /\ Unquoted(next)
  BY PlainStep
<1> HIDE DEF s, next, c
<1>2. /\ s.fields \in Seq(String) /\ s.text \in String /\ s.text \in Seq(Char)
      /\ next.mode = "start" <=> next.text = <<>>
      /\ Fresh(next) <=> next.fields = <<>> /\ next.text = <<>>
      /\ next.mode \in {"start", "plain"}
  BY <1>1, PassAt, PlainFresh DEF Unquoted
<1>3. Open(s) # <<>>
  <2>1. Len(Open(s)) = Len(s.fields) + 1 /\ Len(s.fields) \in Nat /\ Open(s) \in Seq(String)
    BY <1>2, AppendProperties, LenProperties DEF Open
  <2> QED
    BY <2>1, EmptySeq
<1>4. /\ Append(s.text, c) # <<>>
      /\ Append(s.text, c)[Len(Append(s.text, c))] = c
  <2>1. /\ Append(s.text, c) \in Seq(Char) /\ Len(Append(s.text, c)) = Len(s.text) + 1
        /\ Append(s.text, c)[Len(s.text) + 1] = c /\ Len(s.text) \in Nat
    BY <1>1, <1>2, AppendProperties, LenProperties
  <2> QED
    BY <2>1, EmptySeq
<1>5. crlf => newline(config.line_ending) # CR
  BY CharAssumption DEF crlf, newline
<1>6. delimiter # CR
  BY CharAssumption
<1>7. CASE c = newline(config.line_ending)
  <2>1. Fresh(next)
    BY <1>1, <1>7 DEF ReadsByte
  <2>2. ~EndsInCr(next)
    BY <1>2, <2>1 DEF Fresh, EndsInCr
  <2> QED
    BY <1>5, <1>7, <2>1, <2>2 DEF next, c
<1>8. CASE c # newline(config.line_ending) /\ c = delimiter
  <2>1. next.fields = Open(s) /\ next.text = <<>>
    BY <1>1, <1>8 DEF ReadsByte
  <2>2. ~Fresh(next) /\ ~EndsInCr(next)
    BY <1>2, <1>3, <2>1 DEF Fresh, EndsInCr
  <2> QED
    BY <1>6, <1>8, <2>2 DEF next, c
<1>9. CASE c # newline(config.line_ending) /\ c # delimiter
  <2>1. next.text = Append(s.text, c)
    BY <1>1, <1>9 DEF ReadsByte
  <2>2. next.mode = "plain" /\ ~Fresh(next)
    BY <1>2, <1>4, <2>1 DEF Fresh
  <2>3. EndsInCr(next) <=> c = CR
    BY <1>4, <2>1, <2>2 DEF EndsInCr
  <2> QED
    BY <1>9, <2>2, <2>3 DEF next, c
<1> QED
  BY <1>7, <1>8, <1>9

-----------------------------------------------------------------------------
(***************************************************************************)
(* The buffer as the reader uses it.                                        *)
(***************************************************************************)
\* The byte of the file behind which the block begins, and how many bytes of the
\* file the reader has consumed.
base == IF config.mapped_buffer THEN 0 ELSE pos - size
Taken == base + start

\* The buffer has seen the end of the file.
AtEnd == IF config.mapped_buffer THEN size # 0 ELSE "eofbit" \in bits

\* The block is a stretch of the file.
FileInv ==
  /\ base \in Nat /\ base + size <= Len(file)
  /\ \A i \in 0 .. size - 1 : data[i] = file[base + i + 1]
  /\ config.mapped_buffer => size = Len(file)
  /\ ~config.mapped_buffer /\ "eofbit" \in bits => pos = Len(file)
  /\ reading = "eof" => AtEnd

\* Reader refills it only when it is empty, so it begins at a multiple of its
\* capacity as long as the stream is good.
FeedInv ==
  /\ FileInv
  /\ ~config.mapped_buffer /\ bits = {} => pos % N = 0

\* What the block shows is bytes of the file.
LEMMA ViewIsString ==
  ASSUME BytesInv
  PROVE  buffer_view \in String
<1> DEFINE available == size - start
<1>1. /\ available \in Nat /\ size \in Nat /\ start \in Nat
      /\ \A i \in 0 .. size - 1 : data[i] \in Char
  BY DEF BytesInv
<1>2. buffer_view = [i \in 1 .. available |-> data[start + i - 1]]
  BY DEF buffer_view, Stream!view, Mapped!view, Stream!available, Mapped!available
<1>3. ASSUME NEW i \in 1 .. available PROVE data[start + i - 1] \in Char
  <2>1. start + i - 1 \in 0 .. size - 1
    BY <1>1
  <2> QED
    BY <1>1, <2>1
<1> HIDE DEF available
<1> QED
  BY <1>1, <1>2, <1>3, IsASeq DEF String

\* At first the block is empty.
LEMMA InitFeed == ReaderInit => FeedInv
<1> SUFFICES ASSUME ReaderInit PROVE FeedInv
  OBVIOUS
<1>1. file \in Seq(Char) /\ Len(file) \in Nat /\ reading = "ok"
  <2>1. file \in Files /\ reading = "ok"
    BY DEF ReaderInit, StreamInit, MappedInit, Stream!Init, Mapped!Init
  <2> QED
    BY <2>1, ReaderAssumption, LenProperties DEF String
<1>2. CASE StreamInit
  <2>1. ~config.mapped_buffer /\ size = 0 /\ pos = 0 /\ bits = {} /\ N \in Nat \ {0}
    BY <1>2, ReaderAssumption DEF StreamInit, Stream!Init
  <2>2. 0 % N = 0
    BY <2>1, ZeroIsMultiple
  <2> QED
    BY <1>1, <2>1, <2>2 DEF FeedInv, FileInv, base
<1>3. CASE MappedInit
  <2>1. config.mapped_buffer /\ size = Len(file) /\ data = [i \in 0 .. size - 1 |-> file[i + 1]]
    BY <1>3 DEF MappedInit, Mapped!Init
  <2>2. base = 0
    BY <2>1 DEF base
  <2>3. ASSUME NEW i \in 0 .. size - 1 PROVE data[i] = file[base + i + 1]
    BY <2>1, <2>2
  <2> QED
    BY <1>1, <2>1, <2>2, <2>3 DEF FeedInv, FileInv
<1> QED
  BY <1>2, <1>3 DEF ReaderInit

\* A refill of an empty buffer: the block is the next stretch of the file, and the
\* reader has consumed as much as before.
LEMMA RefillFeeds ==
  ASSUME FeedInv, BytesInv, StreamInv, buffer_empty, refill, config' = config
  PROVE  /\ FeedInv' /\ Taken' = Taken
         /\ reading' \in {"ok", "eof", "fail"}
         /\ reading' = "ok" => ~config.mapped_buffer /\ Taken % N = 0
         /\ reading' = "eof" => AtEnd' /\ Taken = Len(file)
         /\ reading' = "fail" => ~AtEnd'
         /\ spent => (AtEnd' <=> AtEnd)
<1>1. /\ N \in Nat /\ size \in 0 .. N /\ start \in 0 .. size /\ file \in Seq(Char)
      /\ Len(file) \in Nat
  BY LenProperties DEF BytesInv, String
<1>2. CASE config.mapped_buffer
  <2>1. /\ UNCHANGED <<file, N, data, start, size>> /\ start = size
        /\ reading' = IF size = 0 THEN "fail" ELSE "eof"
    BY <1>1, <1>2 DEF refill, Mapped!refill, Mapped!empty, Mapped!is_null, buffer_empty
  <2>2. base' = base /\ base = 0 /\ (AtEnd' <=> AtEnd) /\ (AtEnd <=> size # 0)
    BY <1>2, <2>1 DEF base, AtEnd
  <2>3. FeedInv'
    BY <1>2, <2>1, <2>2 DEF FeedInv, FileInv
  <2>4. Taken' = Taken /\ Taken = size /\ size = Len(file)
    BY <1>1, <1>2, <2>1, <2>2 DEF Taken, FeedInv, FileInv
  <2> QED
    BY <2>1, <2>2, <2>3, <2>4
<1>3. CASE ~config.mapped_buffer
  <2>1. /\ Stream!Refill /\ start = size /\ Stream!available = 0
        /\ pos \in 0 .. Len(file) /\ N \in Nat \ {0}
    BY <1>1, <1>3 DEF refill, StreamInv, Stream!available, buffer_empty, Stream!empty
  <2>2. base = pos - size /\ Taken = pos
    BY <1>1, <1>3, <2>1 DEF base, Taken
  <2>3. /\ "eofbit" \in bits => pos = Len(file)
        /\ bits = {} => pos % N = 0
    BY <1>3 DEF FeedInv, FileInv
  <2>4. ASSUME NEW n \in Nat, n <= N, n <= Len(file) - pos, NEW b, Stream!RefillWith(n, b),
               "eofbit" \in b => pos + n = Len(file), b = {} => (pos + n) % N = 0,
               n # 0 => bits = {}
        PROVE  /\ FeedInv' /\ Taken' = Taken /\ bits' = b
               /\ reading' \in {"ok", "eof", "fail"}
               /\ reading' = "ok" => Taken % N = 0
               /\ reading' = "eof" => AtEnd' /\ Taken = Len(file)
               /\ reading' = "fail" => ~AtEnd'
    <3>1. /\ data' = [i \in 0 .. N - 1 |->
                        IF i \in 0 .. 0 + n - 1
                        THEN file[pos + i - 0 + 1] ELSE Stream!Compacted[i]]
          /\ start' = 0 /\ size' = 0 + n /\ bits' = b /\ pos' = pos + n /\ UNCHANGED <<file, N>>
          /\ reading' = IF n > 0 THEN "ok" ELSE IF "eofbit" \in b THEN "eof" ELSE "fail"
      BY <2>1, <2>4 DEF Stream!RefillWith
    <3>2. size' = n /\ base' = pos /\ (AtEnd' <=> "eofbit" \in b) /\ Taken' = pos
      BY <1>1, <1>3, <2>1, <3>1 DEF base, AtEnd, Taken
    <3>3. ASSUME NEW i \in 0 .. n - 1 PROVE data'[i] = file[pos + i + 1]
      <4>1. i \in 0 .. N - 1 /\ i \in 0 .. 0 + n - 1 /\ pos + i - 0 + 1 = pos + i + 1
        BY <1>1, <2>1, <2>4
      <4> QED
        BY <3>1, <4>1
    <3>4. base' \in Nat /\ base' + size' <= Len(file)
      BY <1>1, <2>1, <2>4, <3>2
    <3>5. reading' = "eof" => "eofbit" \in b /\ n = 0
      BY <2>4, <3>1
    <3>6. FeedInv'
      BY <1>3, <2>4, <3>1, <3>2, <3>3, <3>4, <3>5 DEF FeedInv, FileInv
    <3>7. reading' = "eof" => Taken = Len(file)
      BY <2>1, <2>2, <2>4, <3>5
    <3>8. reading' = "ok" => Taken % N = 0
      BY <2>2, <2>3, <2>4, <3>1
    <3>9. reading' = "fail" => "eofbit" \notin b
      BY <3>1
    <3> QED
      BY <2>2, <3>1, <3>2, <3>5, <3>6, <3>7, <3>8, <3>9
  <2>5. CASE Stream!RefillFull
    BY <2>1, <2>5 DEF Stream!RefillFull
  <2>6. CASE Stream!RefillReads
    <3> DEFINE left == Len(file) - pos
               n == Stream!Least(N, left)
               b == IF left < N THEN {"eofbit"} ELSE {}
    <3>1. Stream!RefillWith(n, b) /\ bits = {}
      <4>1. N - Stream!available = N
        BY <1>1, <2>1
      <4> QED
        BY <2>6, <4>1 DEF Stream!RefillReads
    <3>2. n \in Nat /\ n <= N /\ n <= left /\ (b # {} => pos + n = Len(file)) /\ (b = {} => n = N)
      BY <1>1, <2>1 DEF Stream!Least
    <3>3. (pos + N) % N = 0
      BY <2>1, <2>3, <3>1, NextMultiple
    <3> HIDE DEF n
    <3>4. ("eofbit" \in b => pos + n = Len(file)) /\ (b = {} => (pos + n) % N = 0)
      BY <3>2, <3>3
    <3> HIDE DEF b
    <3> QED
      BY <1>3, <2>4, <3>1, <3>2, <3>4 DEF spent
  <2>7. CASE Stream!RefillOnSpentStream
    <3>1. Stream!RefillWith(0, bits) /\ bits # {}
      BY <2>7 DEF Stream!RefillOnSpentStream
    <3>2. 0 \in Nat /\ 0 <= N /\ 0 <= Len(file) - pos /\ pos + 0 = pos
      BY <1>1, <2>1
    <3>3. /\ FeedInv' /\ Taken' = Taken /\ bits' = bits
          /\ reading' \in {"ok", "eof", "fail"}
          /\ reading' = "ok" => Taken % N = 0
          /\ reading' = "eof" => AtEnd' /\ Taken = Len(file)
          /\ reading' = "fail" => ~AtEnd'
      BY <2>3, <2>4, <3>1, <3>2
    <3>4. AtEnd' <=> AtEnd
      BY <1>3, <3>3 DEF AtEnd
    <3> QED
      BY <1>3, <3>3, <3>4
  <2>8. CASE Stream!RefillHitsReadError
    <3>1. /\ bits = {}
          /\ \E n \in 0 .. Stream!Least(N - Stream!available, Len(file) - pos) :
               Stream!RefillWith(n, {"badbit"})
      BY <2>8 DEF Stream!RefillHitsReadError
    <3>2. PICK n \in 0 .. Stream!Least(N - Stream!available, Len(file) - pos) :
                 Stream!RefillWith(n, {"badbit"})
      BY <3>1
    <3>3. n \in Nat /\ n <= N /\ n <= Len(file) - pos
      BY <1>1, <2>1 DEF Stream!Least
    <3>4. "eofbit" \notin {"badbit"} /\ {"badbit"} # {}
      OBVIOUS
    <3> QED
      BY <1>3, <2>4, <3>1, <3>2, <3>3, <3>4 DEF spent
  <2> QED
    BY <2>1, <2>5, <2>6, <2>7, <2>8 DEF Stream!Refill
<1> QED
  BY <1>2, <1>3

\* Consuming moves on in the file.
LEMMA ConsumeKeepsFile ==
  ASSUME FileInv, BytesInv, NEW bytes \in Nat, consume(bytes), config' = config
  PROVE  /\ FileInv' /\ base' = base /\ UNCHANGED <<pos, N, bits>>
         /\ bytes <= size - start => Taken' = Taken + bytes
<1>1. /\ UNCHANGED <<file, N, size, data, reading, bits>>
      /\ start' = start + (IF bytes <= size - start THEN bytes ELSE size - start)
  BY ConsumeKeepsBytes
<1>2. pos' = pos
  BY DEF consume, Stream!Consume, Mapped!Consume, Stream!stream_vars
<1>3. base' = base /\ (AtEnd' <=> AtEnd)
  BY <1>1, <1>2 DEF base, AtEnd
<1>4. FileInv'
  BY <1>1, <1>2, <1>3 DEF FileInv
<1>5. start \in Int /\ base \in Int
  BY DEF BytesInv, FileInv
<1> QED
  BY <1>1, <1>2, <1>3, <1>4, <1>5 DEF Taken

LEMMA ConsumeFeeds ==
  ASSUME FeedInv, BytesInv, NEW bytes \in Nat, consume(bytes), config' = config
  PROVE  /\ FeedInv'
         /\ bytes <= size - start => Taken' = Taken + bytes
BY ConsumeKeepsFile DEF FeedInv

\* What the other steps leave alone.
LEMMA FeedUnchanged ==
  ASSUME UNCHANGED buffer_vars, config' = config
  PROVE  /\ FileInv => FileInv'
         /\ FeedInv => FeedInv'
         /\ base' = base /\ Taken' = Taken /\ (AtEnd' <=> AtEnd)
         /\ UNCHANGED <<file, N, start, size>>
<1>1. UNCHANGED <<file, pos, bits, N, data, start, size, reading>>
  BY DEF buffer_vars
<1>2. base' = base /\ (AtEnd' <=> AtEnd)
  BY <1>1 DEF base, AtEnd
<1> QED
  BY <1>1, <1>2 DEF Taken, FeedInv, FileInv

\* What the parser is shown is the stretch of the file that has not been consumed.
LEMMA ViewOfFile ==
  ASSUME FileInv, BytesInv
  PROVE  LET n == size - start
         IN  /\ Taken \in Nat /\ n \in Nat /\ Taken + n <= Len(file)
             /\ Taken + n = base + size
             /\ buffer_view = SubSeq(file, Taken + 1, Taken + n)
<1> DEFINE n == size - start
           e == Taken + n
<1>1. /\ size \in Nat /\ start \in 0 .. size /\ file \in Seq(Char) /\ Len(file) \in Nat
      /\ base \in Nat /\ base + size <= Len(file)
      /\ \A i \in 0 .. size - 1 : data[i] = file[base + i + 1]
  BY LenProperties DEF BytesInv, FileInv, String
<1>2. Taken = base + start /\ Taken \in Nat /\ n \in Nat /\ e = base + size /\ e \in Nat
      /\ Taken <= e /\ e <= Len(file) /\ e - Taken = n
  BY <1>1 DEF Taken
<1>3. buffer_view = [i \in 1 .. n |-> data[start + i - 1]]
  BY DEF buffer_view, Stream!view, Mapped!view, Stream!available, Mapped!available
<1>4. buffer_view \in Seq(Char) /\ Len(buffer_view) = n
  <2>1. buffer_view \in Seq(Char)
    BY ViewIsString DEF String
  <2>2. DOMAIN buffer_view = 1 .. n
    BY <1>3
  <2> HIDE DEF n
  <2> QED
    BY <1>2, <2>1, <2>2, LenProperties
<1> DEFINE stretch == SubSeq(file, Taken + 1, e)
<1>5. stretch \in Seq(Char) /\ Len(stretch) = n
  <2>1. SubSeq(file, Taken + 1, e) \in Seq(Char) /\ Len(SubSeq(file, Taken + 1, e)) = e - Taken
    <3> HIDE DEF e
    <3> QED
      BY <1>1, <1>2, StretchIsSeq, StretchLen
  <2> QED
    BY <1>2, <2>1
<1>6. ASSUME NEW i \in 1 .. n PROVE buffer_view[i] = stretch[i]
  <2>1. buffer_view[i] = data[start + i - 1]
    BY <1>3
  <2>2. start + i - 1 \in 0 .. size - 1 /\ base + (start + i - 1) + 1 = Taken + i
    BY <1>1, <1>2
  <2>3. data[start + i - 1] = file[Taken + i]
    BY <1>1, <2>2
  <2>4. \A j \in 1 .. e - Taken : stretch[j] = file[Taken + j]
    <3> HIDE DEF e
    <3> QED
      BY <1>1, <1>2, StretchAt
  <2> QED
    BY <1>2, <2>1, <2>3, <2>4
<1>7. buffer_view = stretch
  <2> HIDE DEF n, stretch
  <2> QED
    BY <1>4, <1>5, <1>6, SeqEqual
<1> QED
  BY <1>2, <1>7

LEMMA ViewIsStretch ==
  ASSUME FeedInv, BytesInv
  PROVE  LET n == size - start
         IN  /\ Taken \in Nat /\ n \in Nat /\ Taken + n <= Len(file)
             /\ Taken + n = base + size
             /\ buffer_view = SubSeq(file, Taken + 1, Taken + n)
BY ViewOfFile DEF FeedInv
-----------------------------------------------------------------------------
(***************************************************************************)
(* The fields of a record and the pieces of a line.                         *)
(***************************************************************************)
\* At least one field.
Fields == Seq(String) \ {<<>>}

\* There is a last field, and each is a string.
LEMMA FieldsAreStrings ==
  ASSUME NEW fs \in Fields
  PROVE  /\ fs \in Seq(String) /\ Len(fs) \in Nat \ {0}
         /\ Len(fs) \in 1 .. Len(fs) /\ 1 \in 1 .. Len(fs)
         /\ \A k \in 1 .. Len(fs) : fs[k] \in String
<1>1. fs \in Seq(String) /\ fs # <<>>
  BY DEF Fields
<1>2. Len(fs) \in Nat \ {0}
  BY <1>1, EmptySeq
<1> QED
  BY <1>1, <1>2, ElementOfSeq

\* The last field goes on, as in Parser's ExtendLast.
Extended(fs, piece) == [fs EXCEPT ![Len(fs)] = @ \o piece]

\* Lengthening the last field leaves the others and their number alone.
LEMMA ExtendedFields ==
  ASSUME NEW fs \in Fields, NEW piece \in String
  PROVE  LET extended == Extended(fs, piece)
         IN  /\ extended \in Fields /\ Len(extended) = Len(fs)
             /\ \A k \in 1 .. Len(fs) :
                  extended[k] = IF k = Len(fs) THEN fs[k] \o piece ELSE fs[k]
<1> DEFINE last == fs[Len(fs)] \o piece
           extended == Extended(fs, piece)
<1>1. fs \in Seq(String) /\ Len(fs) \in Nat \ {0} /\ fs[Len(fs)] \in String
      /\ Len(fs) \in 1 .. Len(fs)
  BY FieldsAreStrings
<1>2. last \in String
  BY <1>1, ConcatProperties DEF String
<1>3. extended = [fs EXCEPT ![Len(fs)] = last]
  BY DEF Extended
<1> HIDE DEF last, extended
<1>4. /\ extended \in Seq(String) /\ Len(extended) = Len(fs)
      /\ \A k \in 1 .. Len(fs) : extended[k] = IF k = Len(fs) THEN last ELSE fs[k]
  BY <1>1, <1>2, <1>3, ExceptSeq
<1>5. extended \in Fields
  BY <1>1, <1>4, EmptySeq DEF Fields
<1> QED
  BY <1>4, <1>5 DEF last, extended

\* One field more.
LEMMA AppendFields ==
  ASSUME NEW fs \in Seq(String), NEW piece \in String
  PROVE  Append(fs, piece) \in Fields
<1>1. Append(fs, piece) \in Seq(String) /\ Len(Append(fs, piece)) = Len(fs) + 1
      /\ Len(fs) \in Nat
  BY AppendProperties, LenProperties
<1> QED
  BY <1>1, EmptySeq DEF Fields

\* The line split byte by byte, as split() of the simple parser does.
SplitByte(pieces, c) ==
  IF c = delimiter THEN Append(pieces, <<>>) ELSE Extended(pieces, <<c>>)

Split(str) ==
  LET pieces[i \in 0 .. Len(str)] ==
        IF i = 0 THEN << <<>> >> ELSE SplitByte(pieces[i - 1], str[i])
  IN  pieces[Len(str)]

\* The line is split byte by byte.
PiecesOf(pieces, str) ==
  /\ pieces \in [0 .. Len(str) -> Fields]
  /\ pieces[0] = << <<>> >>
  /\ \A i \in 1 .. Len(str) : pieces[i] = SplitByte(pieces[i - 1], str[i])

\* One byte more of split().
LEMMA SplitByteFields ==
  ASSUME NEW pieces \in Fields, NEW c \in Char
  PROVE  /\ SplitByte(pieces, c) \in Fields
         /\ c = delimiter => SplitByte(pieces, c) = Append(pieces, <<>>)
         /\ c # delimiter => SplitByte(pieces, c) = Extended(pieces, <<c>>)
<1>1. <<>> \in String /\ <<c>> \in String
  <2>1. <<>> \in Seq(Char) /\ <<c>> \in Seq(Char)
    BY EmptySeq
  <2> QED
    BY <2>1 DEF String
<1>2. pieces \in Seq(String)
  BY DEF Fields
<1>3. Append(pieces, <<>>) \in Fields /\ Extended(pieces, <<c>>) \in Fields
  BY <1>1, <1>2, AppendFields, ExtendedFields
<1>4. SplitByte(pieces, c) =
        IF c = delimiter THEN Append(pieces, <<>>) ELSE Extended(pieces, <<c>>)
  BY DEF SplitByte, Extended
<1> QED
  BY <1>3, <1>4

\* The pieces the recursion of split() computes are those stepped byte by byte.
LEMMA SplitPieces ==
  ASSUME NEW str \in String
  PROVE  \E pieces : PiecesOf(pieces, str) /\ Split(str) = pieces[Len(str)]
<1> DEFINE n == Len(str)
           first == << <<>> >>
           step == [i \in 1 .. n |-> [fs \in Fields |-> SplitByte(fs, str[i])]]
           pieces[i \in 0 .. n] == IF i = 0 THEN first ELSE SplitByte(pieces[i - 1], str[i])
<1>1. Split(str) = pieces[n]
  BY DEF Split
<1>2. first \in Fields /\ n \in Nat
  <2>1. <<>> \in String
    BY EmptySeq DEF String
  <2>2. << <<>> >> \in Seq(String) /\ << <<>> >> # <<>>
    BY <2>1
  <2> QED
    BY <2>2, LenProperties DEF Fields, String
<1>3. \A i \in 1 .. n : str[i] \in Char
  BY ElementOfSeq DEF String
<1> HIDE DEF n, pieces, first
<1>4. step \in Steps(Fields, n)
  <2>1. \A i \in 1 .. n : \A fs \in Fields : SplitByte(fs, str[i]) \in Fields
    BY <1>3, SplitByteFields
  <2> QED
    BY <2>1 DEF Steps
<1>5. PICK f \in [0 .. n -> Fields] : Iterates(f, first, step, n)
  <2> HIDE DEF step
  <2> QED
    BY <1>2, <1>4, Recursion
<1>6. ASSUME NEW i \in 1 .. n PROVE f[i] = SplitByte(f[i - 1], str[i])
  <2>1. f[i - 1] \in Fields
    BY <1>2
  <2> QED
    BY <1>5, <2>1 DEF Iterates
<1>7. f = [i \in 0 .. n |-> IF i = 0 THEN first ELSE SplitByte(f[i - 1], str[i])]
  BY <1>5, <1>6 DEF Iterates
<1>8. pieces = [i \in 0 .. n |->
                  IF i = 0 THEN first ELSE SplitByte(pieces[i - 1], str[i])]
  BY <1>7, Zenon DEF pieces
<1>9. pieces[0] = first
      /\ \A i \in 1 .. n : pieces[i] = SplitByte(pieces[i - 1], str[i])
  BY <1>2, <1>8
<1> DEFINE good == {i \in 0 .. n : pieces[i] \in Fields}
<1>10. 0 .. n \subseteq good
  <2>1. 0 \in good
    BY <1>2, <1>9
  <2>2. ASSUME NEW i \in 1 .. n, i - 1 \in good PROVE i \in good
    <3>1. pieces[i - 1] \in Fields /\ str[i] \in Char /\ i \in 0 .. n
      BY <1>2, <1>3, <2>2
    <3>2. SplitByte(pieces[i - 1], str[i]) \in Fields
      BY <3>1, SplitByteFields
    <3> QED
      BY <1>9, <3>1, <3>2
  <2> HIDE DEF good
  <2> QED
    BY <1>2, <2>1, <2>2, IndexInduction
<1>11. pieces \in [0 .. n -> Fields]
  BY <1>8, <1>10
<1>12. PiecesOf(pieces, str)
  BY <1>9, <1>11 DEF PiecesOf, n, first
<1> QED
  BY <1>1, <1>12 DEF n

\* A line splits into one field at least.
LEMMA SplitIsFields ==
  ASSUME NEW str \in String
  PROVE  Split(str) \in Fields
<1>1. PICK pieces : PiecesOf(pieces, str) /\ Split(str) = pieces[Len(str)]
  BY SplitPieces
<1>2. Len(str) \in 0 .. Len(str)
  BY LenProperties DEF String
<1> QED
  BY <1>1, <1>2 DEF PiecesOf

\* The bytes the views show.
TextIn(buffer, views) ==
  [k \in 1 .. Len(views) |->
     SubSeq(buffer, views[k].from + 1, views[k].from + views[k].len)]

\* Views that span a stretch of the buffer show fields.
LEMMA TextInFields ==
  ASSUME NEW buffer \in String, NEW views \in Views, NEW a \in Nat, NEW b \in Nat,
         Spans(views, a, b), b <= Len(buffer)
  PROVE  /\ TextIn(buffer, views) \in Fields /\ Len(TextIn(buffer, views)) = Len(views)
         /\ \A k \in 1 .. Len(views) : TextIn(buffer, views)[k] =
              SubSeq(buffer, views[k].from + 1, behind(views[k]))
<1> DEFINE shown == TextIn(buffer, views)
<1>1. Len(views) \in Nat \ {0} /\ Len(buffer) \in Nat /\ buffer \in Seq(Char)
  BY ViewsAreViews, LenProperties DEF String
<1>2. ASSUME NEW k \in 1 .. Len(views)
      PROVE  SubSeq(buffer, views[k].from + 1, behind(views[k])) \in String
  <2>1. views[k].from \in Nat /\ behind(views[k]) \in Nat /\ behind(views[k]) <= Len(buffer)
    <3>1. a \in Int /\ b \in Int
      OBVIOUS
    <3>2. views[k].from \in Nat /\ behind(views[k]) \in Nat /\ behind(views[k]) <= b
      BY <3>1, SpansAt
    <3> QED
      BY <1>1, <3>2
  <2> QED
    BY <1>1, <2>1, StretchIsSeq DEF String
<1>3. shown = [k \in 1 .. Len(views) |-> SubSeq(buffer, views[k].from + 1, behind(views[k]))]
  BY DEF TextIn, behind
<1> HIDE DEF shown
<1>4. shown \in [1 .. Len(views) -> String]
  BY <1>2, <1>3
<1>5. shown \in Seq(String) /\ Len(shown) = Len(views)
  BY <1>1, <1>4, IsASeq, LenProperties
<1>6. shown \in Fields
  BY <1>1, <1>5, EmptySeq DEF Fields
<1> QED
  BY <1>3, <1>5, <1>6 DEF shown

\* One byte more of the line: the views show one byte more of it.
LEMMA TextInTakeByte ==
  ASSUME NEW buffer \in String, NEW i \in Nat, i < Len(buffer),
         NEW views \in Views, Spans(views, 0, i), NEW D,
         i \in D <=> buffer[i + 1] = delimiter
  PROVE  TextIn(buffer, TakeByte(views, i + 1, D)) =
           SplitByte(TextIn(buffer, views), buffer[i + 1])
<1> DEFINE further == TakeByte(views, i + 1, D)
           shown == TextIn(buffer, views)
           more == TextIn(buffer, further)
           n == Len(views)
           c == buffer[i + 1]
<1>1. /\ Len(buffer) \in Nat /\ i + 1 \in 1 .. Len(buffer) /\ buffer \in Seq(Char)
      /\ n \in Nat \ {0} /\ n \in 1 .. n
  BY ViewsAreViews, LenProperties DEF String
<1>2. c \in Char
  BY <1>1, ElementOfSeq
<1>3. further \in Views /\ Spans(further, 0, i + 1)
  BY TakeByteSpans
<1>4. /\ shown \in Fields /\ Len(shown) = n
      /\ \A k \in 1 .. n : shown[k] = SubSeq(buffer, views[k].from + 1, behind(views[k]))
  BY <1>1, TextInFields
<1>5. /\ more \in Fields /\ Len(more) = Len(further)
      /\ \A k \in 1 .. Len(further) :
           more[k] = SubSeq(buffer, further[k].from + 1, behind(further[k]))
  <2> HIDE DEF further
  <2> QED
    BY <1>1, <1>3, TextInFields
<1>6. shown \in Seq(String) /\ more \in Seq(String)
  BY <1>4, <1>5 DEF Fields
<1>7. CASE i \in D
  <2> DEFINE new == [from |-> i + 1, len |-> 0]
  <2>1. further = Append(views, new) /\ new \in View /\ new.from = i + 1 /\ behind(new) = i + 1
    BY <1>7 DEF TakeByte, View, behind
  <2> HIDE DEF further, new, shown, more, c
  <2>2. /\ Len(further) = n + 1
        /\ \A k \in 1 .. n : further[k] = views[k]
        /\ further[n + 1] = new
    BY <1>1, <2>1, AppendProperties DEF Views
  <2>3. <<>> \in String
    BY EmptySeq DEF String
  <2> DEFINE appended == Append(shown, <<>>)
  <2>4. /\ appended \in Seq(String) /\ Len(appended) = n + 1
        /\ \A k \in 1 .. n : appended[k] = shown[k]
        /\ appended[n + 1] = <<>>
    BY <1>4, <1>6, <2>3, AppendProperties
  <2>5. more[n + 1] = <<>>
    <3>1. more[n + 1] = SubSeq(buffer, (i + 1) + 1, i + 1)
      BY <1>1, <1>5, <2>1, <2>2
    <3> QED
      BY <3>1, SubSeqEmpty
  <2>6. ASSUME NEW k \in 1 .. n + 1 PROVE more[k] = appended[k]
    <3>1. CASE k \in 1 .. n
      BY <1>1, <1>4, <1>5, <2>2, <2>4, <3>1
    <3>2. CASE k = n + 1
      BY <2>4, <2>5, <3>2
    <3>3. k \in 1 .. n \/ k = n + 1
      BY <1>1
    <3> HIDE DEF appended
    <3> QED
      BY <3>1, <3>2, <3>3
  <2> HIDE DEF appended
  <2>7. more = appended
    BY <1>5, <1>6, <2>2, <2>4, <2>6, SeqEqual
  <2>8. SplitByte(shown, c) = appended
    BY <1>2, <1>4, <1>7, SplitByteFields DEF appended, c
  <2> QED
    BY <2>7, <2>8 DEF more, further, shown, c
<1>8. CASE i \notin D
  <2>1. further = Lengthened(views, 1)
    BY <1>8 DEF TakeByte, Lengthened
  <2>2. <<c>> \in String
    BY <1>2 DEF String
  <2> HIDE DEF further, shown, more, c
  <2>3. /\ Len(further) = n
        /\ \A k \in 1 .. n : /\ further[k].from = views[k].from
                             /\ k < n => further[k] = views[k]
        /\ further[n].len = views[n].len + 1
    BY <2>1, LastLengthened
  <2> DEFINE extended == Extended(shown, <<c>>)
  <2>4. /\ extended \in Fields /\ Len(extended) = n
        /\ \A k \in 1 .. n : extended[k] = IF k = n THEN shown[k] \o <<c>> ELSE shown[k]
    BY <1>4, <2>2, ExtendedFields
  <2>5. more[n] = extended[n]
    <3>1. /\ views[n].from \in Nat /\ behind(views[n]) = i /\ views[n].from <= i
          /\ behind(further[n]) = i + 1
      BY <1>1, <1>3, <2>3, SpansAt
    <3>2. more[n] = SubSeq(buffer, views[n].from + 1, i + 1)
          /\ shown[n] = SubSeq(buffer, views[n].from + 1, i)
      BY <1>1, <1>4, <1>5, <2>3, <3>1
    <3>3. more[n] = Append(shown[n], c)
      <4>1. SubSeq(buffer, views[n].from + 1, i + 1) =
              Append(SubSeq(buffer, views[n].from + 1, i), buffer[i + 1])
        BY <1>1, <3>1, StretchGrows
      <4> QED
        BY <3>2, <4>1 DEF c
    <3>4. shown[n] \in Seq(Char) /\ Append(shown[n], c) = shown[n] \o <<c>>
      BY <1>1, <1>2, <1>4, <1>6, ElementOfSeq, AppendIsConcat DEF String
    <3> QED
      BY <1>1, <2>4, <3>3, <3>4
  <2>6. ASSUME NEW k \in 1 .. n PROVE more[k] = extended[k]
    <3>1. CASE k < n
      <4>1. further[k] = views[k] /\ k \in 1 .. Len(further)
        BY <2>3, <3>1
      <4>2. more[k] = shown[k]
        BY <1>4, <1>5, <4>1
      <4>3. extended[k] = shown[k]
        BY <1>1, <2>4, <3>1
      <4> QED
        BY <4>2, <4>3
    <3>2. CASE k = n
      BY <2>5, <3>2
    <3>3. k < n \/ k = n
      BY <1>1
    <3> HIDE DEF extended
    <3> QED
      BY <3>1, <3>2, <3>3
  <2> HIDE DEF extended
  <2>7. extended \in Seq(String)
    BY <2>4 DEF Fields
  <2>8. more = extended
    BY <1>5, <1>6, <2>3, <2>4, <2>6, <2>7, SeqEqual
  <2>9. SplitByte(shown, c) = extended
    BY <1>2, <1>4, <1>8, SplitByteFields DEF extended, c
  <2> QED
    BY <2>8, <2>9 DEF more, further, shown, c
<1> QED
  BY <1>7, <1>8

\* Cut into views or split into strings, a line has the same fields.
LEMMA TextInCut ==
  ASSUME NEW buffer \in String, NEW n \in Nat, n <= Len(buffer), NEW D,
         \A i \in 0 .. n - 1 : i \in D <=> buffer[i + 1] = delimiter
  PROVE  TextIn(buffer, Cut(D, n)) = Split(SubSeq(buffer, 1, n))
<1> DEFINE str == SubSeq(buffer, 1, n)
<1>1. /\ str \in String /\ Len(str) = n /\ Len(buffer) \in Nat
      /\ \A i \in 1 .. n : str[i] = buffer[i]
  <2>1. buffer \in Seq(Char) /\ Len(buffer) \in Nat
    BY LenProperties DEF String
  <2>2. SubSeq(buffer, 0 + 1, n) \in Seq(Char) /\ Len(SubSeq(buffer, 0 + 1, n)) = n - 0
    BY <2>1, StretchIsSeq, StretchLen
  <2>3. \A i \in 1 .. n : buffer[i] \in Char
    BY <2>1, ElementOfSeq
  <2>4. \A i \in 1 .. n - 1 + 1 : str[i] = buffer[1 + i - 1]
    BY <2>3, SubSeqProperties
  <2> HIDE DEF str
  <2>5. \A i \in 1 .. n : str[i] = buffer[i]
    BY <2>4
  <2> QED
    BY <2>1, <2>2, <2>5 DEF str, String
<1> HIDE DEF str
<1>2. PICK cut : /\ cut[0] = << [from |-> 0, len |-> 0] >>
                 /\ \A i \in 1 .. n : cut[i] = TakeByte(cut[i - 1], i, D)
                 /\ Cut(D, n) = cut[n]
  BY CutByBytes
<1>3. PICK pieces : PiecesOf(pieces, str) /\ Split(str) = pieces[n]
  BY <1>1, SplitPieces
<1> DEFINE good == {i \in 0 .. n : /\ cut[i] \in Views /\ Spans(cut[i], 0, i)
                                   /\ TextIn(buffer, cut[i]) = pieces[i]}
<1>4. 0 \in good
  <2>1. cut[0] \in Views /\ Len(cut[0]) = 1 /\ cut[0][1] = [from |-> 0, len |-> 0]
    BY <1>2 DEF Views, View
  <2>2. Spans(cut[0], 0, 0)
    BY <2>1 DEF Spans, behind
  <2>3. SubSeq(buffer, 0 + 1, 0) = <<>>
    BY SubSeqEmpty
  <2>4. TextIn(buffer, cut[0]) = [k \in 1 .. 1 |-> <<>>]
    BY <2>1, <2>3 DEF TextIn
  <2>5. << <<>> >> = [k \in 1 .. 1 |-> <<>>]
    OBVIOUS
  <2>6. pieces[0] = << <<>> >>
    BY <1>3 DEF PiecesOf
  <2> QED
    BY <2>1, <2>2, <2>4, <2>5, <2>6
<1>5. ASSUME NEW i \in 1 .. n, i - 1 \in good PROVE i \in good
  <2>1. /\ cut[i - 1] \in Views /\ Spans(cut[i - 1], 0, i - 1)
        /\ TextIn(buffer, cut[i - 1]) = pieces[i - 1]
        /\ cut[i] = TakeByte(cut[i - 1], i, D)
    BY <1>2, <1>5
  <2>2. i - 1 \in Nat /\ (i - 1) + 1 = i /\ i - 1 < Len(buffer)
        /\ (i - 1 \in D <=> buffer[i] = delimiter)
    BY <1>1
  <2>3. cut[i] \in Views /\ Spans(cut[i], 0, i)
    BY <2>1, <2>2, TakeByteSpans
  <2>4. TextIn(buffer, cut[i]) = SplitByte(pieces[i - 1], buffer[i])
    BY <2>1, <2>2, TextInTakeByte
  <2>5. pieces[i] = SplitByte(pieces[i - 1], buffer[i])
    BY <1>1, <1>3 DEF PiecesOf
  <2> QED
    BY <2>3, <2>4, <2>5
<1>6. n \in good
  <2> HIDE DEF good
  <2>1. 0 .. n \subseteq good
    BY <1>4, <1>5, IndexInduction
  <2> QED
    BY <2>1
<1> QED
  BY <1>2, <1>3, <1>6 DEF str

-----------------------------------------------------------------------------
(***************************************************************************)
(* The record so far and what the next chunk adds to it.                    *)
(***************************************************************************)
\* Nothing splits into one empty field.
LEMMA SplitEmpty == Split(<<>>) = << <<>> >>
<1>1. <<>> \in String /\ Len(<<>>) = 0
  BY EmptySeq DEF String
<1>2. PICK g : PiecesOf(g, <<>>) /\ Split(<<>>) = g[0]
  BY <1>1, SplitPieces
<1> QED
  BY <1>2 DEF PiecesOf

\* The pieces go on with the byte behind them.
LEMMA SplitGrows ==
  ASSUME NEW str \in String, NEW c \in Char
  PROVE  Split(Append(str, c)) = SplitByte(Split(str), c)
<1> DEFINE more == Append(str, c)
           n == Len(str)
<1>1. /\ more \in String /\ n \in Nat /\ Len(more) = n + 1
      /\ \A i \in 1 .. n : more[i] = str[i]
      /\ more[n + 1] = c
  BY AppendProperties, LenProperties DEF String
<1>2. PICK g : PiecesOf(g, str) /\ Split(str) = g[n]
  BY SplitPieces
<1>3. PICK h : PiecesOf(h, more) /\ Split(more) = h[n + 1]
  <2> HIDE DEF more, n
  <2> QED
    BY <1>1, SplitPieces
<1> HIDE DEF more
<1> DEFINE same == {i \in 0 .. n : g[i] = h[i]}
<1>4. /\ g[0] = h[0]
      /\ \A i \in 1 .. n : g[i] = SplitByte(g[i - 1], str[i])
      /\ \A i \in 1 .. n + 1 : h[i] = SplitByte(h[i - 1], more[i])
  BY <1>1, <1>2, <1>3 DEF PiecesOf
<1>5. 0 .. n \subseteq same
  <2>1. 0 \in same
    BY <1>1, <1>4
  <2>2. ASSUME NEW i \in 1 .. n, i - 1 \in same PROVE i \in same
    <3>1. i \in 1 .. n + 1 /\ more[i] = str[i]
      BY <1>1
    <3> QED
      BY <1>4, <2>2, <3>1
  <2> HIDE DEF same, n
  <2> QED
    BY <1>1, <2>1, <2>2, IndexInduction
<1>6. n \in 0 .. n /\ n + 1 \in 1 .. n + 1 /\ (n + 1) - 1 = n
  BY <1>1
<1>7. g[n] = h[n] /\ h[n + 1] = SplitByte(h[n], c)
  BY <1>1, <1>4, <1>5, <1>6
<1> QED
  BY <1>2, <1>3, <1>7 DEF more

\* The record so far and the pieces of the next chunk, as insert_fields puts them
\* together.
Merged(fs, pieces) ==
  IF fs = <<>> THEN pieces ELSE Extended(fs, pieces[1]) \o Tail(pieces)

\* Field by field.
LEMMA MergedAt ==
  ASSUME NEW fs \in Fields, NEW pieces \in Fields
  PROVE  LET merged == Merged(fs, pieces)
         IN  /\ merged \in Fields /\ Len(merged) = Len(fs) + Len(pieces) - 1
             /\ \A k \in 1 .. Len(merged) : merged[k] =
                  IF k < Len(fs) THEN fs[k]
                  ELSE IF k = Len(fs) THEN fs[k] \o pieces[1] ELSE pieces[k - Len(fs) + 1]
<1> DEFINE extended == Extended(fs, pieces[1])
           rest == Tail(pieces)
           merged == extended \o rest
           n == Len(fs)
           q == Len(pieces)
<1>1. /\ pieces \in Seq(String) /\ q \in Nat \ {0} /\ pieces[1] \in String /\ pieces # <<>>
      /\ n \in Nat \ {0} /\ fs # <<>>
  BY FieldsAreStrings DEF Fields
<1>2. /\ extended \in Seq(String) /\ Len(extended) = n
      /\ \A k \in 1 .. n : extended[k] = IF k = n THEN fs[k] \o pieces[1] ELSE fs[k]
  BY <1>1, ExtendedFields DEF Fields
<1>3. /\ rest \in Seq(String) /\ Len(rest) = q - 1
      /\ \A k \in 1 .. q - 1 : rest[k] = pieces[k + 1]
  BY <1>1, HeadTailProperties
<1>4. Merged(fs, pieces) = merged
  BY <1>1 DEF Merged
<1> HIDE DEF extended, rest, n, q
<1>5. /\ merged \in Seq(String) /\ Len(merged) = n + (q - 1)
      /\ \A k \in 1 .. n + (q - 1) :
           merged[k] = IF k <= n THEN extended[k] ELSE rest[k - n]
  <2>1. /\ extended \o rest \in Seq(String)
        /\ Len(extended \o rest) = Len(extended) + Len(rest)
        /\ \A k \in 1 .. Len(extended) + Len(rest) : (extended \o rest)[k] =
             IF k <= Len(extended) THEN extended[k] ELSE rest[k - Len(extended)]
    BY <1>2, <1>3, ConcatProperties
  <2> QED
    BY <1>2, <1>3, <2>1
<1>6. Len(merged) = n + q - 1 /\ Len(merged) \in Nat \ {0}
  BY <1>1, <1>5
<1> HIDE DEF merged
<1>7. merged \in Fields
  BY <1>5, <1>6, EmptySeq DEF Fields
<1>8. ASSUME NEW k \in 1 .. Len(merged)
      PROVE  merged[k] = IF k < n THEN fs[k]
                         ELSE IF k = n THEN fs[k] \o pieces[1] ELSE pieces[k - n + 1]
  <2>1. k \in 1 .. n + (q - 1)
    BY <1>5
  <2>2. CASE k <= n
    <3>1. k \in 1 .. n /\ merged[k] = extended[k]
      BY <1>1, <1>5, <2>1, <2>2
    <3>2. extended[k] = IF k = n THEN fs[k] \o pieces[1] ELSE fs[k]
      BY <1>2, <3>1
    <3> QED
      BY <1>1, <2>2, <3>1, <3>2
  <2>3. CASE k > n
    <3>1. k - n \in 1 .. q - 1 /\ merged[k] = rest[k - n]
      BY <1>1, <1>5, <2>1, <2>3
    <3>2. rest[k - n] = pieces[k - n + 1]
      BY <1>3, <3>1
    <3> QED
      BY <1>1, <2>3, <3>1, <3>2
  <2> QED
    BY <1>1, <2>1, <2>2, <2>3
<1> QED
  BY <1>4, <1>6, <1>7, <1>8 DEF n, q

\* One byte more of split(), piece by piece.
LEMMA SplitByteAt ==
  ASSUME NEW pieces \in Fields, NEW c \in Char
  PROVE  LET more == SplitByte(pieces, c)
             n == Len(pieces)
         IN  /\ more \in Fields /\ n \in Nat \ {0}
             /\ c = delimiter => /\ Len(more) = n + 1 /\ more[n + 1] = <<>>
                                 /\ \A k \in 1 .. n : more[k] = pieces[k]
             /\ c # delimiter => /\ Len(more) = n
                                 /\ \A k \in 1 .. n :
                                      more[k] = IF k = n THEN pieces[k] \o <<c>> ELSE pieces[k]
<1>1. pieces \in Seq(String) /\ Len(pieces) \in Nat \ {0}
  BY FieldsAreStrings
<1>2. <<>> \in String /\ <<c>> \in String
  <2>1. <<>> \in Seq(Char) /\ <<c>> \in Seq(Char)
    BY EmptySeq
  <2> QED
    BY <2>1 DEF String
<1>3. /\ SplitByte(pieces, c) \in Fields
      /\ c = delimiter => SplitByte(pieces, c) = Append(pieces, <<>>)
      /\ c # delimiter => SplitByte(pieces, c) = Extended(pieces, <<c>>)
  BY SplitByteFields
<1>4. CASE c = delimiter
  BY <1>1, <1>2, <1>3, <1>4, AppendProperties
<1>5. CASE c # delimiter
  <2> DEFINE one == <<c>>
             extended == Extended(pieces, one)
  <2>1. one \in String
    BY <1>2
  <2> HIDE DEF one
  <2>2. /\ Len(extended) = Len(pieces)
        /\ \A k \in 1 .. Len(pieces) :
             extended[k] = IF k = Len(pieces) THEN pieces[k] \o one ELSE pieces[k]
    BY <2>1, ExtendedFields
  <2>3. SplitByte(pieces, c) = extended
    BY <1>3, <1>5 DEF one
  <2> HIDE DEF extended
  <2> QED
    BY <1>1, <1>3, <1>5, <2>2, <2>3 DEF one
<1> QED
  BY <1>4, <1>5

\* It is the same to split a chunk on and to split the record on.
LEMMA MergedSplits ==
  ASSUME NEW fs \in Fields, NEW pieces \in Fields, NEW c \in Char
  PROVE  Merged(fs, SplitByte(pieces, c)) = SplitByte(Merged(fs, pieces), c)
<1> DEFINE more == SplitByte(pieces, c)
           merged == Merged(fs, pieces)
           left == Merged(fs, more)
           right == SplitByte(merged, c)
           n == Len(fs)
           q == Len(pieces)
           m == Len(merged)
<1>1. n \in Nat \ {0} /\ q \in Nat \ {0} /\ pieces[1] \in String /\ fs[n] \in String
      /\ n \in 1 .. n
  BY FieldsAreStrings
<1>2. /\ more \in Fields
      /\ c = delimiter => /\ Len(more) = q + 1 /\ more[q + 1] = <<>>
                          /\ \A k \in 1 .. q : more[k] = pieces[k]
      /\ c # delimiter => /\ Len(more) = q
                          /\ \A k \in 1 .. q :
                               more[k] = IF k = q THEN pieces[k] \o <<c>> ELSE pieces[k]
  BY SplitByteAt
<1>3. /\ merged \in Fields /\ m = n + q - 1
      /\ \A k \in 1 .. m : merged[k] =
           IF k < n THEN fs[k] ELSE IF k = n THEN fs[k] \o pieces[1] ELSE pieces[k - n + 1]
  BY MergedAt
<1> HIDE DEF more
<1>4. /\ left \in Fields /\ Len(left) = n + Len(more) - 1
      /\ \A k \in 1 .. Len(left) : left[k] =
           IF k < n THEN fs[k] ELSE IF k = n THEN fs[k] \o more[1] ELSE more[k - n + 1]
  BY <1>2, MergedAt
<1> HIDE DEF merged
<1>5. /\ right \in Fields
      /\ c = delimiter => /\ Len(right) = m + 1 /\ right[m + 1] = <<>>
                          /\ \A k \in 1 .. m : right[k] = merged[k]
      /\ c # delimiter => /\ Len(right) = m
                          /\ \A k \in 1 .. m :
                               right[k] = IF k = m THEN merged[k] \o <<c>> ELSE merged[k]
  BY <1>3, SplitByteAt
<1> HIDE DEF left, right, n, q, m
<1>6. left \in Seq(String) /\ right \in Seq(String) /\ m \in Nat /\ 1 \in 1 .. q /\ n <= m
  BY <1>1, <1>3, <1>4, <1>5 DEF Fields
<1>7. CASE c = delimiter
  <2>1. Len(left) = m + 1 /\ Len(right) = m + 1 /\ more[1] = pieces[1]
    <3>1. Len(more) = q + 1 /\ more[1] = pieces[1]
      BY <1>2, <1>6, <1>7
    <3>2. Len(left) = n + Len(more) - 1 /\ m = n + q - 1
      BY <1>3, <1>4
    <3> QED
      BY <1>1, <1>5, <1>7, <3>1, <3>2
  <2>2. ASSUME NEW k \in 1 .. m + 1 PROVE left[k] = right[k]
    <3>1. CASE k <= n
      <4>1. k \in 1 .. m /\ right[k] = merged[k] /\ ~(k > n)
        BY <1>1, <1>5, <1>6, <1>7, <3>1
      <4>2. merged[k] = IF k < n THEN fs[k] ELSE fs[k] \o pieces[1]
        BY <1>1, <1>3, <3>1, <4>1
      <4>3. left[k] = IF k < n THEN fs[k] ELSE fs[k] \o more[1]
        <5>1. k \in 1 .. Len(left) /\ (k < n \/ k = n)
          BY <1>1, <2>1, <3>1
        <5>2. left[k] = IF k < n THEN fs[k]
                        ELSE IF k = n THEN fs[k] \o more[1] ELSE more[k - n + 1]
          BY <1>4, <5>1
        <5> QED
          BY <5>1, <5>2
      <4> QED
        BY <2>1, <4>1, <4>2, <4>3
    <3>2. CASE k > n /\ k <= m
      <4>1. k \in 1 .. m /\ k - n + 1 \in 1 .. q /\ ~(k < n) /\ k # n
        BY <1>1, <1>3, <3>2
      <4>2. left[k] = more[k - n + 1] /\ right[k] = merged[k]
        BY <1>4, <1>5, <1>7, <2>1, <4>1
      <4>3. merged[k] = pieces[k - n + 1] /\ more[k - n + 1] = pieces[k - n + 1]
        BY <1>2, <1>3, <1>7, <4>1
      <4> QED
        BY <4>2, <4>3
    <3>3. CASE k = m + 1
      <4>1. k - n + 1 = q + 1 /\ ~(k < n) /\ k # n
        BY <1>1, <1>3, <1>6, <3>3
      <4>2. left[k] = more[k - n + 1] /\ right[k] = <<>>
        BY <1>4, <1>5, <1>7, <2>1, <3>3, <4>1
      <4> QED
        BY <1>2, <1>7, <4>1, <4>2
    <3>4. k <= n \/ (k > n /\ k <= m) \/ k = m + 1
      BY <1>1, <1>6
    <3> QED
      BY <3>1, <3>2, <3>3, <3>4
  <2>3. left = right
    BY <1>6, <2>1, <2>2, SeqEqual
  <2> QED
    BY <2>3 DEF left, right, more, merged
<1>8. CASE c # delimiter
  <2>1. Len(left) = m /\ Len(right) = m
    BY <1>2, <1>3, <1>4, <1>5, <1>8
  <2>2. ASSUME NEW k \in 1 .. m PROVE left[k] = right[k]
    <3>0. right[k] = IF k = m THEN merged[k] \o <<c>> ELSE merged[k]
      BY <1>5, <1>8
    <3>1. CASE k < n
      <4>1. left[k] = fs[k] /\ merged[k] = fs[k] /\ k # m
        BY <1>1, <1>3, <1>4, <1>6, <2>1, <3>1
      <4> QED
        BY <3>0, <4>1
    <3>2. CASE k = n
      <4>1. left[k] = fs[n] \o more[1] /\ merged[k] = fs[n] \o pieces[1]
        <5>1. k \in 1 .. Len(left) /\ ~(k < n)
          BY <1>1, <2>1, <3>2
        <5>2. left[k] = fs[k] \o more[1]
          BY <1>4, <3>2, <5>1
        <5>3. merged[k] = fs[k] \o pieces[1]
          BY <1>3, <3>2, <5>1
        <5> QED
          BY <3>2, <5>2, <5>3
      <4>2. k = m <=> q = 1
        BY <1>1, <1>3, <3>2
      <4>3. more[1] = IF q = 1 THEN pieces[1] \o <<c>> ELSE pieces[1]
        <5>1. 1 = q <=> q = 1
          OBVIOUS
        <5> QED
          BY <1>2, <1>6, <1>8, <5>1
      <4>4. (fs[n] \o pieces[1]) \o <<c>> = fs[n] \o (pieces[1] \o <<c>>)
        <5> DEFINE one == <<c>>
                   last == fs[n]
                   first == pieces[1]
        <5>1. one \in Seq(Char) /\ last \in Seq(Char) /\ first \in Seq(Char)
          BY <1>1 DEF String
        <5> HIDE DEF one, last, first
        <5>2. (last \o first) \o one = last \o (first \o one)
          BY <5>1, ConcatAssociative
        <5> QED
          BY <5>2 DEF one, last, first
      <4>5. CASE q = 1
        <5>1. right[k] = merged[k] \o <<c>> /\ more[1] = pieces[1] \o <<c>>
          BY <3>0, <4>2, <4>3, <4>5
        <5> QED
          BY <4>1, <4>4, <5>1
      <4>6. CASE q # 1
        <5>1. right[k] = merged[k] /\ more[1] = pieces[1]
          BY <3>0, <4>2, <4>3, <4>6
        <5> QED
          BY <4>1, <5>1
      <4> QED
        BY <4>5, <4>6
    <3>3. CASE k > n
      <4>1. k - n + 1 \in 1 .. q /\ ~(k < n) /\ k # n /\ (k - n + 1 = q <=> k = m)
        BY <1>1, <1>3, <3>3
      <4>2. left[k] = more[k - n + 1] /\ merged[k] = pieces[k - n + 1]
        BY <1>3, <1>4, <2>1, <4>1
      <4>3. more[k - n + 1] = IF k = m THEN pieces[k - n + 1] \o <<c>> ELSE pieces[k - n + 1]
        BY <1>2, <1>8, <4>1
      <4> QED
        BY <3>0, <4>2, <4>3
    <3>4. k < n \/ k = n \/ k > n
      BY <1>1
    <3> QED
      BY <3>1, <3>2, <3>3, <3>4
  <2>3. left = right
    BY <1>6, <2>1, <2>2, SeqEqual
  <2> QED
    BY <2>3 DEF left, right, more, merged
<1> QED
  BY <1>7, <1>8

\* Nothing more merges into nothing more.
LEMMA MergedNothing ==
  ASSUME NEW fs \in Seq(String)
  PROVE  Merged(fs, << <<>> >>) = IF fs = <<>> THEN << <<>> >> ELSE fs
<1> DEFINE none == << <<>> >>
<1>1. none \in Fields /\ Len(none) = 1 /\ none[1] = <<>>
  <2>1. <<>> \in String
    BY EmptySeq DEF String
  <2>2. << <<>> >> \in Seq(String) /\ << <<>> >> # <<>>
    BY <2>1
  <2> QED
    BY <2>2 DEF Fields
<1> HIDE DEF none
<1>2. CASE fs = <<>>
  BY <1>2 DEF Merged, none
<1>3. CASE fs # <<>>
  <2> DEFINE merged == Merged(fs, none)
  <2>1. fs \in Fields
    BY <1>3 DEF Fields
  <2>2. /\ merged \in Fields /\ Len(merged) = Len(fs) + Len(none) - 1
        /\ \A k \in 1 .. Len(merged) : merged[k] =
             IF k < Len(fs) THEN fs[k]
             ELSE IF k = Len(fs) THEN fs[k] \o none[1] ELSE none[k - Len(fs) + 1]
    BY <1>1, <2>1, MergedAt
  <2> HIDE DEF merged
  <2>3. merged \in Seq(String) /\ Len(fs) \in Nat /\ Len(merged) = Len(fs)
    BY <1>1, <2>2, LenProperties DEF Fields
  <2>4. ASSUME NEW k \in 1 .. Len(merged) PROVE merged[k] = fs[k]
    <3>1. fs[k] \in Seq(Char)
      BY <2>3, ElementOfSeq DEF String
    <3>2. fs[k] \o <<>> = fs[k]
      BY <3>1, ConcatEmptySeq
    <3>3. k < Len(fs) \/ k = Len(fs)
      BY <2>3
    <3> QED
      BY <1>1, <2>2, <3>2, <3>3
  <2>5. merged = fs
    BY <2>3, <2>4, SeqEqual
  <2> QED
    BY <1>3, <2>5 DEF merged, none
<1> QED
  BY <1>2, <1>3

\* The fields of the record being read.
LEMMA OpenFields ==
  ASSUME NEW s \in Passes
  PROVE  /\ Open(s) \in Fields /\ Len(Open(s)) = Len(s.fields) + 1
         /\ Len(s.fields) \in Nat
         /\ \A k \in 1 .. Len(s.fields) : Open(s)[k] = s.fields[k]
         /\ Open(s)[Len(s.fields) + 1] = s.text
         /\ Fresh(s) => Open(s) = << <<>> >>
<1>1. s.fields \in Seq(String) /\ s.text \in String /\ (s.mode = "start" => s.text = <<>>)
  BY PassAt
<1>2. Fresh(s) => Open(s) = << <<>> >>
  <2>1. <<>> \in Seq(String) /\ <<>> \in String
    BY EmptySeq DEF String
  <2>2. Append(<<>>, <<>>) = <<>> \o << <<>> >>
    BY <2>1, AppendIsConcat
  <2>3. << <<>> >> \in Seq(String)
    BY <2>1
  <2>4. <<>> \o << <<>> >> = << <<>> >>
    <3> DEFINE one == << <<>> >>
    <3>1. one \in Seq(String)
      BY <2>3
    <3> HIDE DEF one
    <3>2. <<>> \o one = one
      BY <3>1, ConcatEmptySeq
    <3> QED
      BY <3>2 DEF one
  <2> QED
    BY <1>1, <2>2, <2>4 DEF Fresh, Open
<1> QED
  BY <1>1, <1>2, AppendFields, AppendProperties, LenProperties DEF Open

\* A byte read is a byte split.
LEMMA OpenSplits ==
  ASSUME NEW s \in Passes, NEW c \in Char, NEW next \in Passes, ReadsByte(s, c, next),
         c # newline(config.line_ending)
  PROVE  Open(next) = SplitByte(Open(s), c)
<1> DEFINE open == Open(s)
           n == Len(s.fields)
           split == SplitByte(open, c)
<1>1. /\ open \in Fields /\ Len(open) = n + 1 /\ n \in Nat
      /\ \A k \in 1 .. n : open[k] = s.fields[k]
      /\ open[n + 1] = s.text
  BY OpenFields
<1>2. /\ split \in Fields
      /\ c = delimiter => split = Append(open, <<>>)
      /\ c # delimiter =>
           /\ Len(split) = n + 1
           /\ \A k \in 1 .. n + 1 : split[k] = IF k = n + 1 THEN open[k] \o <<c>> ELSE open[k]
  <2> HIDE DEF open, n
  <2>1. open \in Fields /\ Len(open) = n + 1
    BY <1>1
  <2> QED
    BY <2>1, SplitByteAt, SplitByteFields
<1>3. CASE c = delimiter
  <2>1. next.fields = Open(s) /\ next.text = <<>>
    BY <1>3 DEF ReadsByte
  <2> QED
    BY <1>2, <1>3, <2>1 DEF Open
<1>4. CASE c # delimiter
  <2>1. next.fields = s.fields /\ next.text = Append(s.text, c)
    BY <1>4 DEF ReadsByte
  <2> DEFINE more == Open(next)
  <2>2. /\ more \in Fields /\ Len(more) = n + 1
        /\ \A k \in 1 .. n : more[k] = s.fields[k]
        /\ more[n + 1] = Append(s.text, c)
    BY <2>1, OpenFields
  <2>3. Append(s.text, c) = s.text \o <<c>>
    BY PassAt, AppendIsConcat
  <2> HIDE DEF more, split, open, n
  <2>4. ASSUME NEW k \in 1 .. n + 1 PROVE more[k] = split[k]
    <3>1. CASE k = n + 1
      BY <1>1, <1>2, <1>4, <2>2, <2>3, <3>1
    <3>2. CASE k # n + 1
      <4>1. k \in 1 .. n
        BY <1>1, <3>2
      <4> QED
        BY <1>1, <1>2, <1>4, <2>2, <3>2, <4>1
    <3> QED
      BY <3>1, <3>2
  <2>5. more \in Seq(String) /\ split \in Seq(String)
    BY <1>2, <2>2 DEF Fields
  <2>6. more = split
    BY <1>2, <1>4, <2>2, <2>4, <2>5, SeqEqual
  <2> QED
    BY <2>6 DEF more, split, open
<1> QED
  BY <1>3, <1>4

\* The fields held are those of the record the pass is in.
Held(fs, s) == fs = IF Fresh(s) THEN <<>> ELSE Open(s)

\* A stretch without a newline, split and merged with what is held, is what the
\* pass has read of the record behind it.
LEMMA StretchSplits ==
  ASSUME ~config.has_quoting, file \in String, NEW t \in Nat, NEW n \in Nat,
         t + n <= Len(file),
         \A i \in t + 1 .. t + n : file[i] # newline(config.line_ending),
         NEW fs, Held(fs, At(t))
  PROVE  /\ Open(At(t + n)) = Merged(fs, Split(SubSeq(file, t + 1, t + n)))
         /\ At(t + n).records = At(t).records
         /\ At(t + n) \in Passes
<1> DEFINE upto(i) == SubSeq(file, t + 1, t + i)
           T == {i \in 0 .. n : /\ Open(At(t + i)) = Merged(fs, Split(upto(i)))
                                /\ At(t + i).records = At(t).records}
<1>1. file \in Seq(Char) /\ Len(file) \in Nat
  BY LenProperties DEF String
<1>2. t \in 0 .. Len(file) /\ At(t) \in Passes
  BY <1>1, AtBytes
<1>3. Open(At(t)) \in Fields /\ (Fresh(At(t)) => Open(At(t)) = << <<>> >>)
  BY <1>2, OpenFields
<1>4. /\ fs \in Seq(String)
      /\ fs # <<>> => fs \in Fields /\ fs = Open(At(t))
      /\ fs = <<>> => Open(At(t)) = << <<>> >>
  BY <1>3, EmptySeq DEF Held, Fields
<1>5. 0 \in T
  <2>1. upto(0) = <<>>
    BY <1>1, SubSeqEmpty
  <2>2. Merged(fs, << <<>> >>) = IF fs = <<>> THEN << <<>> >> ELSE fs
    BY <1>4, MergedNothing
  <2>3. At(t + 0) = At(t)
    <3>1. t + 0 = t
      OBVIOUS
    <3> QED
      BY <3>1
  <2>4. Open(At(t)) = Merged(fs, Split(upto(0)))
    <3>1. Merged(fs, << <<>> >>) = Open(At(t))
      <4> HIDE DEF upto
      <4>1. CASE fs = <<>>
        BY <1>4, <2>2, <4>1
      <4>2. CASE fs # <<>>
        BY <1>4, <2>2, <4>2
      <4> QED
        BY <4>1, <4>2
    <3>2. Split(upto(0)) = << <<>> >>
      BY <2>1, SplitEmpty
    <3> QED
      BY <3>1, <3>2
  <2>5. 0 \in 0 .. n
    OBVIOUS
  <2> QED
    BY <2>3, <2>4, <2>5
<1>6. ASSUME NEW i \in 1 .. n, i - 1 \in T PROVE i \in T
  <2> DEFINE j == t + (i - 1)
             str == upto(i - 1)
  <2>1. /\ j \in Nat /\ t <= j /\ j < Len(file) /\ j + 1 = t + i /\ t + i \in t + 1 .. t + n
        /\ j <= Len(file)
    BY <1>1
  <2>2. str \in String /\ upto(i) = Append(str, file[t + i])
    <3>1. SubSeq(file, t + 1, j) \in Seq(Char)
      <4> HIDE DEF j
      <4> QED
        BY <1>1, <2>1, StretchIsSeq
    <3>2. SubSeq(file, t + 1, j + 1) = Append(SubSeq(file, t + 1, j), file[j + 1])
      <4> HIDE DEF j
      <4> QED
        BY <1>1, <2>1, StretchGrows
    <3> QED
      BY <2>1, <3>1, <3>2 DEF String
  <2>3. /\ file[t + i] \in Char /\ At(j) \in Passes /\ At(t + i) \in Passes
        /\ ReadsByte(At(j), file[t + i], At(t + i))
    <3> HIDE DEF j
    <3>1. /\ file[j + 1] \in Char /\ At(j) \in Passes /\ At(j + 1) \in Passes
          /\ ReadsByte(At(j), file[j + 1], At(j + 1))
      BY <2>1, PlainStep
    <3> QED
      BY <2>1, <3>1
  <2>4. file[t + i] # newline(config.line_ending)
    BY <2>1
  <2>5. Open(At(t + i)) = SplitByte(Open(At(j)), file[t + i])
    BY <2>3, <2>4, OpenSplits
  <2>6. Open(At(j)) = Merged(fs, Split(str)) /\ At(j).records = At(t).records
    BY <1>6
  <2> HIDE DEF str, j
  <2>7. Split(upto(i)) = SplitByte(Split(str), file[t + i])
    BY <2>2, <2>3, SplitGrows
  <2>8. Merged(fs, Split(upto(i))) =
          SplitByte(Merged(fs, Split(str)), file[t + i])
    <3>1. Split(str) \in Fields
      BY <2>2, SplitIsFields
    <3>2. CASE fs = <<>>
      BY <2>7, <3>2 DEF Merged
    <3>3. CASE fs # <<>>
      BY <1>4, <2>3, <2>7, <3>1, <3>3, MergedSplits
    <3> QED
      BY <3>2, <3>3
  <2>9. At(t + i).records = At(t).records
    BY <2>3, <2>4, <2>6 DEF ReadsByte
  <2> QED
    BY <2>5, <2>6, <2>8, <2>9
<1>7. n \in T
  <2> HIDE DEF T
  <2>1. 0 .. n \subseteq T
    BY <1>5, <1>6, IndexInduction
  <2> QED
    BY <2>1
<1>8. At(t + n) \in Passes
  <2>1. t + n \in 0 .. Len(file)
    BY <1>1
  <2> QED
    BY <2>1, AtBytes
<1> QED
  BY <1>7, <1>8

\* A '\r' at the end of a field is not in the record the newline behind it ends.
LEMMA TrimmedAt ==
  ASSUME ~config.has_quoting, file \in String, crlf, NEW i \in Nat, i < Len(file),
         file[i + 1] = CR
  PROVE  /\ Open(At(i + 1)) = Append(At(i).fields, Append(At(i).text, CR))
         /\ At(i + 1).text # <<>>
         /\ Held(Row(At(i + 1)), At(i))
<1> DEFINE s == At(i)
           next == At(i + 1)
<1>1. /\ s \in Passes /\ Unquoted(s) /\ next \in Passes /\ ReadsByte(s, CR, next)
      /\ CR \in Char
  BY PlainStep
<1>2. EndsInCr(next)
  BY LastByte
<1> HIDE DEF s, next
<1>3. s.text \in Seq(Char) /\ s.text \in String
  BY <1>1, PassAt
<1>4. newline(config.line_ending) # CR /\ delimiter # CR
  BY CharAssumption DEF crlf, newline
<1>5. next.fields = s.fields /\ next.text = Append(s.text, CR)
  BY <1>1, <1>4 DEF ReadsByte
<1>6. /\ Append(s.text, CR) # <<>>
      /\ SubSeq(Append(s.text, CR), 1, Len(Append(s.text, CR)) - 1) = s.text
  BY <1>1, <1>3, FrontOfAppend
<1>7. Kept(next) = s.text
  BY <1>2, <1>5, <1>6 DEF Kept
<1>8. Open(next) = Append(s.fields, Append(s.text, CR)) /\ next.text # <<>>
  BY <1>5, <1>6 DEF Open
<1>9. Held(Row(next), s)
  <2>1. Fresh(s) <=> s.fields = <<>> /\ s.text = <<>>
    BY <1>1, PlainFresh
  <2> QED
    BY <1>5, <1>7, <2>1 DEF Held, Row, Open
<1> QED
  BY <1>8, <1>9 DEF s, next

\* The record a newline ends is what has been read of it, without a '\r' at its end.
LEMMA RowAt ==
  ASSUME ~config.has_quoting, file \in String, NEW i \in Nat, i < Len(file)
  PROVE  Held(Row(At(i)), IF crlf /\ i > 0 /\ file[i] = CR THEN At(i - 1) ELSE At(i))
<1>1. CASE crlf /\ i > 0 /\ file[i] = CR
  <2> DEFINE j == i - 1
  <2>1. j \in Nat /\ j < Len(file) /\ j + 1 = i /\ file[j + 1] = CR
    BY <1>1, LenProperties DEF String
  <2> HIDE DEF j
  <2>2. Held(Row(At(j + 1)), At(j))
    BY <1>1, <2>1, TrimmedAt
  <2>3. Held(Row(At(i)), At(j))
    BY <2>1, <2>2
  <2> QED
    BY <1>1, <2>3 DEF j
<1>2. CASE ~(crlf /\ i > 0 /\ file[i] = CR)
  <2>1. ~(crlf /\ EndsInCr(At(i)))
    <3>1. CASE i = 0
      BY <3>1, AtBytes DEF Start, EndsInCr
    <3>2. CASE i # 0
      <4> DEFINE j == i - 1
      <4>1. j \in Nat /\ j < Len(file) /\ j + 1 = i
        BY <3>2, LenProperties DEF String
      <4> HIDE DEF j
      <4>2. crlf => (EndsInCr(At(j + 1)) <=> file[j + 1] = CR)
        BY <4>1, LastByte
      <4> QED
        BY <1>2, <3>2, <4>1, <4>2
    <3> QED
      BY <3>1, <3>2
  <2>2. Kept(At(i)) = At(i).text
    BY <2>1 DEF Kept
  <2>3. Held(Row(At(i)), At(i))
    <3>1. Fresh(At(i)) <=> At(i).fields = <<>> /\ At(i).text = <<>>
      BY PlainAt, PlainFresh, LenProperties DEF String
    <3> QED
      BY <2>2, <3>1 DEF Held, Row, Open
  <2> QED
    BY <1>2, <2>3
<1> QED
  BY <1>1, <1>2

\* The pass stands in a record, or behind one, by the byte it has read last.
LEMMA FreshAt ==
  ASSUME ~config.has_quoting, file \in String, NEW i \in Nat, i <= Len(file)
  PROVE  Fresh(At(i)) <=> i = 0 \/ file[i] = newline(config.line_ending)
<1>1. CASE i = 0
  BY <1>1, AtBytes, StartPass
<1>2. CASE i # 0
  <2> DEFINE j == i - 1
  <2>1. j \in Nat /\ j < Len(file) /\ j + 1 = i
    BY <1>2, LenProperties DEF String
  <2> HIDE DEF j
  <2>2. Fresh(At(j + 1)) <=> file[j + 1] = newline(config.line_ending)
    BY <2>1, LastByte
  <2> QED
    BY <1>2, <2>1, <2>2
<1> QED
  BY <1>1, <1>2

\* The bytes of a stretch of the file.
LEMMA StretchBytes ==
  ASSUME file \in String, NEW t \in Nat, NEW n \in Nat, t + n <= Len(file)
  PROVE  LET buffer == SubSeq(file, t + 1, t + n)
         IN  /\ buffer \in String /\ Len(buffer) = n
             /\ \A i \in 1 .. n : buffer[i] = file[t + i]
             /\ \A q \in 0 .. n : SubSeq(buffer, 1, q) = SubSeq(file, t + 1, t + q)
<1> DEFINE e == t + n
           buffer == SubSeq(file, t + 1, e)
<1>1. file \in Seq(Char) /\ e \in Nat /\ t <= e /\ e <= Len(file) /\ e - t = n
      /\ Len(file) \in Nat
  BY LenProperties DEF String
<1> HIDE DEF e
<1>2. \A i \in 1 .. e - t : SubSeq(file, t + 1, e)[i] = file[t + i]
  BY <1>1, StretchAt
<1>3. buffer \in String /\ Len(buffer) = n
  BY <1>1, StretchIsSeq, StretchLen DEF String
<1>4. ASSUME NEW q \in 0 .. n PROVE SubSeq(buffer, 1, q) = SubSeq(file, t + 1, t + q)
  <2>1. SubSeq(SubSeq(file, t + 1, e), 0 + 1, q) = SubSeq(file, t + 0 + 1, t + q)
    <3>1. q \in Nat /\ 0 \in Nat /\ 0 <= q /\ q <= e - t
      BY <1>1
    <3> QED
      BY <1>1, <3>1, StretchOfStretch
  <2>2. t + 0 + 1 = t + 1 /\ 0 + 1 = 1
    OBVIOUS
  <2> QED
    BY <2>1, <2>2
<1> QED
  BY <1>1, <1>2, <1>3, <1>4 DEF e
=============================================================================
