------------------------- MODULE ReaderRecordsProofs -------------------------
(***************************************************************************)
(* The records a Reader completes are those of its file, and a ParseError  *)
(* is thrown for malformed files only: for every file, block size, vector  *)
(* width and alphabet, without quoting and with either quoting parser.     *)
(*                                                                         *)
(* The grammar's pass over the first i bytes of the file, At(i), is what   *)
(* the parser has to agree with: the records of At(i) are those completed  *)
(* when the reader has consumed i bytes, and when byte i is inside a       *)
(* record the fields and flags of the parser are the ones that pass has    *)
(* open.  So a chunk may end anywhere, but where Sensitive says.  Without  *)
(* quoting the two are compared a chunk at a time (by the last lemmas of   *)
(* ReaderProofs), between quotes a byte at a time.                         *)
(*                                                                         *)
(* The lenient parser decides twice what a quote means: when it looks for  *)
(* the end of a field, and when it copies the field.  The invariant says   *)
(* where the two may differ: only where no quote of the field is ahead.    *)
(***************************************************************************)
EXTENDS ReaderProofs

-----------------------------------------------------------------------------
(***************************************************************************)
(* The records completed so far.                                            *)
(***************************************************************************)
\* The parser holds nothing, and the bytes consumed end a record.
Nothing == fields = <<>> /\ ~pending_cr /\ ~in_quotes /\ ~pending_quote /\ ~incomplete_last_read

\* The records completed are those of the bytes consumed, which end a record.
Between == Fresh(At(Taken)) /\ parsed = At(Taken).records

\* next() has given the reader up; at the end of the file with all its records.
Done ==
  spent /\ (AtEnd => ~Rejected(config, file) /\ parsed = AllRecords(config, file))

\* Byte i is inside a record: the fields held are those the pass has open, and the
\* flags tell where it stands.
InRecord(i) ==
  LET s == At(i)
  IN  /\ ~Fresh(s) /\ s.mode # "bad" /\ fields = Left(s)
      /\ s.mode # "closed_cr" => incomplete_last_read
      /\ s.mode = "closed_cr" => crlf
      /\ crlf => (pending_cr <=> s.mode = "closed_cr" \/ (s.mode = "plain" /\ file[i] = CR))
      /\ config.has_quoting => /\ in_quotes <=> s.mode = "quoted"
                               /\ pending_quote <=> s.mode \in {"closed", "closed_cr"}

\* It is inside the record behind those completed.
Within(i) == InRecord(i) /\ parsed = At(i).records

\* The stream has failed: what is left of the block is all there will be.
Lost == ~config.mapped_buffer /\ bits # {} /\ "eofbit" \notin bits

\* At the top of the loop of next().
AtTop ==
  \/ Nothing /\ (Between \/ Done)
  \/ Within(Taken) /\ (start = size \/ (~config.mapped_buffer /\ Taken % N = 0))
  \/ Lost /\ start = size

\* The field being read lies partly in the fields: those before it, and its part.
Before == IF incomplete_last_read THEN SubSeq(fields, 1, Len(fields) - 1) ELSE fields
HeldText == IF incomplete_last_read THEN fields[Len(fields)] ELSE <<>>

\* Inside parse() of the strict parser, when the pass stands at s: the chunk is the
\* rest of the block and the next stretch of the file;
ShowsFile ==
  /\ chunk = SubSeq(file, Taken + 1, Taken + Len(chunk))
  /\ chunk # <<>> /\ start + Len(chunk) = size

\* the flags tell where the pass stands;
Standing(s) ==
  /\ s.mode \in {"start", "plain", "quoted"}
  /\ in_quotes <=> s.mode = "quoted"
  /\ ~pending_quote /\ (crlf => ~pending_cr)
  /\ parsed = s.records

\* the field read so far is its part in the fields and the copy of its part in the
\* chunk, and without literals that copy is the bytes themselves;
Copied(s) ==
  /\ Before = s.fields
  /\ HeldText \o Strict!Copy(Raw).text = s.text
  /\ literals = 0 => Strict!Copy(Raw).text = Raw
  /\ ~in_quotes => literals = 0

\* and where the field can have begun.
Progress(s) ==
  /\ IF consumed = 0
     THEN /\ Fresh(s) \/ Taken \in Cuts
          /\ ~(crlf /\ s.mode = "plain" /\ file[Taken] = CR)
     ELSE ~Fresh(s)
  /\ ~in_quotes /\ field_start < consumed => s.mode = "plain"
  /\ s.mode = "plain" /\ field_start = consumed => consumed = 0

Walking ==
  LET s == At(Taken + consumed)
  IN  ShowsFile /\ Standing(s) /\ Copied(s) /\ Progress(s)

\* The pass of the lenient add_field over raw, of which in_quoting tells whether the
\* field was already in quotes when the chunk began.
Opens(raw) == raw # <<>> /\ raw[1] = quote_char

Told(raw, in_quoting) ==
  FieldPass(IF Opens(raw) THEN Tail(raw) ELSE raw,
            IF in_quoting \/ Opens(raw) THEN "quoted" ELSE "plain")

Piece == Told(Raw, quoted_field)

\* Behind its first m bytes the chunk has no other quote of the field.
NoQuoteAhead(bytes, m) ==
  \A i \in m + 1 .. Len(bytes) :
    bytes[i] = quote_char =>
      \E k \in m + 1 .. i - 1 : bytes[k] \in {delimiter, newline(config.line_ending)}

\* Inside parse() of the lenient parser: the flags tell where the grammar's pass
\* stands, which is behind a quote only when no second one follows;
LenientStanding(s) ==
  /\ s.mode \in LenientModes
  /\ in_quotes <=> s.mode = "quoted"
  /\ ~pending_quote /\ (crlf => ~pending_cr)
  /\ parsed = s.records
  /\ s.mode = "closed" => consumed < Len(chunk) /\ chunk[consumed + 1] # quote_char

\* the field read so far is its part in the fields and what add_field would make
\* of its part in the chunk;
LenientCopied(s) == Before = s.fields /\ HeldText \o Piece.text = s.text

\* add_field takes the bytes behind it as the grammar does, or thinks itself in
\* quotes where it makes no difference; and where the field can have begun.
LenientProgress(s) ==
  /\ field_start < consumed =>
       \/ Piece.mode = s.mode
       \/ /\ Piece.mode = "quoted" /\ s.mode \in {"closed", "plain"}
          /\ NoQuoteAhead(chunk, consumed)
  /\ field_start = consumed /\ consumed = 0 =>
       /\ Fresh(s) \/ Taken \in Cuts
       /\ quoted_field <=> in_quotes
       /\ ~(crlf /\ s.mode = "plain" /\ file[Taken] = CR /\ chunk[1] = LF)
       /\ s.mode = "closed" => chunk[1] \notin {newline(config.line_ending), delimiter}
  /\ field_start = consumed /\ consumed # 0 =>
       \/ s.mode = "start" /\ ~quoted_field /\ ~Fresh(s)
       \/ /\ s.mode = "quoted" /\ quoted_field /\ consumed < Len(chunk)
          /\ chunk[consumed + 1] = quote_char => NoQuoteAhead(chunk, consumed + 1)

LenientWalking ==
  LET s == At(Taken + consumed)
  IN  ShowsFile /\ LenientStanding(s) /\ LenientCopied(s) /\ LenientProgress(s)

InChunk == IF config.parse_mode = "strict" THEN Walking ELSE LenientWalking

RecInv ==
  /\ Prefix(parsed, AllRecords(config, file))
  /\ status \in {"idle", "parsing", "need_more_data", "complete", "fail"}
  /\ outcome = "end" => Done
  /\ pc \in {"construct", "ready"} => Between \/ Done
  /\ pc = "next" /\ status = "idle" => AtTop
  /\ status = "parsing" => InChunk
  /\ status = "fail" => Rejected(config, file)
  /\ status = "need_more_data" => (Within(Taken + consumed) \/ Lost) /\ start + consumed = size
  /\ status = "complete" =>
       /\ start + consumed <= size
       /\ Fresh(At(Taken + consumed))
       /\ At(Taken + consumed).records = Append(parsed, fields)

\* What is known of the reader besides.
Known == SInv /\ DataInv /\ FeedInv /\ ~Sensitive

\* What the lemmas below use of it.
LEMMA KnownFacts ==
  ASSUME Known
  PROVE  /\ BytesInv /\ StreamInv /\ ParserInv /\ FieldInv /\ FeedInv
         /\ file \in String /\ Len(file) \in Nat
         /\ consumed \in Nat /\ parsed \in Seq(Seq(String)) /\ fields \in Seq(String)
         /\ Taken \in Nat /\ Taken <= Len(file)
         /\ start \in Nat /\ size \in Nat /\ start <= size
         /\ Taken + (size - start) <= Len(file)
         /\ config.parse_mode # "strict" => config.parse_mode = "lenient"
<1>1. BytesInv /\ StreamInv /\ ParserInv /\ FeedInv /\ FieldInv
  BY DEF Known, SInv, IInv, DataInv
<1>2. /\ consumed \in Nat /\ parsed \in Seq(Seq(String)) /\ fields \in Seq(String)
      /\ file \in String /\ Len(file) \in Nat
      /\ start \in Nat /\ size \in Nat /\ start <= size
  <2>1. file \in String /\ size \in Nat /\ start \in 0 .. size
    BY <1>1 DEF BytesInv
  <2> QED
    BY <2>1, LenProperties DEF Known, DataInv, FieldInv, ParserTypeOK, RowTypes, String
<1>3. Taken \in Nat /\ Taken + (size - start) <= Len(file)
  BY <1>1, ViewIsStretch
<1>4. config.parse_mode \in {"strict", "lenient"}
  BY <1>1 DEF FieldInv, ParserTypeOK, Config, ParseMode
<1> QED
  BY <1>1, <1>2, <1>3, <1>4

-----------------------------------------------------------------------------
(***************************************************************************)
(* The strict parser inside a chunk.                                        *)
(***************************************************************************)
\* A byte behind what is joined.
LEMMA ConcatAppend ==
  ASSUME NEW a \in Seq(Char), NEW b \in Seq(Char), NEW e \in Char
  PROVE  a \o Append(b, e) = Append(a \o b, e)
<1>1. <<e>> \in Seq(Char) /\ a \o b \in Seq(Char)
  BY ConcatProperties
<1>2. Append(b, e) = b \o <<e>> /\ Append(a \o b, e) = (a \o b) \o <<e>>
  BY <1>1, AppendIsConcat
<1>3. (a \o b) \o <<e>> = a \o (b \o <<e>>)
  BY <1>1, ConcatAssociative
<1> QED
  BY <1>2, <1>3

\* The fields with the last one taken off, and that one.
LEMMA HeldTypes ==
  ASSUME fields \in Seq(String), incomplete_last_read => fields # <<>>
  PROVE  /\ Before \in Seq(String) /\ HeldText \in String
         /\ incomplete_last_read => /\ fields \in Fields /\ fields = Append(Before, HeldText)
                                    /\ Len(Before) = Len(fields) - 1 /\ Len(Before) \in Nat
<1>1. CASE ~incomplete_last_read
  BY <1>1, EmptySeq DEF Before, HeldText, String
<1>2. CASE incomplete_last_read
  <2>1. PICK front \in Seq(String), piece \in String : fields = Append(front, piece)
    BY <1>2, SequenceEmptyOrAppend
  <2>2. /\ SubSeq(Append(front, piece), 1, Len(Append(front, piece)) - 1) = front
        /\ Append(front, piece)[Len(front) + 1] = piece
        /\ Len(Append(front, piece)) = Len(front) + 1 /\ Len(front) \in Nat
    BY FrontOfAppend
  <2>3. Before = front /\ HeldText = piece
    BY <1>2, <2>1, <2>2 DEF Before, HeldText
  <2>4. fields \in Fields
    BY <1>2 DEF Fields
  <2> QED
    BY <2>1, <2>2, <2>3, <2>4
<1> QED
  BY <1>1, <1>2

LEMMA HeldParts ==
  ASSUME incomplete_last_read, NEW front \in Seq(String), NEW piece \in String,
         fields = Append(front, piece)
  PROVE  Before = front /\ HeldText = piece
<1>1. /\ SubSeq(Append(front, piece), 1, Len(Append(front, piece)) - 1) = front
      /\ Append(front, piece)[Len(front) + 1] = piece
      /\ Len(Append(front, piece)) = Len(front) + 1 /\ Len(front) \in Nat
  BY FrontOfAppend
<1> QED
  BY <1>1 DEF Before, HeldText

\* add_field goes on with the field held, or begins one.
LEMMA JoinedIs ==
  ASSUME fields \in Seq(String), incomplete_last_read => fields # <<>>, NEW piece \in String
  PROVE  (IF incomplete_last_read THEN ExtendLast(fields, piece) ELSE Append(fields, piece))
           = Append(Before, HeldText \o piece)
<1>1. piece \in Seq(Char) /\ <<>> \o piece = piece
  BY ConcatEmptySeq DEF String
<1>2. CASE ~incomplete_last_read
  BY <1>1, <1>2 DEF Before, HeldText
<1>3. CASE incomplete_last_read
  <2> DEFINE extended == ExtendLast(fields, piece)
             text == HeldText \o piece
             joined == Append(Before, text)
  <2>1. /\ Before \in Seq(String) /\ HeldText \in String /\ fields \in Fields
        /\ fields = Append(Before, HeldText)
        /\ Len(Before) = Len(fields) - 1 /\ Len(Before) \in Nat
    BY <1>3, HeldTypes
  <2>2. /\ Len(fields) = Len(Before) + 1 /\ fields[Len(Before) + 1] = HeldText
        /\ \A k \in 1 .. Len(Before) : fields[k] = Before[k]
    BY <2>1, FrontOfAppend
  <2>3. text \in String
    BY <1>1, <2>1, ConcatProperties DEF String
  <2>4. /\ extended \in Fields /\ Len(extended) = Len(fields)
        /\ \A k \in 1 .. Len(fields) :
             extended[k] = IF k = Len(fields) THEN fields[k] \o piece ELSE fields[k]
    BY <2>1, ExtendLastFields
  <2> HIDE DEF text
  <2>5. /\ joined \in Seq(String) /\ Len(joined) = Len(Before) + 1
        /\ joined[Len(Before) + 1] = text
        /\ \A k \in 1 .. Len(Before) : joined[k] = Before[k]
    BY <2>1, <2>3, FrontOfAppend
  <2> HIDE DEF extended, joined
  <2>6. ASSUME NEW k \in 1 .. Len(extended) PROVE extended[k] = joined[k]
    <3>1. CASE k = Len(Before) + 1
      BY <2>1, <2>2, <2>4, <2>5, <3>1 DEF text
    <3>2. CASE k # Len(Before) + 1
      <4>1. k \in 1 .. Len(Before)
        BY <2>1, <2>2, <2>4, <3>2
      <4> QED
        BY <2>1, <2>2, <2>4, <2>5, <3>2, <4>1
    <3> QED
      BY <3>1, <3>2
  <2>7. extended \in Seq(String) /\ Len(extended) = Len(joined)
    BY <2>1, <2>2, <2>4, <2>5 DEF Fields
  <2>8. extended = joined
    BY <2>5, <2>6, <2>7, SeqEqual
  <2> QED
    BY <1>3, <2>8 DEF extended, joined, text
<1> QED
  BY <1>2, <1>3

\* Before a step of either parser, and what it leaves alone.
Walks ==
  Known /\ config.has_quoting /\ config.parse_mode = "strict" /\ status = "parsing" /\ Walking

Unquotes ==
  /\ Known /\ config.has_quoting /\ config.parse_mode = "lenient" /\ status = "parsing"
  /\ LenientWalking

Still == UNCHANGED buffer_vars /\ UNCHANGED reader_vars /\ config' = config

LEMMA WalkFacts ==
  ASSUME Walks \/ Unquotes
  PROVE  /\ Walks => config.parse_mode = "strict"
         /\ fields \in Seq(String) /\ parsed \in Seq(Seq(String))
         /\ incomplete_last_read => fields # <<>>
         /\ chunk \in String /\ chunk \in Seq(Char) /\ Len(chunk) \in Nat
         /\ consumed \in Nat /\ consumed <= Len(chunk)
         /\ field_start \in Nat /\ field_start <= consumed /\ literals \in Nat
         /\ quoted_field \in BOOLEAN
         /\ Taken \in Nat /\ Taken + Len(chunk) <= Len(file) /\ Len(file) \in Nat
         /\ file \in String /\ chunk # <<>>
         /\ start + Len(chunk) = size /\ start \in Nat /\ size \in Nat
         /\ Raw \in String /\ Raw \in Seq(Char)
         /\ Strict!Copy(Raw).text \in String
         /\ Before \in Seq(String) /\ HeldText \in String
<1>1. ShowsFile /\ Known /\ config.has_quoting /\ status = "parsing"
  BY DEF Walks, Walking, Unquotes, LenientWalking
<1>2. /\ fields \in Seq(String) /\ chunk \in String /\ consumed \in Nat /\ field_start \in Nat
      /\ literals \in Nat /\ consumed <= Len(chunk) /\ field_start <= consumed
      /\ quoted_field \in BOOLEAN
      /\ pending_quote \/ incomplete_last_read => fields # <<>>
  BY <1>1, KnownFacts DEF FieldInv, ParserTypeOK, OpenFieldInv, CursorInv
<1>3. /\ Taken \in Nat /\ start \in Nat /\ size \in Nat /\ start <= size
      /\ Taken + (size - start) <= Len(file) /\ Len(file) \in Nat /\ file \in String
      /\ parsed \in Seq(Seq(String))
  BY <1>1, KnownFacts
<1>4. /\ start + Len(chunk) = size /\ Len(chunk) \in Nat /\ chunk \in Seq(Char)
      /\ chunk # <<>>
  BY <1>1, <1>2, LenProperties DEF ShowsFile, String
<1>5. Raw \in String
  BY <1>2, <1>4, StretchIsSeq DEF Raw, String
<1>6. Strict!Copy(Raw) \in Copies
  <2>1. delimiter \in Char
    BY DEF Char
  <2> QED
    BY <1>5, <2>1, StrictCopyGrows
<1>7. Before \in Seq(String) /\ HeldText \in String
  BY <1>2, HeldTypes
<1> QED
  BY <1>1, <1>2, <1>3, <1>4, <1>5, <1>6, <1>7 DEF Walks, Copies, String

LEMMA WalkNumbers ==
  ASSUME Walks \/ Unquotes
  PROVE  /\ Len(chunk) \in Nat /\ consumed \in Nat /\ consumed <= Len(chunk)
         /\ field_start \in Nat /\ field_start <= consumed /\ literals \in Nat
         /\ Taken \in Nat /\ Taken + Len(chunk) <= Len(file) /\ Len(file) \in Nat
         /\ start + Len(chunk) = size /\ start \in Nat /\ size \in Nat
BY WalkFacts

\* The bytes of the chunk are those of the file.
LEMMA ChunkByte ==
  ASSUME Walks \/ Unquotes, NEW m \in Nat, m < Len(chunk)
  PROVE  /\ chunk[m + 1] \in Char /\ chunk[m + 1] = file[Taken + m + 1]
         /\ Taken + m \in Nat /\ Taken + m < Len(file) /\ Taken + m + 1 = Taken + (m + 1)
         /\ At(Taken + m) \in Passes /\ At(Taken + (m + 1)) \in Passes
         /\ At(Taken + (m + 1)) = ReadByte(config, At(Taken + m), chunk[m + 1])
         /\ Taken + m \in 0 .. Len(file) /\ Taken + (m + 1) \in 0 .. Len(file)
<1> DEFINE n == Len(chunk)
           i == Taken + m
<1>1. /\ chunk \in Seq(Char) /\ n \in Nat /\ Taken \in Nat /\ Taken + n <= Len(file)
      /\ Len(file) \in Nat /\ file \in String /\ file \in Seq(Char)
  BY WalkFacts DEF String
<1>2. i \in Nat /\ i < Len(file) /\ m + 1 \in 1 .. n /\ i + 1 = Taken + (m + 1)
  BY <1>1
<1>3. chunk[m + 1] = file[i + 1]
  <2> DEFINE e == Taken + n
  <2>1. chunk = SubSeq(file, Taken + 1, e)
    BY DEF Walks, Walking, Unquotes, LenientWalking, ShowsFile
  <2>2. e \in Nat /\ e <= Len(file) /\ m + 1 \in 1 .. e - Taken
    BY <1>1, <1>2
  <2> HIDE DEF e, n
  <2>3. SubSeq(file, Taken + 1, e)[m + 1] = file[Taken + (m + 1)]
    BY <1>1, <2>2, StretchAt
  <2> QED
    BY <1>2, <2>1, <2>3
<1> HIDE DEF i
<1>4. /\ file[i + 1] \in Char /\ At(i) \in Passes /\ At(i + 1) \in Passes
      /\ At(i + 1) = ReadByte(config, At(i), file[i + 1])
  BY <1>1, <1>2, AtStep
<1>5. i \in 0 .. Len(file) /\ i + 1 \in 0 .. Len(file)
  BY <1>1, <1>2
<1> QED
  BY <1>2, <1>3, <1>4, <1>5 DEF i

\* What add_field(end) makes of the fields.
LEMMA WithFieldIs ==
  ASSUME Walks, NEW end \in Nat, end <= Len(chunk)
  PROVE  LET piece == Strict!Unescaped(SubSeq(chunk, field_start + 1, end))
         IN  /\ Strict!WithField(end) = Append(Before, HeldText \o piece)
             /\ piece \in String
<1> DEFINE raw == SubSeq(chunk, field_start + 1, end)
           piece == Strict!Unescaped(raw)
<1>1. raw \in String
  BY WalkFacts, StretchIsSeq DEF String
<1>2. Strict!WithField(end) = IF incomplete_last_read THEN ExtendLast(fields, piece)
                                                      ELSE Append(fields, piece)
  BY DEF Strict!WithField, Strict!ExtendLast, ExtendLast
<1> HIDE DEF raw
<1>3. piece \in String
  BY <1>1, UnescapedIsString
<1> HIDE DEF piece
<1>4. (IF incomplete_last_read THEN ExtendLast(fields, piece) ELSE Append(fields, piece))
        = Append(Before, HeldText \o piece)
  BY <1>3, WalkFacts, JoinedIs
<1> QED
  BY <1>2, <1>3, <1>4 DEF piece, raw

\* The field up to the cursor is the one the pass has open.
LEMMA WithFieldIsOpen ==
  ASSUME Walks, NEW s, Copied(s)
  PROVE  Strict!WithField(consumed) = Open(s)
<1>1. Strict!WithField(consumed) = Append(Before, HeldText \o Strict!Unescaped(Raw))
  BY WalkFacts, WithFieldIs DEF Raw
<1>2. Strict!Unescaped(Raw) = Strict!Copy(Raw).text
  BY DEF Copied, Strict!Unescaped
<1> QED
  BY <1>1, <1>2 DEF Copied, Open

-----------------------------------------------------------------------------
\* The copy of the field goes on.
\* A byte that is no quote.
LEMMA CopiedMore ==
  ASSUME Walks, NEW s, Copied(s), consumed < Len(chunk), NEW next,
         chunk[consumed + 1] # quote_char,
         next.fields = s.fields, next.text = Append(s.text, chunk[consumed + 1]),
         consumed' = consumed + 1,
         UNCHANGED <<fields, incomplete_last_read, chunk, field_start, literals, in_quotes>>
  PROVE  Copied(next)'
<1> DEFINE c == chunk[consumed + 1]
           raw == Raw
           more == Append(raw, c)
<1>1. /\ c \in Char /\ raw \in String /\ raw \in Seq(Char)
      /\ SubSeq(chunk, field_start + 1, consumed + 1) = more
  BY WalkFacts, RawGrows, KnownFacts DEF Walks
<1>2. Raw' = more /\ Before' = Before /\ HeldText' = HeldText
  BY <1>1 DEF Raw, Before, HeldText
<1>3. Strict!Copy(more) = Strict!CopyByte(Strict!Copy(raw), c) /\ Strict!Copy(raw) \in Copies
  BY <1>1, StrictCopyGrows
<1>4. Strict!Copy(more).text = Append(Strict!Copy(raw).text, c)
  BY <1>3 DEF Strict!CopyByte, Strict!is_quote
<1>5. HeldText \o Append(Strict!Copy(raw).text, c) = Append(HeldText \o Strict!Copy(raw).text, c)
  <2>1. HeldText \in Seq(Char) /\ Strict!Copy(raw).text \in Seq(Char)
    BY WalkFacts DEF String
  <2> HIDE DEF c
  <2> QED
    BY <1>1, <2>1, ConcatAppend
<1>6. /\ Before = s.fields
      /\ HeldText \o Strict!Copy(raw).text = s.text
      /\ literals = 0 => Strict!Copy(raw).text = raw
      /\ ~in_quotes => literals = 0
  BY DEF Copied
<1>7. Strict!Copy(Raw)' = Strict!Copy(more)
  BY <1>2 DEF Strict!Copy, Strict!CopyByte, Strict!is_quote
<1> HIDE DEF raw, more
<1>8. (literals = 0)' => Strict!Copy(more).text = more
  BY <1>4, <1>6 DEF more
<1> QED
  BY <1>2, <1>4, <1>5, <1>6, <1>7, <1>8 DEF Copied

\* Of two quotes one is left out.
LEMMA CopyPair ==
  ASSUME NEW copy \in Copies
  PROVE  Strict!CopyByte(Strict!CopyByte(copy, quote_char), quote_char).text
           = Append(copy.text, quote_char)
<1>1. CASE copy.pair
  <2>1. Strict!CopyByte(copy, quote_char) = [text |-> copy.text, pair |-> FALSE]
    BY <1>1 DEF Strict!CopyByte, Strict!is_quote
  <2> QED
    BY <2>1 DEF Strict!CopyByte
<1>2. CASE ~copy.pair
  <2>1. Strict!CopyByte(copy, quote_char) = [text |-> Append(copy.text, quote_char), pair |-> TRUE]
    BY <1>2 DEF Strict!CopyByte, Strict!is_quote
  <2> QED
    BY <2>1 DEF Strict!CopyByte, Strict!is_quote
<1> QED
  BY <1>1, <1>2

\* A pair of quotes, the first of which may be the second of a run.
LEMMA CopiedQuote ==
  ASSUME Walks, NEW s, Copied(s), consumed + 1 < Len(chunk), in_quotes,
         chunk[consumed + 1] = quote_char, chunk[consumed + 2] = quote_char, NEW next,
         next.fields = s.fields, next.text = Append(s.text, quote_char),
         consumed' = consumed + 2, literals' = literals + 1,
         UNCHANGED <<fields, incomplete_last_read, chunk, field_start, in_quotes>>
  PROVE  Copied(next)'
<1> DEFINE q == quote_char
           raw == Raw
           first == Append(raw, q)
           more == Append(first, q)
           copy == Strict!Copy(raw)
<1>0. /\ chunk \in Seq(Char) /\ field_start \in Nat /\ consumed \in Nat
      /\ field_start <= consumed /\ Len(chunk) \in Nat /\ literals \in Nat
  BY WalkFacts
<1>1. /\ raw \in String /\ raw \in Seq(Char) /\ q \in Char
      /\ SubSeq(chunk, field_start + 1, consumed + 1) = first
      /\ first \in String /\ first \in Seq(Char)
  <2>1. consumed < Len(chunk)
    BY WalkFacts
  <2>2. SubSeq(chunk, field_start + 1, consumed + 1) \in String
    BY <2>1, RawGrows, KnownFacts DEF Walks
  <2>3. /\ raw \in String
        /\ SubSeq(chunk, field_start + 1, consumed + 1) = Append(raw, chunk[consumed + 1])
    BY <2>1, RawGrows, KnownFacts DEF Walks
  <2>4. q \in Char
    BY DEF Char
  <2>5. SubSeq(chunk, field_start + 1, consumed + 1) = first
    BY <2>3
  <2> HIDE DEF raw, first, q
  <2> QED
    BY <2>2, <2>3, <2>4, <2>5 DEF String
<1>2. SubSeq(chunk, field_start + 1, consumed + 2) = more
  <2> DEFINE b == consumed + 1
  <2>1. /\ chunk \in Seq(Char) /\ field_start \in Nat /\ b \in Nat /\ field_start <= b
        /\ b < Len(chunk) /\ b + 1 = consumed + 2
    BY <1>0
  <2>2. SubSeq(chunk, field_start + 1, b) = first
    BY <1>1
  <2> HIDE DEF b, first, more
  <2>3. SubSeq(chunk, field_start + 1, b + 1)
          = Append(SubSeq(chunk, field_start + 1, b), chunk[b + 1])
    BY <2>1, StretchGrows
  <2> QED
    BY <2>1, <2>2, <2>3 DEF more
<1>3. Raw' = more /\ Before' = Before /\ HeldText' = HeldText
  BY <1>2 DEF Raw, Before, HeldText
<1>4. /\ copy \in Copies
      /\ Strict!Copy(first) = Strict!CopyByte(copy, q)
      /\ Strict!Copy(more) = Strict!CopyByte(Strict!CopyByte(copy, q), q)
  <2> HIDE DEF first, raw
  <2>1. Strict!Copy(Append(raw, q)) = Strict!CopyByte(Strict!Copy(raw), q)
        /\ Strict!Copy(raw) \in Copies
    BY <1>1, StrictCopyGrows
  <2>2. Strict!Copy(Append(first, q)) = Strict!CopyByte(Strict!Copy(first), q)
    BY <1>1, StrictCopyGrows
  <2> QED
    BY <2>1, <2>2 DEF first
<1>5. Strict!Copy(more).text = Append(copy.text, q)
  <2> HIDE DEF more, first, raw, copy
  <2> QED
    BY <1>4, CopyPair
<1>6. HeldText \o Append(copy.text, q) = Append(HeldText \o copy.text, q)
  <2>1. HeldText \in Seq(Char) /\ copy.text \in Seq(Char)
    BY WalkFacts DEF String
  <2> HIDE DEF copy, q
  <2> QED
    BY <1>1, <2>1, ConcatAppend
<1>7. Before = s.fields /\ HeldText \o copy.text = s.text
  BY DEF Copied
<1>8. Strict!Copy(Raw)' = Strict!Copy(more)
  BY <1>3 DEF Strict!Copy, Strict!CopyByte, Strict!is_quote
<1>9. literals' # 0 /\ in_quotes'
  BY <1>0
<1> HIDE DEF raw, more, first, copy
<1> QED
  BY <1>3, <1>5, <1>6, <1>7, <1>8, <1>9 DEF Copied

LEMMA EmptyStretch == ASSUME NEW s, NEW a \in Nat PROVE SubSeq(s, a + 1, a) = <<>>
BY SubSeqEmpty

\* Nothing of the field has been read: what is held goes on as it is.
LEMMA CopiedNone ==
  ASSUME NEW next, fields' \in Seq(String), incomplete_last_read' => fields' # <<>>,
         Before' = next.fields, HeldText' = next.text, HeldText' \in String,
         chunk' \in Seq(Char), field_start' = consumed', consumed' \in Nat, literals' = 0
  PROVE  Copied(next)'
<1>1. Raw' = <<>>
  <2>1. SubSeq(chunk', consumed' + 1, consumed') = <<>>
    BY EmptyStretch
  <2> QED
    BY <2>1 DEF Raw
<1>2. Strict!Copy(Raw)' = Strict!Copy(<<>>)
  BY <1>1 DEF Strict!Copy, Strict!CopyByte, Strict!is_quote
<1>3. Strict!Copy(<<>>).text = <<>>
  BY StrictCopyEmpty DEF NoCopy
<1>4. HeldText' \o <<>> = HeldText'
  BY ConcatEmptySeq DEF String
<1> QED
  BY <1>1, <1>2, <1>3, <1>4 DEF Copied

-----------------------------------------------------------------------------
\* What parse() does next, seen from the reader.
Answers ==
  \/ status' = "parsing" /\ InChunk'
  \/ /\ status' = "complete" /\ start + consumed' <= size
     /\ Fresh(At(Taken + consumed'))
     /\ At(Taken + consumed').records = Append(parsed, fields')
  \/ status' = "fail" /\ Rejected(config, file)
  \/ status' = "need_more_data" /\ (Within(Taken + consumed) \/ Lost)' /\ start + consumed' = size

\* The pass at the cursor, and the byte it reads next.
LEMMA WalkStep ==
  ASSUME Walks, consumed < Len(chunk)
  PROVE  LET s == At(Taken + consumed)
             c == chunk[consumed + 1]
             next == At(Taken + (consumed + 1))
         IN  /\ s \in Passes /\ c \in Char /\ next \in Passes /\ next = ReadByte(config, s, c)
             /\ Standing(s) /\ Copied(s) /\ Progress(s)
             /\ c = file[Taken + consumed + 1]
             /\ Taken + (consumed + 1) \in 0 .. Len(file)
BY ChunkByte, WalkFacts DEF Walks, Walking

\* The reader and its buffer stand still.
LEMMA StillFacts ==
  ASSUME Still
  PROVE  /\ Taken' = Taken
         /\ UNCHANGED <<file, start, size, parsed, config, pc, outcome, failed, bits>>
         /\ \A i : At(i)' = At(i)
         /\ crlf' = crlf
<1>1. Taken' = Taken /\ UNCHANGED <<file, start, size>>
  BY FeedUnchanged DEF Still
<1>2. UNCHANGED <<parsed, config, pc, outcome, failed, bits>>
  BY DEF Still, reader_vars, row_vars, buffer_vars
<1>3. ASSUME NEW i PROVE At(i)' = At(i)
  BY <1>1, <1>2 DEF At
<1> QED
  BY <1>1, <1>2, <1>3 DEF crlf

\* What strict mode rejects is rejected for good.
LEMMA Fails ==
  ASSUME Known, NEW i \in 0 .. Len(file), At(i).mode = "bad", status' = "fail"
  PROVE  Answers
<1>1. Rejected(config, file)
  BY KnownFacts, RejectedFrom
<1> QED
  BY <1>1 DEF Answers

\* A record is complete when the pass has made it one.
LEMMA Completes ==
  ASSUME Walks \/ Unquotes, Still, NEW m \in Nat, m <= Len(chunk), consumed' = m,
         status' = "complete",
         NEW row, At(Taken + m) = Pass(Append(parsed, row), <<>>, <<>>, "start"),
         fields' = row
  PROVE  Answers
<1>1. Fresh(At(Taken + m)) /\ At(Taken + m).records = Append(parsed, row)
  BY DEF Fresh, Pass
<1>2. start + m <= size
  BY WalkFacts
<1> QED
  BY <1>1, <1>2 DEF Answers

\* The field without the '\r' before the newline.
LEMMA WithFieldKept ==
  ASSUME Walks, crlf, NEW s \in Passes, Copied(s), ~in_quotes, EndsInCr(s),
         field_start < consumed, chunk[consumed] = CR
  PROVE  Strict!WithField(consumed - 1) = Append(s.fields, Kept(s))
<1> DEFINE b == consumed - 1
           front == SubSeq(chunk, field_start + 1, b)
           text == HeldText \o front
<1>1. /\ chunk \in Seq(Char) /\ field_start \in Nat /\ b \in Nat /\ field_start <= b
      /\ b < Len(chunk) /\ b + 1 = consumed /\ b <= Len(chunk) /\ CR \in Char
  <2>1. /\ chunk \in Seq(Char) /\ Len(chunk) \in Nat
        /\ consumed \in Nat /\ consumed <= Len(chunk) /\ field_start \in Nat
    BY WalkFacts
  <2>2. /\ b \in Nat /\ field_start <= b
        /\ b < Len(chunk) /\ b + 1 = consumed /\ b <= Len(chunk)
    BY <2>1
  <2>3. CR \in Char
    BY DEF Char
  <2> QED
    BY <2>1, <2>2, <2>3
<1>2. front \in Seq(Char) /\ Raw = Append(front, CR)
  <2> HIDE DEF b
  <2>1. SubSeq(chunk, field_start + 1, b + 1) = Append(front, chunk[b + 1]) /\ front \in Seq(Char)
    BY <1>1, StretchGrows, StretchIsSeq
  <2> QED
    BY <1>1, <2>1 DEF Raw
<1>3. literals = 0 /\ Before = s.fields /\ HeldText \o Strict!Copy(Raw).text = s.text
      /\ Strict!Copy(Raw).text = Raw
  BY DEF Copied
<1>4. Strict!WithField(b) = Append(Before, text)
  <2> HIDE DEF b
  <2>1. Strict!WithField(b) = Append(Before, HeldText \o Strict!Unescaped(front))
    BY <1>1, WithFieldIs
  <2>2. Strict!Unescaped(front) = front
    BY <1>3 DEF Strict!Unescaped
  <2> QED
    BY <2>1, <2>2
<1>5. HeldText \in Seq(Char)
  BY WalkFacts DEF String
<1> HIDE DEF front
<1>6. text \in Seq(Char) /\ HeldText \o Append(front, CR) = Append(text, CR)
  BY <1>1, <1>2, <1>5, ConcatAppend, ConcatProperties
<1>7. s.text = Append(text, CR)
  BY <1>2, <1>3, <1>6
<1> HIDE DEF text
<1>8. SubSeq(s.text, 1, Len(s.text) - 1) = text
  BY <1>1, <1>6, <1>7, FrontOfAppend
<1> QED
  BY <1>3, <1>4, <1>8 DEF Kept

\* The byte before the cursor.
LEMMA ByteBefore ==
  ASSUME Walks \/ Unquotes, consumed # 0
  PROVE  /\ chunk[consumed] = file[Taken + consumed]
         /\ chunk[consumed] \notin {delimiter, quote_char} => field_start < consumed
         /\ Taken + consumed \in Nat /\ Taken + consumed # 0 /\ Taken + consumed <= Len(file)
<1> DEFINE b == consumed - 1
<1>1. b \in Nat /\ b < Len(chunk) /\ b + 1 = consumed
  BY WalkFacts
<1>2. chunk[consumed] = file[Taken + consumed]
  <2> HIDE DEF b
  <2>1. chunk[b + 1] = file[Taken + b + 1] /\ Taken + b + 1 = Taken + (b + 1)
    BY <1>1, ChunkByte
  <2> QED
    BY <1>1, <2>1
<1>3. field_start # 0 => chunk[field_start] \in {delimiter, quote_char}
  BY KnownFacts DEF Walks, Unquotes, FieldInv, CursorInv
<1>4. /\ consumed \in Nat /\ Taken \in Nat /\ field_start \in Nat /\ field_start <= consumed
      /\ consumed <= Len(chunk) /\ Taken + Len(chunk) <= Len(file)
      /\ Len(chunk) \in Nat /\ Len(file) \in Nat
  BY WalkNumbers
<1> QED
  BY <1>1, <1>2, <1>3, <1>4

\* A newline outside quotes.
LEMMA NewlineAnswers ==
  ASSUME Walks, Still, Strict!NewlineEndsRecord \/ Strict!BareNewlineFails
  PROVE  Answers
<1> DEFINE s == At(Taken + consumed)
           c == chunk[consumed + 1]
           next == At(Taken + (consumed + 1))
           nl == newline(config.line_ending)
<1>1. /\ consumed < Len(chunk) /\ ~in_quotes /\ c = nl /\ consumed' = consumed + 1
  BY DEF Strict!NewlineEndsRecord, Strict!BareNewlineFails, Strict!OnByte, Strict!is_newline,
     Strict!at, Strict!Advance, Strict!newline, newline
<1>2. /\ s \in Passes /\ c \in Char /\ next = ReadByte(config, s, c)
      /\ Standing(s) /\ Copied(s) /\ Progress(s)
      /\ Taken + (consumed + 1) \in 0 .. Len(file)
  BY <1>1, WalkStep
<1>3. /\ consumed \in Nat /\ Taken \in Nat /\ Taken + consumed \in Nat
      /\ Taken + consumed <= Len(file) /\ file \in String /\ consumed + 1 <= Len(chunk)
  <2>1. file \in String
    BY WalkFacts
  <2> QED
    BY <1>1, <2>1, WalkNumbers
<1>4. s.mode \in {"start", "plain"} /\ s.records = parsed
  BY <1>1, <1>2 DEF Standing
<1>5. crlf => /\ EndsInCr(s) <=> Taken + consumed # 0 /\ file[Taken + consumed] = CR
              /\ EndsInCr(s) => s.mode = "plain"
  BY <1>3, <1>4, EndsAt DEF EndsInCr
<1>6. IF Refused(s) THEN next.mode = "bad"
      ELSE next = Pass(Append(parsed, Row(s)), <<>>, <<>>, "start")
  <2> HIDE DEF s, c, next
  <2> QED
    BY <1>1, <1>2, <1>4, QuotingByte DEF Walks
<1>7. CASE Strict!NewlineEndsRecord
  <2>1. /\ crlf => consumed > 0 /\ chunk[consumed] = CR
        /\ fields' = Strict!WithField(IF crlf THEN consumed - 1 ELSE consumed)
        /\ status' = "complete"
    BY <1>3, <1>7 DEF Strict!NewlineEndsRecord, Strict!PrecededByCr, Strict!crlf, crlf, Strict!at,
       Strict!Return
  <2>2. crlf => /\ chunk[consumed] = file[Taken + consumed] /\ field_start < consumed
                /\ Taken + consumed # 0
    BY <1>3, <2>1, ByteBefore, CharAssumption
  <2>3. crlf => EndsInCr(s)
    BY <1>5, <2>1, <2>2
  <2>4. ~Refused(s)
    BY <2>3 DEF Refused
  <2>5. fields' = Row(s)
    <3> HIDE DEF s
    <3>1. CASE crlf
      BY <1>1, <1>2, <2>1, <2>2, <2>3, <3>1, WithFieldKept, QuotingRow DEF Walks
    <3>2. CASE ~crlf
      BY <1>2, <2>1, <3>2, WithFieldIsOpen, QuotingRow DEF Walks
    <3> QED
      BY <3>1, <3>2
  <2> DEFINE m == consumed + 1
  <2>6. m \in Nat /\ m <= Len(chunk) /\ consumed' = m
    BY <1>1, <1>3
  <2> HIDE DEF s, m
  <2> QED
    BY <1>6, <2>1, <2>4, <2>5, <2>6, Completes DEF m
<1>8. CASE Strict!BareNewlineFails
  <2>1. crlf /\ ~(consumed > 0 /\ chunk[consumed] = CR) /\ status' = "fail"
    BY <1>3, <1>8 DEF Strict!BareNewlineFails, Strict!PrecededByCr, Strict!crlf, crlf, Strict!at,
       Strict!Return
  <2>2. ~EndsInCr(s)
    <3>1. CASE consumed = 0
      <4>1. ~(crlf /\ s.mode = "plain" /\ file[Taken] = CR) /\ Taken + consumed = Taken
        BY <1>2, <1>3, <3>1 DEF Progress
      <4> QED
        BY <1>5, <2>1, <4>1
    <3>2. CASE consumed # 0
      <4>1. chunk[consumed] = file[Taken + consumed] /\ consumed > 0
        BY <1>3, <3>2, ByteBefore
      <4> QED
        BY <1>5, <2>1, <4>1
    <3> QED
      BY <3>1, <3>2
  <2>3. Refused(s)
    BY <1>4, <2>1, <2>2, WalkFacts DEF Refused, Walks
  <2>4. next.mode = "bad"
    BY <1>6, <2>3
  <2> QED
    BY <1>2, <2>1, <2>4, Fails DEF Walks
<1> QED
  BY <1>7, <1>8

\* The walk goes on at byte m of the chunk, where the pass stands at next.
LEMMA GoesOn ==
  ASSUME Walks, Still, chunk' = chunk, status' = "parsing",
         NEW m \in Nat, consumed' = m,
         NEW next, next = At(Taken + m),
         Standing(next)', Copied(next)', Progress(next)'
  PROVE  Answers
<1>1. Taken' = Taken /\ UNCHANGED <<file, config, start, size>>
  BY StillFacts
<1>2. At(Taken + consumed)' = next
  BY <1>1 DEF At
<1>3. ShowsFile'
  BY <1>1 DEF ShowsFile, Walks, Walking
<1>4. Walking'
  BY <1>2, <1>3 DEF Walking, Standing, Copied, Progress
<1> QED
  BY <1>1, <1>4 DEF Answers, InChunk, Walks

\* A delimiter ends the field.
LEMMA FieldAnswers ==
  ASSUME Walks, Still, chunk' = chunk, status' = "parsing",
         NEW m \in Nat, m # 0, m <= Len(chunk), consumed' = m, field_start' = m,
         NEW s \in Passes, fields' = Open(s), s.records = parsed,
         At(Taken + m) = Pass(s.records, Open(s), <<>>, "start"),
         incomplete_last_read' = FALSE, literals' = 0,
         ~in_quotes', ~pending_quote', crlf => ~pending_cr'
  PROVE  Answers
<1> DEFINE next == At(Taken + m)
<1>1. /\ next.records = parsed /\ next.fields = Open(s) /\ next.text = <<>>
      /\ next.mode = "start"
  BY DEF Pass
<1>2. Open(s) \in Seq(String) /\ Open(s) # <<>> /\ ~Fresh(next)
  BY <1>1, FieldEnded DEF Fresh
<1>3. PICK n : n = next
  OBVIOUS
<1>4. Standing(n)'
  BY <1>1, <1>3, StillFacts DEF Standing
<1>5. Copied(n)'
  <2>1. Before' = Open(s) /\ HeldText' = <<>> /\ <<>> \in String
    BY EmptySeq DEF Before, HeldText, String
  <2>2. chunk' \in Seq(Char)
    BY WalkFacts
  <2>3. n.fields = Open(s) /\ n.text = <<>>
    BY <1>1, <1>3
  <2> QED
    BY <1>2, <2>1, <2>2, <2>3, CopiedNone
<1>6. Progress(n)'
  BY <1>1, <1>2, <1>3 DEF Progress, Fresh
<1> HIDE DEF next
<1>7. n = At(Taken + m)
  BY <1>3 DEF next
<1> QED
  BY <1>4, <1>5, <1>6, <1>7, GoesOn

LEMMA DelimAnswers ==
  ASSUME Walks, Still, Strict!DelimEndsField
  PROVE  Answers
<1> DEFINE s == At(Taken + consumed)
           c == chunk[consumed + 1]
           m == consumed + 1
           next == At(Taken + m)
<1>1. /\ consumed < Len(chunk) /\ ~in_quotes /\ c = delimiter /\ consumed' = m
      /\ fields' = Strict!WithField(consumed) /\ literals' = 0 /\ incomplete_last_read' = FALSE
      /\ field_start' = m /\ chunk' = chunk /\ status' = status
      /\ UNCHANGED <<pending_cr, in_quotes, pending_quote>>
  BY DEF Strict!DelimEndsField, Strict!OnByte, Strict!is_delim, Strict!at, Strict!Advance,
     Strict!AddField, Strict!Continue
<1>2. /\ s \in Passes /\ c \in Char /\ next = ReadByte(config, s, c)
      /\ Standing(s) /\ Copied(s)
  BY <1>1, WalkStep
<1>3. m \in Nat /\ m # 0 /\ m <= Len(chunk)
  BY <1>1, WalkNumbers
<1>4. /\ s.mode \in {"start", "plain"} /\ s.records = parsed
      /\ ~pending_quote /\ (crlf => ~pending_cr)
  BY <1>1, <1>2 DEF Standing
<1> HIDE DEF s, c, next, m
<1>5. next = Pass(s.records, Open(s), <<>>, "start")
  BY <1>1, <1>2, <1>4, QuotingByte DEF Walks
<1>6. fields' = Open(s)
  BY <1>1, <1>2, WithFieldIsOpen
<1>7. status' = "parsing"
  BY <1>1 DEF Walks
<1>8. At(Taken + m) = Pass(s.records, Open(s), <<>>, "start")
  BY <1>5 DEF next
<1> QED
  BY <1>1, <1>2, <1>3, <1>4, <1>6, <1>7, <1>8, FieldAnswers

\* A quote outside quotes.
LEMMA QuoteAnswers ==
  ASSUME Walks, Still, Strict!QuoteOpensField \/ Strict!StrayQuoteFails
  PROVE  Answers
<1> DEFINE s == At(Taken + consumed)
           c == chunk[consumed + 1]
           m == consumed + 1
           next == At(Taken + m)
<1>1. /\ consumed < Len(chunk) /\ ~in_quotes /\ c = quote_char
  BY DEF Strict!QuoteOpensField, Strict!StrayQuoteFails, Strict!OnByte, Strict!is_quote, Strict!at
<1>2. /\ s \in Passes /\ c \in Char /\ next = ReadByte(config, s, c)
      /\ Standing(s) /\ Copied(s) /\ Progress(s) /\ c = file[Taken + consumed + 1]
      /\ Taken + m \in 0 .. Len(file)
  BY <1>1, WalkStep
<1>3. m \in Nat /\ m # 0 /\ consumed \in Nat /\ field_start \in Nat /\ field_start <= consumed
      /\ Taken \in Nat
  BY <1>1, WalkNumbers
<1>4. /\ s.mode \in {"start", "plain"} /\ s.records = parsed
      /\ ~pending_quote /\ (crlf => ~pending_cr)
  BY <1>1, <1>2 DEF Standing
<1>5. CASE Strict!QuoteOpensField
  <2>1. /\ consumed = field_start /\ in_quotes' = TRUE /\ consumed' = m
        /\ field_start' = m /\ chunk' = chunk /\ status' = status
        /\ UNCHANGED <<fields, pending_cr, incomplete_last_read, pending_quote, literals>>
    BY <1>5 DEF Strict!QuoteOpensField, Strict!Advance, Strict!Continue
  <2>2. s.mode = "start"
    <3> SUFFICES ASSUME s.mode = "plain" PROVE FALSE
      BY <1>4
    <3>1. consumed = 0 /\ Taken \in Cuts
      BY <1>2, <2>1 DEF Progress, Fresh
    <3>2. file[Taken + 1] = quote_char /\ Taken + consumed = Taken
      BY <1>1, <1>2, <1>3, <3>1
    <3>3. ModeAt(Taken) = "plain"
      BY <3>2 DEF ModeAt, At
    <3> HIDE DEF s
    <3>4. StrictSensitive
      BY <3>1, <3>2, <3>3 DEF StrictSensitive
    <3> QED
      BY <3>4, WalkFacts DEF Walks, Known, Sensitive
  <2> HIDE DEF s, c, next, m
  <2>3. next = Pass(s.records, s.fields, s.text, "quoted")
    BY <1>1, <1>2, <2>2, QuotingByte DEF Walks
  <2>4. /\ next.records = s.records /\ next.fields = s.fields /\ next.text = s.text
        /\ next.mode = "quoted"
    BY <2>3 DEF Pass
  <2>5. PICK n : n = next
    OBVIOUS
  <2>6. Standing(n)'
    BY <1>4, <2>1, <2>4, <2>5, StillFacts DEF Standing
  <2>7. Copied(n)'
    <3>1. /\ literals' = 0 /\ Before = s.fields
          /\ HeldText \o Strict!Copy(Raw).text = s.text
      BY <1>1, <1>2, <2>1 DEF Copied
    <3>2. Raw = <<>>
      BY <1>3, <2>1, EmptyStretch DEF Raw
    <3>3. Strict!Copy(Raw).text = <<>>
      BY <3>2, StrictCopyEmpty DEF NoCopy
    <3>4. HeldText \o <<>> = HeldText
      <4>1. HeldText \in Seq(Char)
        BY WalkFacts DEF String
      <4> QED
        BY <4>1, ConcatEmptySeq
    <3>5. Before' = Before /\ HeldText' = HeldText
      BY <2>1 DEF Before, HeldText
    <3>6. Before' = n.fields /\ HeldText' = n.text /\ HeldText' \in String
      BY <2>4, <2>5, <3>1, <3>3, <3>4, <3>5, WalkFacts
    <3>7. fields' \in Seq(String) /\ (incomplete_last_read' => fields' # <<>>)
          /\ chunk' \in Seq(Char)
      BY <2>1, WalkFacts
    <3> QED
      BY <1>3, <2>1, <3>1, <3>6, <3>7, CopiedNone
  <2>8. Progress(n)'
    BY <1>3, <2>1, <2>4, <2>5 DEF Progress, Fresh
  <2>9. n = At(Taken + m) /\ status' = "parsing"
    BY <2>1, <2>5 DEF next, Walks
  <2> QED
    BY <1>3, <2>1, <2>6, <2>7, <2>8, <2>9, GoesOn
<1>6. CASE Strict!StrayQuoteFails
  <2>1. consumed # field_start /\ status' = "fail"
    BY <1>6 DEF Strict!StrayQuoteFails, Strict!Return
  <2>2. s.mode = "plain"
    BY <1>1, <1>2, <1>3, <2>1 DEF Progress
  <2> HIDE DEF s, c, next
  <2>3. next.mode = "bad"
    BY <1>1, <1>2, <2>2, StrictByte, WalkFacts DEF Walks
  <2>4. At(Taken + m).mode = "bad"
    BY <2>3 DEF next
  <2> QED
    BY <1>2, <2>1, <2>4, Fails DEF Walks
<1> QED
  BY <1>5, <1>6

\* Any other byte.
LEMMA SkipAnswers ==
  ASSUME Walks, Still, Strict!SkipByte
  PROVE  Answers
<1> DEFINE s == At(Taken + consumed)
           c == chunk[consumed + 1]
           m == consumed + 1
           next == At(Taken + m)
           nl == newline(config.line_ending)
<1>1. /\ consumed < Len(chunk) /\ c # quote_char /\ (in_quotes \/ (c # nl /\ c # delimiter))
      /\ consumed' = m /\ field_start' = field_start /\ chunk' = chunk /\ status' = status
      /\ UNCHANGED <<fields, pending_cr, incomplete_last_read, in_quotes, pending_quote, literals>>
  BY DEF Strict!SkipByte, Strict!OnByte, Strict!is_quote, Strict!is_newline, Strict!is_delim,
     Strict!at, Strict!Advance, Strict!Continue, Strict!newline, newline
<1>2. /\ s \in Passes /\ c \in Char /\ next = ReadByte(config, s, c)
      /\ Standing(s) /\ Copied(s)
  BY <1>1, WalkStep
<1>3. m \in Nat /\ m # 0 /\ consumed \in Nat /\ field_start \in Nat /\ field_start < m
  BY <1>1, WalkNumbers
<1>4. /\ s.mode \in {"start", "plain", "quoted"} /\ s.records = parsed
      /\ in_quotes <=> s.mode = "quoted"
      /\ ~pending_quote /\ (crlf => ~pending_cr)
  BY <1>2 DEF Standing
<1> DEFINE mode == IF in_quotes THEN "quoted" ELSE "plain"
<1>5. next = Pass(s.records, s.fields, Append(s.text, c), mode)
  <2> HIDE DEF s, c, next, m
  <2>1. CASE in_quotes
    BY <1>1, <1>2, <1>4, <2>1, QuotingByte DEF Walks
  <2>2. CASE ~in_quotes
    BY <1>1, <1>2, <1>4, <2>2, QuotingByte DEF Walks
  <2> QED
    BY <2>1, <2>2
<1>6. PICK n : n = next
  OBVIOUS
<1>7. /\ n.records = s.records /\ n.fields = s.fields /\ n.text = Append(s.text, c)
      /\ n.mode = mode
  <2> HIDE DEF s, c, next, mode
  <2> QED
    BY <1>5, <1>6 DEF Pass
<1>8. Standing(n)'
  BY <1>1, <1>4, <1>7, StillFacts DEF Standing
<1>9. Copied(n)'
  BY <1>1, <1>2, <1>7, CopiedMore
<1>10. Progress(n)'
  BY <1>1, <1>3, <1>7 DEF Progress, Fresh
<1> HIDE DEF next, m
<1>11. n = At(Taken + m) /\ status' = "parsing"
  BY <1>1, <1>6 DEF next, Walks
<1> QED
  BY <1>1, <1>3, <1>8, <1>9, <1>10, <1>11, GoesOn

-----------------------------------------------------------------------------
\* A quote inside quotes: the pass stands behind what may be the closing one.
LEMMA Closing ==
  ASSUME Walks, consumed < Len(chunk), in_quotes, chunk[consumed + 1] = quote_char
  PROVE  \E s \in Passes :
           /\ At(Taken + (consumed + 1)) = s /\ s.mode = "closed" /\ s.records = parsed
           /\ Strict!WithField(consumed) = Open(s)
           /\ s.fields = At(Taken + consumed).fields /\ s.text = At(Taken + consumed).text
           /\ ~pending_quote /\ (crlf => ~pending_cr) /\ Copied(At(Taken + consumed))
<1> DEFINE before == At(Taken + consumed)
           c == chunk[consumed + 1]
           s == At(Taken + (consumed + 1))
<1>1. /\ before \in Passes /\ c \in Char /\ s \in Passes /\ s = ReadByte(config, before, c)
      /\ Standing(before) /\ Copied(before)
  BY WalkStep
<1>2. /\ before.mode = "quoted" /\ before.records = parsed
      /\ ~pending_quote /\ (crlf => ~pending_cr)
  BY <1>1 DEF Standing
<1>3. Strict!WithField(consumed) = Open(before)
  BY <1>1, WithFieldIsOpen
<1>4. s = Pass(before.records, before.fields, before.text, "closed")
  <2> HIDE DEF before, c, s
  <2>1. c = quote_char
    BY DEF c
  <2> QED
    BY <1>1, <1>2, <2>1, QuotingByte DEF Walks
<1>5. /\ s.mode = "closed" /\ s.records = parsed /\ s.fields = before.fields
      /\ s.text = before.text
  <2> HIDE DEF before, s
  <2> QED
    BY <1>2, <1>4 DEF Pass
<1> QED
  BY <1>1, <1>2, <1>3, <1>5 DEF Open

\* It may be one of a pair.
LEMMA PairAnswers ==
  ASSUME Walks, Still, Strict!EscapedQuote
  PROVE  Answers
<1> DEFINE before == At(Taken + consumed)
           m == consumed + 2
           next == At(Taken + m)
<1>1. /\ consumed < Len(chunk) /\ in_quotes /\ chunk[consumed + 1] = quote_char
      /\ consumed + 1 # Len(chunk) /\ chunk[(consumed + 1) + 1] = quote_char
      /\ consumed' = m /\ literals' = literals + 1
      /\ field_start' = field_start /\ chunk' = chunk /\ status' = status
      /\ UNCHANGED <<fields, pending_cr, incomplete_last_read, in_quotes, pending_quote>>
  BY DEF Strict!EscapedQuote, Strict!OnQuoteInQuotes, Strict!OnByte, Strict!is_quote,
     Strict!LastByte, Strict!is_end, Strict!at, Strict!Advance, Strict!Continue
<1>2. /\ m \in Nat /\ m # 0 /\ consumed + 1 \in Nat /\ consumed + 1 < Len(chunk)
      /\ (consumed + 1) + 1 = m /\ field_start < m
  <2>1. Len(chunk) \in Nat /\ consumed \in Nat /\ field_start \in Nat /\ field_start <= consumed
    BY WalkNumbers
  <2>2. consumed < Len(chunk) /\ consumed + 1 # Len(chunk)
    BY <1>1
  <2> QED
    BY <2>1, <2>2
<1>3. PICK s \in Passes :
        /\ At(Taken + (consumed + 1)) = s /\ s.mode = "closed" /\ s.records = parsed
        /\ s.fields = before.fields /\ s.text = before.text
        /\ ~pending_quote /\ (crlf => ~pending_cr) /\ Copied(before)
  BY <1>1, Closing
<1>4. next = ReadByte(config, s, quote_char) /\ quote_char \in Char
  <2> DEFINE k == consumed + 1
  <2>1. k \in Nat /\ k < Len(chunk) /\ k + 1 = m /\ At(Taken + k) = s
        /\ chunk[k + 1] = quote_char
    BY <1>1, <1>2, <1>3
  <2> HIDE DEF k, m
  <2>2. At(Taken + (k + 1)) = ReadByte(config, At(Taken + k), chunk[k + 1])
        /\ chunk[k + 1] \in Char
    BY <2>1, ChunkByte
  <2> QED
    BY <2>1, <2>2
<1> HIDE DEF next, m, before
<1>5. next = Pass(s.records, s.fields, Append(s.text, quote_char), "quoted")
  BY <1>3, <1>4, QuotingByte DEF Walks
<1>6. PICK n : n = next
  OBVIOUS
<1>7. /\ n.records = parsed /\ n.fields = before.fields
      /\ n.text = Append(before.text, quote_char) /\ n.mode = "quoted"
  BY <1>3, <1>5, <1>6 DEF Pass
<1>8. Standing(n)'
  BY <1>1, <1>3, <1>7, StillFacts DEF Standing
<1>9. Copied(n)'
  <2>1. consumed + 2 = m /\ consumed' = consumed + 2 /\ chunk[consumed + 2] = quote_char
    BY <1>1, <1>2, WalkNumbers DEF m
  <2>2. PICK b : b = before
    OBVIOUS
  <2>3. Copied(b) /\ n.fields = b.fields /\ n.text = Append(b.text, quote_char)
    BY <1>3, <1>7, <2>2 DEF before
  <2> QED
    BY <1>1, <1>2, <2>1, <2>3, CopiedQuote
<1>10. Progress(n)'
  BY <1>1, <1>2, <1>7 DEF Progress, Fresh
<1>11. n = At(Taken + m) /\ status' = "parsing"
  BY <1>1, <1>6 DEF next, Walks
<1> QED
  BY <1>1, <1>2, <1>8, <1>9, <1>10, <1>11, GoesOn

\* The block ends: what the pass has of the record is held.
LEMMA HoldsRest ==
  ASSUME Known, Still, config.has_quoting, NEW m \in Nat, start + m = size, consumed' = m,
         status' = "need_more_data",
         NEW s, s = At(Taken + m), ~Fresh(s), s.mode # "bad", s.records = parsed,
         fields' = Left(s), s.mode # "closed_cr" => incomplete_last_read',
         s.mode = "closed_cr" => crlf,
         crlf => (pending_cr' <=> s.mode = "closed_cr"
                                    \/ (s.mode = "plain" /\ file[Taken + m] = CR)),
         in_quotes' <=> s.mode = "quoted",
         pending_quote' <=> s.mode \in {"closed", "closed_cr"}
  PROVE  Answers
<1>1. Taken' = Taken /\ UNCHANGED <<file, config, start, size, parsed>> /\ crlf' = crlf
  BY StillFacts
<1>2. At(Taken + consumed)' = s
  BY <1>1 DEF At
<1>3. file[Taken + consumed]' = file[Taken + m]
  BY <1>1
<1>4. InRecord(Taken + consumed)'
  BY <1>1, <1>2, <1>3 DEF InRecord, Fresh, Left, Open
<1>5. parsed' = At(Taken + consumed)'.records
  BY <1>1, <1>2
<1>6. Within(Taken + consumed)'
  BY <1>4, <1>5 DEF Within
<1> QED
  BY <1>6 DEF Answers

LEMMA HoldsAll ==
  ASSUME Walks \/ Unquotes, Still, NEW m \in Nat, m = Len(chunk), m # 0, consumed' = m,
         status' = "need_more_data",
         NEW s, s = At(Taken + m), ~Fresh(s), s.mode # "bad", s.records = parsed,
         fields' = Left(s), s.mode # "closed_cr" => incomplete_last_read',
         s.mode = "closed_cr" => crlf,
         crlf => (pending_cr' <=> s.mode = "closed_cr" \/ (s.mode = "plain" /\ chunk[m] = CR)),
         in_quotes' <=> s.mode = "quoted",
         pending_quote' <=> s.mode \in {"closed", "closed_cr"}
  PROVE  Answers
<1>1. chunk[m] = file[Taken + m]
  <2> DEFINE b == m - 1
  <2>1. b \in Nat /\ b < Len(chunk) /\ b + 1 = m
    OBVIOUS
  <2> HIDE DEF b
  <2>2. chunk[b + 1] = file[Taken + b + 1] /\ Taken + b + 1 = Taken + (b + 1)
    BY <2>1, ChunkByte
  <2> QED
    BY <2>1, <2>2
<1>2. start + m = size
  BY WalkNumbers
<1> QED
  BY <1>1, <1>2, HoldsRest DEF Walks, Unquotes

LEMMA ChunkEndAnswers ==
  ASSUME Walks, Still, Strict!QuoteEndsChunk \/ Strict!ChunkEnds
  PROVE  Answers
<1>1. CASE Strict!QuoteEndsChunk
  <2> DEFINE m == consumed + 1
  <2>1. /\ consumed < Len(chunk) /\ in_quotes /\ chunk[consumed + 1] = quote_char
        /\ m = Len(chunk) /\ consumed' = m /\ fields' = Strict!WithField(consumed)
        /\ in_quotes' = FALSE /\ pending_quote' = TRUE /\ incomplete_last_read' = TRUE
        /\ status' = "need_more_data" /\ pending_cr' = pending_cr
    BY <1>1 DEF Strict!QuoteEndsChunk, Strict!OnQuoteInQuotes, Strict!OnByte, Strict!is_quote,
       Strict!LastByte, Strict!is_end, Strict!at, Strict!Advance, Strict!Return
  <2>2. PICK s \in Passes :
          /\ At(Taken + m) = s /\ s.mode = "closed" /\ s.records = parsed
          /\ Strict!WithField(consumed) = Open(s)
          /\ ~pending_quote /\ (crlf => ~pending_cr)
    BY <2>1, Closing
  <2>3. m \in Nat /\ m # 0
    BY <2>1, WalkNumbers
  <2>4. fields' = Left(s) /\ ~Fresh(s)
    BY <2>1, <2>2 DEF Left, Fresh
  <2> HIDE DEF m
  <2> QED
    BY <2>1, <2>2, <2>3, <2>4, HoldsAll
<1>2. CASE Strict!ChunkEnds
  <2>1. /\ consumed = Len(chunk) /\ fields' = Strict!WithField(consumed)
        /\ incomplete_last_read' = TRUE /\ status' = "need_more_data"
        /\ pending_cr' = (pending_cr \/ (crlf /\ ~in_quotes /\ chunk[(consumed - 1) + 1] = CR))
        /\ UNCHANGED <<consumed, in_quotes, pending_quote>>
    BY <1>2 DEF Strict!ChunkEnds, Strict!is_end, Strict!at, Strict!Return, Strict!crlf, crlf
  <2>2. consumed \in Nat /\ consumed # 0 /\ (consumed - 1) + 1 = consumed
    <3>1. Len(chunk) # 0
      BY WalkFacts, EmptySeq DEF Walks, Walking, ShowsFile
    <3> QED
      BY <2>1, <3>1, WalkNumbers
  <2>3. PICK s : s = At(Taken + consumed)
    OBVIOUS
  <2>4. Standing(s) /\ Copied(s) /\ Progress(s)
    BY <2>3 DEF Walks, Walking
  <2>5. /\ ~Fresh(s) /\ s.mode \in {"start", "plain", "quoted"} /\ s.records = parsed
        /\ in_quotes <=> s.mode = "quoted"
        /\ ~pending_quote /\ (crlf => ~pending_cr)
    BY <2>2, <2>4 DEF Standing, Progress
  <2>6. fields' = Left(s)
    BY <2>1, <2>4, <2>5, WithFieldIsOpen DEF Left
  <2>7. ASSUME crlf PROVE pending_cr' <=> s.mode = "plain" /\ chunk[consumed] = CR
    <3>1. /\ chunk[consumed] = file[Taken + consumed] /\ Taken + consumed \in Nat
          /\ Taken + consumed # 0 /\ Taken + consumed <= Len(file)
      BY <2>2, ByteBefore
    <3>2. s.mode = "start" => file[Taken + consumed] # CR
      <4>1. file \in String
        BY WalkFacts
      <4> QED
        BY <2>3, <2>7, <3>1, <4>1, EndsAt
    <3>3. pending_cr' <=> ~in_quotes /\ chunk[consumed] = CR
      BY <2>1, <2>2, <2>5, <2>7
    <3> QED
      BY <2>5, <3>1, <3>2, <3>3
  <2>8. consumed' = consumed /\ s.mode \notin {"closed", "closed_cr", "bad"}
    BY <2>1, <2>5
  <2> DEFINE m == consumed
  <2>9. m \in Nat /\ m = Len(chunk) /\ m # 0 /\ consumed' = m /\ s = At(Taken + m)
    BY <2>1, <2>2, <2>3, <2>8
  <2>10. crlf => (pending_cr' <=> s.mode = "closed_cr" \/ (s.mode = "plain" /\ chunk[m] = CR))
    BY <2>7, <2>8
  <2>11. /\ in_quotes' <=> s.mode = "quoted"
         /\ pending_quote' <=> s.mode \in {"closed", "closed_cr"}
    BY <2>1, <2>5, <2>8
  <2> HIDE DEF m
  <2> QED
    BY <2>1, <2>5, <2>6, <2>8, <2>9, <2>10, <2>11, HoldsAll
<1> QED
  BY <1>1, <1>2

\* What stands behind the closing quote.
LEMMA Behind ==
  ASSUME Walks, consumed < Len(chunk), in_quotes, chunk[consumed + 1] = quote_char,
         consumed + 1 # Len(chunk)
  PROVE  \E s \in Passes :
           /\ s.mode = "closed" /\ s.records = parsed
           /\ Strict!WithField(consumed) = Open(s)
           /\ ~pending_quote /\ (crlf => ~pending_cr)
           /\ At(Taken + (consumed + 2)) = ReadByte(config, s, chunk[(consumed + 1) + 1])
           /\ chunk[(consumed + 1) + 1] \in Char
           /\ At(Taken + (consumed + 2)) \in Passes
           /\ Taken + (consumed + 2) \in 0 .. Len(file)
<1> DEFINE k == consumed + 1
           m == consumed + 2
<1>1. k \in Nat /\ k < Len(chunk) /\ k + 1 = m
  BY WalkNumbers
<1>2. PICK s \in Passes :
        /\ At(Taken + k) = s /\ s.mode = "closed" /\ s.records = parsed
        /\ Strict!WithField(consumed) = Open(s)
        /\ ~pending_quote /\ (crlf => ~pending_cr)
  BY Closing
<1> HIDE DEF k, m
<1>3. /\ At(Taken + m) = ReadByte(config, At(Taken + k), chunk[k + 1])
      /\ chunk[k + 1] \in Char /\ At(Taken + m) \in Passes
      /\ Taken + m \in 0 .. Len(file)
  BY <1>1, ChunkByte
<1>4. /\ At(Taken + m) = ReadByte(config, s, chunk[k + 1])
  BY <1>2, <1>3
<1> QED
  BY <1>2, <1>3, <1>4 DEF k, m

\* A byte behind the last field.
LEMMA ExtendAppend ==
  ASSUME NEW front \in Seq(String), NEW text \in String, NEW c \in Char
  PROVE  ExtendLast(Append(front, text), <<c>>) = Append(front, Append(text, c))
<1> DEFINE fs == Append(front, text)
           more == Append(text, c)
           extended == ExtendLast(fs, <<c>>)
           joined == Append(front, more)
           n == Len(front)
<1>1. <<c>> \in String /\ text \in Seq(Char)
  BY DEF String
<1>2. more \in String /\ more = text \o <<c>>
  BY <1>1, AppendIsConcat, AppendProperties DEF String
<1>3. /\ fs \in Fields /\ Len(fs) = n + 1 /\ n \in Nat /\ fs[n + 1] = text
      /\ \A k \in 1 .. n : fs[k] = front[k]
  BY FrontOfAppend, AppendFields
<1> HIDE DEF fs, more
<1>4. /\ extended \in Fields /\ Len(extended) = Len(fs)
      /\ \A k \in 1 .. Len(fs) :
           extended[k] = IF k = Len(fs) THEN fs[k] \o <<c>> ELSE fs[k]
  BY <1>1, <1>3, ExtendLastFields
<1>5. /\ joined \in Seq(String) /\ Len(joined) = n + 1 /\ joined[n + 1] = more
      /\ \A k \in 1 .. n : joined[k] = front[k]
  BY <1>2, FrontOfAppend
<1> HIDE DEF extended, joined, n
<1>6. ASSUME NEW k \in 1 .. Len(extended) PROVE extended[k] = joined[k]
  <2>1. CASE k = n + 1
    BY <1>2, <1>3, <1>4, <1>5, <2>1
  <2>2. CASE k # n + 1
    <3>1. k \in 1 .. n
      BY <1>3, <1>4, <2>2
    <3> QED
      BY <1>3, <1>4, <1>5, <2>2, <3>1
  <2> QED
    BY <2>1, <2>2
<1>7. extended = joined
  <2>1. extended \in Seq(String) /\ Len(extended) = Len(joined)
    BY <1>3, <1>4, <1>5 DEF Fields
  <2> QED
    BY <1>5, <1>6, <2>1, SeqEqual
<1> QED
  BY <1>7 DEF extended, joined, fs, more

\* A quote that closes the field.
LEMMA ClosingAnswers ==
  ASSUME Walks, Still,
         Strict!QuoteThenCr \/ Strict!QuoteThenDelim \/ Strict!QuoteThenNewline
           \/ Strict!QuoteThenDataFails
  PROVE  Answers
<1> DEFINE m == consumed + 2
           c == chunk[(consumed + 1) + 1]
           next == At(Taken + m)
           nl == newline(config.line_ending)
<1>1. /\ consumed < Len(chunk) /\ in_quotes /\ chunk[consumed + 1] = quote_char
      /\ consumed + 1 # Len(chunk) /\ in_quotes' = FALSE
  BY DEF Strict!QuoteThenCr, Strict!QuoteThenDelim, Strict!QuoteThenNewline,
     Strict!QuoteThenDataFails, Strict!ClosesBefore, Strict!OnQuoteInQuotes, Strict!OnByte,
     Strict!is_quote, Strict!LastByte, Strict!is_end, Strict!at
<1>2. PICK s \in Passes :
        /\ s.mode = "closed" /\ s.records = parsed
        /\ Strict!WithField(consumed) = Open(s)
        /\ ~pending_quote /\ (crlf => ~pending_cr)
        /\ next = ReadByte(config, s, c) /\ c \in Char /\ next \in Passes
        /\ Taken + m \in 0 .. Len(file)
  BY <1>1, Behind
<1>3. m \in Nat /\ m # 0 /\ m <= Len(chunk)
  <2>1. Len(chunk) \in Nat /\ consumed \in Nat
    BY WalkNumbers
  <2> QED
    BY <1>1, <2>1
<1>4. config.parse_mode = "strict" /\ config.has_quoting
  BY WalkFacts DEF Walks
<1>5. ~EndsInCr(s) /\ ~Refused(s)
  BY <1>2 DEF EndsInCr, Refused
<1>6. nl # delimiter /\ nl # quote_char /\ delimiter # quote_char /\ CR # delimiter
      /\ CR # quote_char /\ (crlf => CR # nl)
  BY NewlineByte, CharAssumption
<1> HIDE DEF m, c, next, nl
<1>7. CASE Strict!QuoteThenDelim
  <2>1. /\ c = delimiter /\ fields' = Strict!WithField(consumed) /\ literals' = 0
        /\ incomplete_last_read' = FALSE /\ consumed' = m /\ field_start' = m
        /\ chunk' = chunk /\ status' = status
        /\ UNCHANGED <<pending_cr, pending_quote>>
    BY <1>7 DEF Strict!QuoteThenDelim, Strict!ClosesBefore, Strict!at, Strict!AddField,
       Strict!Advance, Strict!Continue, m, c
  <2>2. At(Taken + m) = Pass(s.records, Open(s), <<>>, "start")
    BY <1>2, <1>4, <2>1, QuotingByte DEF next
  <2>3. fields' = Open(s) /\ status' = "parsing"
    BY <1>2, <2>1 DEF Walks
  <2> QED
    BY <1>1, <1>2, <1>3, <2>1, <2>2, <2>3, FieldAnswers
<1>8. CASE Strict!QuoteThenNewline
  <2>1. /\ c = nl /\ fields' = Strict!WithField(consumed) /\ consumed' = m
        /\ status' = "complete"
    BY <1>8 DEF Strict!QuoteThenNewline, Strict!ClosesBefore, Strict!at, Strict!Advance,
       Strict!Return, Strict!newline, newline, m, c, nl
  <2>2. At(Taken + m) = Pass(Append(parsed, Row(s)), <<>>, <<>>, "start")
    BY <1>2, <1>4, <1>5, <2>1, QuotingByte DEF next, nl
  <2>3. fields' = Row(s)
    BY <1>2, <1>4, <1>5, <2>1, QuotingRow
  <2> QED
    BY <1>3, <2>1, <2>2, <2>3, Completes
<1>9. CASE Strict!QuoteThenDataFails
  <2>1. /\ c \notin {quote_char, delimiter, nl} /\ ~(crlf /\ c = CR) /\ status' = "fail"
    BY <1>9 DEF Strict!QuoteThenDataFails, Strict!ClosesBefore, Strict!at,
       Strict!Return, Strict!crlf, crlf, Strict!newline, newline, m, c, nl
  <2>2. At(Taken + m).mode = "bad"
    BY <1>2, <1>4, <2>1, StrictByte DEF next, nl
  <2> QED
    BY <1>2, <2>1, <2>2, Fails DEF Walks
<1>10. CASE Strict!QuoteThenCr
  <2>1. crlf /\ c = CR
    BY <1>10 DEF Strict!QuoteThenCr, Strict!ClosesBefore, Strict!at, Strict!crlf, crlf, c
  <2>2. next = Pass(s.records, s.fields, s.text, "closed_cr")
    BY <1>2, <1>4, <1>6, <2>1, StrictByte DEF nl
  <2>3. /\ next.mode = "closed_cr" /\ next.fields = s.fields /\ next.text = s.text
        /\ next.records = parsed
    BY <1>2, <2>2 DEF Pass
  <2>4. Open(next) = Open(s) /\ ~EndsInCr(next) /\ ~Refused(next)
    BY <2>3 DEF Open, EndsInCr, Refused
  <2>5. m # Len(chunk) =>
          /\ chunk[m + 1] \in Char
          /\ At(Taken + (m + 1)) = ReadByte(config, next, chunk[m + 1])
          /\ Taken + (m + 1) \in 0 .. Len(file) /\ m + 1 \in Nat /\ m + 1 <= Len(chunk)
    <3>1. Len(chunk) \in Nat
      BY WalkNumbers
    <3>2. ASSUME m # Len(chunk)
          PROVE  m < Len(chunk) /\ m + 1 \in Nat /\ m + 1 <= Len(chunk)
      BY <1>3, <3>1, <3>2
    <3>3. ASSUME m # Len(chunk)
          PROVE  /\ chunk[m + 1] \in Char
                 /\ At(Taken + (m + 1)) = ReadByte(config, At(Taken + m), chunk[m + 1])
                 /\ Taken + (m + 1) \in 0 .. Len(file)
      BY <1>3, <3>2, <3>3, ChunkByte
    <3> QED
      BY <3>2, <3>3 DEF next
  <2>6. \/ /\ m # Len(chunk) /\ chunk[m + 1] = nl /\ fields' = Open(s)
           /\ consumed' = consumed + 3 /\ status' = "complete"
        \/ m # Len(chunk) /\ chunk[m + 1] # nl /\ status' = "fail"
        \/ /\ m = Len(chunk) /\ fields' = ExtendLast(Open(s), <<CR>>)
           /\ incomplete_last_read' = FALSE /\ pending_cr' = TRUE /\ pending_quote' = TRUE
           /\ consumed' = m /\ status' = "need_more_data"
    BY <1>2, <1>10 DEF Strict!QuoteThenCr, Strict!is_end, Strict!is_newline, Strict!at,
       Strict!Advance, Strict!Return, Strict!ExtendLast, ExtendLast, Strict!newline, newline, m, nl
  <2>7. CASE m # Len(chunk) /\ chunk[m + 1] = nl /\ fields' = Open(s)
             /\ consumed' = consumed + 3 /\ status' = "complete"
    <3>1. Row(next) = Open(s)
      BY <1>4, <2>4, QuotingRow
    <3>2. At(Taken + (m + 1)) = Pass(Append(parsed, Row(next)), <<>>, <<>>, "start")
      <4>1. next.mode \in {"start", "plain", "closed", "closed_cr"}
        BY <2>3
      <4>2. ReadByte(config, next, nl) = Pass(Append(next.records, Row(next)), <<>>, <<>>, "start")
        BY <1>2, <1>4, <2>4, <2>5, <2>7, <4>1, QuotingByte DEF nl
      <4> QED
        BY <2>3, <2>5, <2>7, <4>2
    <3>3. consumed' = m + 1
      BY <2>7, WalkNumbers DEF m
    <3> DEFINE k == m + 1
    <3>4. /\ k \in Nat /\ k <= Len(chunk) /\ consumed' = k
          /\ At(Taken + k) = Pass(Append(parsed, Row(next)), <<>>, <<>>, "start")
          /\ fields' = Row(next)
      BY <2>5, <2>7, <3>1, <3>2, <3>3
    <3> HIDE DEF k
    <3> QED
      BY <2>7, <3>4, Completes
  <2>8. CASE m # Len(chunk) /\ chunk[m + 1] # nl /\ status' = "fail"
    <3>1. At(Taken + (m + 1)).mode = "bad"
      BY <1>2, <1>4, <2>3, <2>5, <2>8, StrictByte DEF nl
    <3> DEFINE i == Taken + (m + 1)
    <3>2. i \in 0 .. Len(file) /\ At(i).mode = "bad"
      BY <2>5, <2>8, <3>1
    <3> HIDE DEF i
    <3> QED
      BY <2>8, <3>2, Fails DEF Walks
  <2>9. CASE /\ m = Len(chunk) /\ fields' = ExtendLast(Open(s), <<CR>>)
             /\ incomplete_last_read' = FALSE /\ pending_cr' = TRUE /\ pending_quote' = TRUE
             /\ consumed' = m /\ status' = "need_more_data"
    <3>1. ExtendLast(Open(s), <<CR>>) = Append(s.fields, Append(s.text, CR))
      <4>1. s.fields \in Seq(String) /\ s.text \in String /\ CR \in Char
        BY PassAt DEF Char
      <4> QED
        BY <4>1, ExtendAppend DEF Open
    <3>2. fields' = Left(next) /\ ~Fresh(next)
      BY <2>3, <2>9, <3>1 DEF Left, Fresh
    <3>3. next = At(Taken + m)
      BY DEF next
    <3> QED
      BY <1>1, <1>3, <2>1, <2>3, <2>9, <3>2, <3>3, HoldsAll
  <2> QED
    BY <2>6, <2>7, <2>8, <2>9
<1> QED
  BY <1>7, <1>8, <1>9, <1>10

\* Every step inside parse() of the strict parser.
LEMMA StrictStepAnswers ==
  ASSUME Walks, Still, Strict!Step
  PROVE  Answers
BY NewlineAnswers, DelimAnswers, QuoteAnswers, SkipAnswers, PairAnswers, ChunkEndAnswers,
   ClosingAnswers DEF Strict!Step

-----------------------------------------------------------------------------
(***************************************************************************)
(* The lenient parser inside a chunk.                                       *)
(***************************************************************************)
\* What add_field makes of a part of a field that goes on.
LEMMA PieceNext ==
  ASSUME NEW raw, Raw' = raw, NEW in_quoting, quoted_field' = in_quoting
  PROVE  Piece' = Told(raw, in_quoting)
BY DEF Piece, Told, Opens, FieldPass, FieldByte

\* Of no bytes, and of one byte more.
LEMMA ToldNone ==
  ASSUME NEW in_quoting \in BOOLEAN
  PROVE  Told(<<>>, in_quoting)
           = [text |-> <<>>, mode |-> IF in_quoting THEN "quoted" ELSE "plain"]
<1>1. ~Opens(<<>>)
  BY DEF Opens
<1>2. (IF in_quoting THEN "quoted" ELSE "plain") \in FieldModes
  BY DEF FieldModes
<1> QED
  BY <1>1, <1>2, FieldPassEmpty DEF Told

LEMMA ToldGrows ==
  ASSUME NEW raw \in String, NEW c \in Char, NEW in_quoting \in BOOLEAN
  PROVE  LET z == Told(raw, in_quoting)
             more == Told(Append(raw, c), in_quoting)
         IN  /\ z \in FieldPasses
             /\ raw # <<>> \/ c # quote_char => more = FieldByte(z, c)
             /\ raw = <<>> /\ c = quote_char => more = [text |-> <<>>, mode |-> "quoted"]
<1> DEFINE mode == IF in_quoting \/ Opens(raw) THEN "quoted" ELSE "plain"
           rest == IF Opens(raw) THEN Tail(raw) ELSE raw
           long == Append(raw, c)
<1>1. mode \in FieldModes /\ "quoted" \in FieldModes
  BY DEF FieldModes
<1>2. raw \in Seq(Char) /\ Len(raw) \in Nat /\ (raw # <<>> => 1 \in 1 .. Len(raw))
  <2>1. raw \in Seq(Char)
    BY DEF String
  <2>2. Len(raw) \in Nat /\ (raw # <<>> => Len(raw) # 0)
    BY <2>1, EmptySeq, LenProperties
  <2> QED
    BY <2>1, <2>2
<1>3. /\ long # <<>> /\ (raw = <<>> => long[1] = c) /\ (raw # <<>> => long[1] = raw[1])
      /\ Tail(long) = IF raw = <<>> THEN <<>> ELSE Append(Tail(raw), c)
  BY <1>2, AppendProperties, HeadTailAppend, EmptySeq, LenProperties
<1>4. rest \in String
  BY <1>2, HeadTailProperties DEF Opens, String
<1>5. /\ FieldPass(rest, mode) \in FieldPasses
      /\ FieldPass(Append(rest, c), mode) = FieldByte(FieldPass(rest, mode), c)
  <2> HIDE DEF rest, mode
  <2> QED
    BY <1>1, <1>4, FieldPassGrows
<1>6. Told(raw, in_quoting) = FieldPass(rest, mode)
  BY DEF Told
<1>7. CASE raw = <<>> /\ c = quote_char
  <2>1. Opens(long) /\ Tail(long) = <<>>
    BY <1>3, <1>7 DEF Opens
  <2> HIDE DEF long
  <2>2. Told(long, in_quoting) = FieldPass(<<>>, "quoted")
    BY <2>1 DEF Told
  <2> HIDE DEF rest, mode
  <2> QED
    BY <1>1, <1>5, <1>6, <1>7, <2>2, FieldPassEmpty DEF long
<1>8. CASE raw # <<>> \/ c # quote_char
  <2>1. Opens(long) <=> Opens(raw)
    BY <1>3, <1>8 DEF Opens
  <2>2. (IF Opens(long) THEN Tail(long) ELSE long) = Append(rest, c)
    BY <1>3, <2>1 DEF Opens
  <2> HIDE DEF long
  <2>3. Told(long, in_quoting) = FieldPass(Append(rest, c), mode)
    BY <2>1, <2>2 DEF Told
  <2> HIDE DEF rest, mode
  <2> QED
    BY <1>5, <1>6, <1>8, <2>3 DEF long
<1> QED
  BY <1>7, <1>8

\* What add_field(end) makes of the fields.
LEMMA LenientWithFieldIs ==
  ASSUME Unquotes, NEW end \in Nat, end <= Len(chunk)
  PROVE  Lenient!WithField(end)
           = Append(Before,
                     HeldText \o Told(SubSeq(chunk, field_start + 1, end), quoted_field).text)
<1> DEFINE raw == SubSeq(chunk, field_start + 1, end)
           opened == raw # <<>> /\ raw[1] = quote_char
           inside == IF opened THEN Tail(raw) ELSE raw
           piece == Lenient!Unquoted(inside, quoted_field \/ opened)
           told == Told(raw, quoted_field)
<1>1. raw \in String
  BY WalkFacts, StretchIsSeq DEF String
<1>2. inside \in String /\ (quoted_field \/ opened) \in BOOLEAN /\ (opened <=> Opens(raw))
  <2> HIDE DEF raw
  <2> QED
    BY <1>1, HeadTailProperties DEF String, Opens
<1>3. Lenient!WithField(end) = IF incomplete_last_read THEN ExtendLast(fields, piece)
                                                       ELSE Append(fields, piece)
  BY DEF Lenient!WithField, Lenient!ExtendLast, ExtendLast, Lenient!is_quote
<1>4. piece = told.text
  <2>1. told = FieldPass(inside, IF quoted_field \/ opened THEN "quoted" ELSE "plain")
    BY <1>2 DEF Told
  <2> HIDE DEF inside, opened, told
  <2> QED
    BY <1>2, <2>1, UnquotedIsPass
<1>5. piece \in String
  <2> HIDE DEF inside, opened
  <2> QED
    BY <1>2, UnquotedIsString
<1> HIDE DEF raw, piece, told
<1>6. (IF incomplete_last_read THEN ExtendLast(fields, piece) ELSE Append(fields, piece))
        = Append(Before, HeldText \o piece)
  BY <1>5, WalkFacts, JoinedIs
<1> QED
  BY <1>3, <1>4, <1>6 DEF told, raw

\* The field up to the cursor is the one the pass has open.
LEMMA LenientFieldIsOpen ==
  ASSUME Unquotes, NEW s, LenientCopied(s)
  PROVE  Lenient!WithField(consumed) = Open(s)
<1>1. Lenient!WithField(consumed) = Append(Before, HeldText \o Piece.text)
  BY WalkFacts, LenientWithFieldIs DEF Raw, Piece
<1> QED
  BY <1>1 DEF LenientCopied, Open

\* Nothing of the field has been read: what is held goes on as it is.
LEMMA LenientCopiedNone ==
  ASSUME NEW next, Before' = next.fields, HeldText' = next.text, HeldText' \in String,
         field_start' = consumed', consumed' \in Nat, quoted_field' \in BOOLEAN
  PROVE  LenientCopied(next)'
<1>1. Raw' = <<>>
  <2>1. SubSeq(chunk', consumed' + 1, consumed') = <<>>
    BY EmptyStretch
  <2> QED
    BY <2>1 DEF Raw
<1>2. PICK b \in BOOLEAN : quoted_field' = b
  OBVIOUS
<1>3. Piece' = Told(<<>>, b)
  BY <1>1, <1>2, PieceNext
<1>4. Told(<<>>, b).text = <<>>
  BY ToldNone
<1>5. HeldText' \o <<>> = HeldText'
  BY ConcatEmptySeq DEF String
<1> QED
  BY <1>3, <1>4, <1>5 DEF LenientCopied

\* Quotes of the field ahead, in the file and in the chunk.
LEMMA NoneFollows ==
  ASSUME file \in String, Len(file) \in Nat, N \in Nat, NEW b \in Nat, NEW k \in Nat,
         NEW n \in Nat, n <= N, b + n <= Len(file), ~QuotesFollow(b, b + k),
         NEW bytes, bytes = SubSeq(file, b + 1, b + n)
  PROVE  NoQuoteAhead(bytes, k)
<1> DEFINE ends == {delimiter, newline(config.line_ending)}
<1>1. Len(bytes) = n /\ \A i \in 1 .. n : bytes[i] = file[b + i]
  BY StretchBytes
<1> SUFFICES ASSUME NEW i \in k + 1 .. Len(bytes), bytes[i] = quote_char
             PROVE  \E m \in k + 1 .. i - 1 : bytes[m] \in ends
  BY DEF NoQuoteAhead
<1>2. i \in 1 .. n
  BY <1>1
<1> DEFINE j == b + i
<1>3. j \in b + k + 1 .. b + N /\ j <= Len(file) /\ file[j] = quote_char
  BY <1>1, <1>2
<1>4. PICK m \in b + k + 1 .. j - 1 : file[m] \in ends
  <2> HIDE DEF j
  <2> QED
    BY <1>3 DEF QuotesFollow
<1>5. m - b \in k + 1 .. i - 1 /\ m - b \in 1 .. n /\ b + (m - b) = m
  BY <1>2, <1>4
<1>6. bytes[m - b] = file[m]
  BY <1>1, <1>5
<1> QED
  BY <1>4, <1>5, <1>6

\* The pass at the cursor, and the byte it reads next.
LEMMA LenientWalk ==
  ASSUME Unquotes, consumed < Len(chunk)
  PROVE  LET s == At(Taken + consumed)
             c == chunk[consumed + 1]
             next == At(Taken + (consumed + 1))
         IN  /\ s \in Passes /\ c \in Char /\ next \in Passes /\ next = ReadByte(config, s, c)
             /\ LenientStanding(s) /\ LenientCopied(s) /\ LenientProgress(s)
             /\ c = file[Taken + (consumed + 1)]
             /\ s.mode \in LenientModes /\ (in_quotes <=> s.mode = "quoted")
             /\ s.records = parsed /\ Before = s.fields
             /\ s.mode = "closed" => c # quote_char
BY ChunkByte, WalkFacts DEF Unquotes, LenientWalking, LenientStanding, LenientCopied

\* The bytes of a field that begins at the cursor.
LEMMA NothingRead ==
  ASSUME Unquotes, field_start = consumed
  PROVE  /\ Raw = <<>>
         /\ Piece = [text |-> <<>>, mode |-> IF quoted_field THEN "quoted" ELSE "plain"]
<1>1. Raw = <<>>
  BY WalkNumbers, EmptyStretch DEF Raw
<1> QED
  BY <1>1, WalkFacts, ToldNone DEF Piece

\* Where add_field stands, by where the grammar does.
LEMMA PieceModes ==
  ASSUME Unquotes
  PROVE  LET s == At(Taken + consumed)
             ahead == Piece.mode = "quoted" /\ NoQuoteAhead(chunk, consumed)
         IN  /\ Piece \in FieldPasses
             /\ s.mode = "quoted" => Piece.mode = "quoted"
             /\ s.mode = "start" => field_start = consumed /\ Piece.mode = "plain"
             /\ s.mode = "plain" => Piece.mode = "plain" \/ ahead
             /\ s.mode = "closed" => Piece.mode \in {"plain", "closed"} \/ ahead
<1> DEFINE s == At(Taken + consumed)
<1>1. LenientStanding(s) /\ LenientProgress(s)
  BY DEF Unquotes, LenientWalking
<1>2. s.mode \in LenientModes /\ (in_quotes <=> s.mode = "quoted")
  BY <1>1 DEF LenientStanding
<1>3. Piece \in FieldPasses /\ Piece.mode \in FieldModes
  <2>1. quote_char \in Char
    BY DEF Char
  <2>2. Piece \in FieldPasses
    BY <2>1, WalkFacts, ToldGrows DEF Piece
  <2> QED
    BY <2>2 DEF FieldPasses
<1> HIDE DEF s
<1>4. CASE field_start < consumed
  BY <1>1, <1>2, <1>3, <1>4, WalkNumbers DEF LenientProgress, FieldModes, s
<1>5. CASE field_start = consumed
  <2>1. Piece.mode = IF quoted_field THEN "quoted" ELSE "plain"
    BY <1>5, NothingRead
  <2> QED
    BY <1>1, <1>2, <1>3, <1>5, <2>1 DEF LenientProgress, s
<1> QED
  BY <1>4, <1>5, WalkNumbers

\* A quote where a part of a field begins: the field begins there, or nothing
\* hangs on whether add_field takes it for the opening quote.
LEMMA QuoteInside ==
  ASSUME Unquotes, field_start = consumed, consumed < Len(chunk),
         chunk[consumed + 1] = quote_char
  PROVE  LET s == At(Taken + consumed)
         IN  /\ s.mode \in {"start", "quoted"}
             /\ s.mode = "quoted" => NoQuoteAhead(chunk, consumed + 1)
<1> DEFINE s == At(Taken + consumed)
<1>1. /\ s.mode \in LenientModes \ {"closed"} /\ LenientProgress(s)
      /\ in_quotes <=> s.mode = "quoted"
      /\ file[Taken + (consumed + 1)] = quote_char
  BY LenientWalk
<1>2. CASE consumed # 0
  BY <1>1, <1>2 DEF LenientProgress
<1>3. CASE consumed = 0
  <2>1. Taken + consumed = Taken /\ Taken + (consumed + 1) = Taken + 1 /\ consumed + 1 = 1
    BY <1>3, WalkNumbers
  <2>2. s.mode \in {"plain", "quoted"} => Taken \in Cuts
    BY <1>1, <1>3 DEF LenientProgress, Fresh
  <2>3. ~LenientSensitive /\ FeedInv /\ BytesInv /\ file \in String
    BY KnownFacts DEF Unquotes, Known, Sensitive
  <2>4. ModeAt(Taken) = s.mode /\ file[Taken + 1] = quote_char
    BY <1>1, <2>1 DEF ModeAt, At
  <2>5. s.mode # "plain"
    BY <2>2, <2>3, <2>4 DEF LenientSensitive
  <2>6. ASSUME s.mode = "quoted" PROVE NoQuoteAhead(chunk, 1)
    <3>1. ~QuotesFollow(Taken, Taken + 1)
      BY <2>2, <2>3, <2>4, <2>6 DEF LenientSensitive
    <3>2. Len(chunk) <= N /\ N \in Nat
      BY <2>3, WalkNumbers DEF BytesInv
    <3>3. chunk = SubSeq(file, Taken + 1, Taken + Len(chunk))
      BY DEF Unquotes, LenientWalking, ShowsFile
    <3> QED
      BY <2>3, <3>1, <3>2, <3>3, WalkNumbers, NoneFollows
  <2> HIDE DEF s
  <2> QED
    BY <1>1, <2>1, <2>5, <2>6 DEF LenientModes, s
<1> QED
  BY <1>2, <1>3

\* The walk goes on at byte m of the chunk, where the pass stands at next.
LEMMA LenientGoes ==
  ASSUME Unquotes, Still, chunk' = chunk, status' = "parsing",
         NEW m \in Nat, consumed' = m,
         NEW next, next = At(Taken + m),
         LenientStanding(next)', LenientCopied(next)', LenientProgress(next)'
  PROVE  Answers
<1>1. Taken' = Taken /\ UNCHANGED <<file, config, start, size>>
  BY StillFacts
<1>2. At(Taken + consumed)' = next
  BY <1>1 DEF At
<1>3. ShowsFile'
  BY <1>1 DEF ShowsFile, Unquotes, LenientWalking
<1>4. LenientWalking'
  BY <1>2, <1>3 DEF LenientWalking, LenientStanding, LenientCopied, LenientProgress
<1> QED
  BY <1>1, <1>4 DEF Answers, InChunk, Unquotes

\* It goes on in the field.
LEMMA LenientGoesOn ==
  ASSUME Unquotes, Still, NEW m \in Nat, field_start < m, consumed' = m, status' = "parsing",
         UNCHANGED <<chunk, field_start, quoted_field, fields, pending_cr,
                     incomplete_last_read, pending_quote>>,
         NEW z, z = Told(SubSeq(chunk, field_start + 1, m), quoted_field),
         NEW next, next = At(Taken + m), next.records = parsed, next.fields = Before,
         next.text = HeldText \o z.text,
         next.mode \in {"plain", "quoted", "closed"}, in_quotes' <=> next.mode = "quoted",
         next.mode = "closed" => m < Len(chunk) /\ chunk[m + 1] # quote_char,
         \/ z.mode = next.mode
         \/ /\ z.mode = "quoted" /\ next.mode \in {"closed", "plain"}
            /\ NoQuoteAhead(chunk, m)
  PROVE  Answers
<1>1. Before' = Before /\ HeldText' = HeldText
  BY DEF Before, HeldText
<1>2. Piece' = z
  <2>1. PICK raw : raw = SubSeq(chunk, field_start + 1, m)
    OBVIOUS
  <2>2. Raw' = raw
    BY <2>1 DEF Raw
  <2> QED
    BY <2>1, <2>2, PieceNext
<1>3. ~pending_quote /\ (crlf => ~pending_cr) /\ crlf' = crlf /\ parsed' = parsed
      /\ config' = config
  BY StillFacts DEF Unquotes, LenientWalking, LenientStanding
<1>4. LenientStanding(next)'
  BY <1>3 DEF LenientStanding, LenientModes
<1>5. LenientCopied(next)'
  BY <1>1, <1>2 DEF LenientCopied
<1>6. LenientProgress(next)'
  <2>1. field_start' # consumed'
    BY WalkNumbers
  <2>2. NoQuoteAhead(chunk, m) => NoQuoteAhead(chunk, consumed)'
    BY <1>3 DEF NoQuoteAhead
  <2> QED
    BY <1>2, <2>1, <2>2 DEF LenientProgress
<1> QED
  BY <1>4, <1>5, <1>6, LenientGoes

\* A byte behind the text of the field.
LEMMA TextGrows ==
  ASSUME Unquotes, NEW s, LenientCopied(s), NEW c \in Char
  PROVE  Append(s.text, c) = HeldText \o Append(Piece.text, c)
<1>1. HeldText \in Seq(Char)
  BY WalkFacts DEF String
<1>2. Piece.text \in Seq(Char)
  BY PieceModes DEF FieldPasses, String
<1> QED
  BY <1>1, <1>2, ConcatAppend DEF LenientCopied

\* A byte of the field.
LEMMA LenientByteAnswers ==
  ASSUME Unquotes, Still, Lenient!SkipByte \/ Lenient!QuoteCloses \/ Lenient!QuoteOpensField
  PROVE  Answers
<1> DEFINE s == At(Taken + consumed)
           c == chunk[consumed + 1]
           m == consumed + 1
           next == At(Taken + m)
           nl == newline(config.line_ending)
           z == Told(SubSeq(chunk, field_start + 1, m), quoted_field)
<1>1. /\ consumed < Len(chunk) /\ consumed' = m /\ status' = "parsing"
      /\ UNCHANGED <<chunk, field_start, quoted_field, fields, pending_cr,
                     incomplete_last_read, pending_quote>>
  BY DEF Lenient!SkipByte, Lenient!QuoteCloses, Lenient!QuoteOpensField, Lenient!OnByte,
     Lenient!Advance, Lenient!locals, Unquotes
<1>2. /\ s \in Passes /\ c \in Char /\ next = ReadByte(config, s, c) /\ LenientCopied(s)
      /\ s.mode \in LenientModes /\ (in_quotes <=> s.mode = "quoted")
      /\ s.records = parsed /\ Before = s.fields
      /\ s.mode = "closed" => c # quote_char
  BY <1>1, LenientWalk
<1>3. m \in Nat /\ field_start < m /\ m <= Len(chunk)
  BY <1>1, WalkNumbers
<1>4. /\ config.has_quoting /\ config.parse_mode = "lenient"
      /\ quote_char # delimiter /\ quote_char # nl
  BY NewlineByte, CharAssumption DEF Unquotes
<1>5. /\ Piece \in FieldPasses
      /\ s.mode = "quoted" => Piece.mode = "quoted"
      /\ s.mode = "start" => field_start = consumed /\ Piece.mode = "plain"
      /\ LET ahead == Piece.mode = "quoted" /\ NoQuoteAhead(chunk, consumed)
         IN  /\ s.mode = "plain" => Piece.mode = "plain" \/ ahead
             /\ s.mode = "closed" => Piece.mode \in {"plain", "closed"} \/ ahead
  BY PieceModes
<1>6. /\ Raw # <<>> \/ c # quote_char => z = FieldByte(Piece, c)
      /\ Raw = <<>> /\ c = quote_char => z = [text |-> <<>>, mode |-> "quoted"]
  <2>1. Raw \in String /\ SubSeq(chunk, field_start + 1, m) = Append(Raw, c)
    BY <1>1, RawGrows, KnownFacts DEF Unquotes
  <2> HIDE DEF c, m
  <2> QED
    BY <1>2, <2>1, WalkFacts, ToldGrows DEF Piece
<1>7. /\ Append(s.text, c) = HeldText \o Append(Piece.text, c)
      /\ s.text = HeldText \o Piece.text
  BY <1>2, TextGrows DEF LenientCopied
<1>8. Raw = <<>> <=> field_start = consumed
  <2>1. field_start = consumed => Raw = <<>>
    BY NothingRead
  <2>2. Len(Raw) = consumed - field_start
    BY <1>1, RawGrows, KnownFacts DEF Unquotes
  <2>3. Len(<<>>) = 0 /\ consumed \in Nat /\ field_start \in Nat
    BY WalkNumbers
  <2> QED
    BY <2>1, <2>2, <2>3
<1>9. CASE in_quotes /\ c # quote_char /\ in_quotes' = in_quotes
  <2>1. next = Pass(s.records, s.fields, Append(s.text, c), "quoted")
    BY <1>2, <1>4, <1>9, QuotingByte
  <2>2. /\ next.records = parsed /\ next.fields = Before /\ next.text = Append(s.text, c)
        /\ next.mode = "quoted"
    BY <1>2, <2>1 DEF Pass
  <2>3. z = [text |-> Append(Piece.text, c), mode |-> "quoted"]
    BY <1>2, <1>5, <1>6, <1>9 DEF FieldByte
  <2> HIDE DEF s, c, m, next, z
  <2>4. next.text = HeldText \o z.text /\ z.mode = next.mode
    BY <1>7, <2>2, <2>3
  <2> QED
    BY <1>1, <1>3, <1>9, <2>2, <2>4, LenientGoesOn DEF z, next
<1>10. CASE ~in_quotes /\ c # quote_char /\ c # nl /\ c # delimiter /\ in_quotes' = in_quotes
  <2>1. next = Pass(s.records, s.fields, Append(s.text, c), "plain")
    BY <1>2, <1>4, <1>10, QuotingByte, LenientByte DEF LenientModes
  <2>2. /\ next.records = parsed /\ next.fields = Before /\ next.text = Append(s.text, c)
        /\ next.mode = "plain"
    BY <1>2, <2>1 DEF Pass
  <2>3. \/ Piece.mode \in {"plain", "closed"}
        \/ Piece.mode = "quoted" /\ NoQuoteAhead(chunk, consumed)
    BY <1>2, <1>5, <1>10 DEF LenientModes
  <2>4. NoQuoteAhead(chunk, consumed) => NoQuoteAhead(chunk, m)
    <3> SUFFICES ASSUME NoQuoteAhead(chunk, consumed), NEW i \in m + 1 .. Len(chunk),
                        chunk[i] = quote_char
                 PROVE  \E k \in m + 1 .. i - 1 : chunk[k] \in {delimiter, nl}
      BY DEF NoQuoteAhead
    <3>1. i \in consumed + 1 .. Len(chunk)
      BY <1>3, WalkNumbers
    <3>2. PICK k \in consumed + 1 .. i - 1 : chunk[k] \in {delimiter, nl}
      BY <3>1 DEF NoQuoteAhead
    <3>3. k # consumed + 1
      BY <1>10, <3>2
    <3>4. k \in m + 1 .. i - 1
      BY <3>2, <3>3, WalkNumbers
    <3> QED
      BY <3>2, <3>4
  <2>5. z.text = Append(Piece.text, c)
        /\ z.mode = IF Piece.mode = "quoted" THEN "quoted" ELSE "plain"
    BY <1>6, <1>10, <2>3 DEF FieldByte
  <2>6. z.mode = "plain" \/ (z.mode = "quoted" /\ NoQuoteAhead(chunk, m))
    BY <2>3, <2>4, <2>5
  <2> HIDE DEF s, c, m, next, z
  <2>7. next.text = HeldText \o z.text
    BY <1>7, <2>2, <2>5
  <2> QED
    BY <1>1, <1>2, <1>3, <1>10, <2>2, <2>6, <2>7, LenientGoesOn DEF z, next
<1>11. CASE ~in_quotes /\ c = quote_char /\ consumed # field_start /\ in_quotes' = in_quotes
  <2>1. s.mode = "plain"
    BY <1>2, <1>5, <1>11 DEF LenientModes
  <2>2. next = Pass(s.records, s.fields, Append(s.text, c), "plain")
    BY <1>2, <1>4, <1>11, <2>1, LenientByte
  <2>3. /\ next.records = parsed /\ next.fields = Before /\ next.text = Append(s.text, c)
        /\ next.mode = "plain"
    BY <1>2, <2>2 DEF Pass
  <2>4. ~NoQuoteAhead(chunk, consumed)
    <3>1. consumed + 1 \in consumed + 1 .. Len(chunk)
          /\ ~\E k \in consumed + 1 .. (consumed + 1) - 1 : TRUE
      BY <1>1, WalkNumbers
    <3> QED
      BY <1>11, <3>1 DEF NoQuoteAhead
  <2>5. z = [text |-> Append(Piece.text, c), mode |-> "plain"]
    BY <1>5, <1>6, <1>8, <1>11, <2>1, <2>4 DEF FieldByte
  <2> HIDE DEF s, c, m, next, z
  <2>6. next.text = HeldText \o z.text /\ z.mode = next.mode
    BY <1>7, <2>3, <2>5
  <2> QED
    BY <1>1, <1>2, <1>3, <1>11, <2>1, <2>3, <2>6, LenientGoesOn DEF z, next
<1>12. CASE /\ in_quotes /\ c = quote_char /\ m # Len(chunk) /\ chunk[m + 1] # quote_char
            /\ in_quotes' = FALSE
  <2>1. next = Pass(s.records, s.fields, s.text, "closed")
    BY <1>2, <1>4, <1>12, QuotingByte
  <2>2. /\ next.records = parsed /\ next.fields = Before /\ next.text = s.text
        /\ next.mode = "closed"
    BY <1>2, <2>1 DEF Pass
  <2>3. m < Len(chunk)
    BY <1>3, <1>12, WalkNumbers
  <2>4. /\ z.text = Piece.text
        /\ z.mode = "closed" \/ (z.mode = "quoted" /\ NoQuoteAhead(chunk, m))
    <3>1. CASE Raw # <<>>
      <4>1. z = [text |-> Piece.text, mode |-> "closed"]
        BY <1>2, <1>5, <1>6, <1>12, <3>1 DEF FieldByte
      <4> QED
        BY <4>1
    <3>2. CASE Raw = <<>>
      <4>1. z = [text |-> <<>>, mode |-> "quoted"]
        BY <1>6, <1>12, <3>2
      <4>2. Piece.text = <<>>
        BY <1>8, <3>2, NothingRead
      <4>3. NoQuoteAhead(chunk, m)
        BY <1>1, <1>2, <1>8, <1>12, <3>2, QuoteInside
      <4> QED
        BY <4>1, <4>2, <4>3
    <3> QED
      BY <3>1, <3>2
  <2> HIDE DEF s, c, m, next, z
  <2>5. next.text = HeldText \o z.text
    BY <1>7, <2>2, <2>4
  <2> QED
    BY <1>1, <1>3, <1>12, <2>3, <2>2, <2>4, <2>5, LenientGoesOn DEF z, next
<1>13. CASE ~in_quotes /\ c = quote_char /\ consumed = field_start /\ in_quotes' = TRUE
  <2>1. s.mode = "start"
    BY <1>1, <1>2, <1>13, QuoteInside
  <2>2. next = Pass(s.records, s.fields, s.text, "quoted")
    BY <1>2, <1>4, <1>13, <2>1, QuotingByte
  <2>3. /\ next.records = parsed /\ next.fields = Before /\ next.text = s.text
        /\ next.mode = "quoted"
    BY <1>2, <2>2 DEF Pass
  <2>4. z = [text |-> <<>>, mode |-> "quoted"] /\ Piece.text = <<>>
    BY <1>6, <1>8, <1>13, NothingRead
  <2> HIDE DEF s, c, m, next, z
  <2>5. next.text = HeldText \o z.text /\ z.mode = next.mode
    BY <1>7, <2>3, <2>4
  <2> QED
    BY <1>1, <1>3, <1>13, <2>3, <2>5, LenientGoesOn DEF z, next
<1>14. CASE Lenient!SkipByte
  <2>1. in_quotes' = in_quotes
    BY <1>14 DEF Lenient!SkipByte
  <2>2. \/ in_quotes /\ c # quote_char
        \/ ~in_quotes /\ c = quote_char /\ consumed # field_start
        \/ ~in_quotes /\ c # quote_char /\ c # nl /\ c # delimiter
    BY <1>14 DEF Lenient!SkipByte, Lenient!is_quote, Lenient!is_newline, Lenient!is_delim,
       Lenient!at, Lenient!newline, newline
  <2> HIDE DEF s, c, m, next, z, nl
  <2> QED
    BY <1>9, <1>10, <1>11, <2>1, <2>2
<1>15. CASE Lenient!QuoteCloses
  BY <1>12, <1>15 DEF Lenient!QuoteCloses, Lenient!is_quote, Lenient!at, Lenient!LastByte,
     Lenient!is_end
<1>16. CASE Lenient!QuoteOpensField
  BY <1>13, <1>16 DEF Lenient!QuoteOpensField, Lenient!is_quote, Lenient!at
<1> QED
  BY <1>14, <1>15, <1>16

\* A pair of quotes inside quotes.
LEMMA LenientPairAnswers ==
  ASSUME Unquotes, Still, Lenient!EscapedQuote
  PROVE  Answers
<1> DEFINE s == At(Taken + consumed)
           q == quote_char
           k == consumed + 1
           m == consumed + 2
           next == At(Taken + m)
           z == Told(SubSeq(chunk, field_start + 1, m), quoted_field)
<1>1. /\ consumed < Len(chunk) /\ in_quotes /\ chunk[k] = q /\ k # Len(chunk) /\ chunk[k + 1] = q
      /\ consumed' = m /\ status' = "parsing" /\ in_quotes' = in_quotes
      /\ UNCHANGED <<chunk, field_start, quoted_field, fields, pending_cr,
                     incomplete_last_read, pending_quote>>
  BY DEF Lenient!EscapedQuote, Lenient!OnByte, Lenient!Advance, Lenient!is_quote, Lenient!at,
     Lenient!LastByte, Lenient!is_end, Lenient!locals, Unquotes
<1>2. /\ m \in Nat /\ field_start < m /\ m <= Len(chunk) /\ k \in Nat /\ k < Len(chunk) /\ k + 1 = m
      /\ field_start <= k /\ field_start \in Nat
  BY <1>1, WalkNumbers
<1>3. /\ s \in Passes /\ q \in Char /\ At(Taken + k) = ReadByte(config, s, q)
      /\ At(Taken + k) \in Passes /\ LenientCopied(s)
      /\ s.mode = "quoted" /\ s.records = parsed /\ Before = s.fields
  BY <1>1, LenientWalk
<1>4. next = ReadByte(config, At(Taken + k), q)
  <2> HIDE DEF k, m
  <2>1. At(Taken + (k + 1)) = ReadByte(config, At(Taken + k), chunk[k + 1])
    BY <1>2, ChunkByte
  <2> QED
    BY <1>1, <1>2, <2>1
<1>5. next.records = parsed /\ next.fields = Before /\ next.text = Append(s.text, q)
      /\ next.mode = "quoted"
  <2> HIDE DEF s, q, k, m, next
  <2>1. At(Taken + k) = Pass(s.records, s.fields, s.text, "closed")
    BY <1>3, QuotingByte DEF Unquotes, q
  <2>2. /\ At(Taken + k).mode = "closed" /\ At(Taken + k).records = s.records
        /\ At(Taken + k).fields = s.fields /\ At(Taken + k).text = s.text
    BY <2>1 DEF Pass
  <2>3. next = Pass(s.records, s.fields, Append(s.text, q), "quoted")
    BY <1>3, <1>4, <2>2, QuotingByte DEF Unquotes, q
  <2>4. /\ next.records = s.records /\ next.fields = s.fields
        /\ next.text = Append(s.text, q) /\ next.mode = "quoted"
    BY <2>3 DEF Pass
  <2> QED
    BY <1>3, <2>4
<1>6. Raw # <<>>
  <2> SUFFICES ASSUME Raw = <<>> PROVE FALSE
    OBVIOUS
  <2>1. field_start = consumed
    <3>1. Len(Raw) = consumed - field_start
      BY <1>1, RawGrows, KnownFacts DEF Unquotes
    <3>2. Len(<<>>) = 0 /\ consumed \in Nat /\ field_start \in Nat
      BY WalkNumbers
    <3> QED
      BY <3>1, <3>2
  <2>2. NoQuoteAhead(chunk, k)
    BY <1>1, <1>3, <2>1, QuoteInside
  <2>3. k + 1 \in k + 1 .. Len(chunk) /\ ~\E i \in k + 1 .. (k + 1) - 1 : TRUE
    BY <1>2, WalkNumbers
  <2> QED
    BY <1>1, <2>2, <2>3 DEF NoQuoteAhead
<1>7. /\ z.text = Append(Piece.text, q) /\ z.mode = "quoted"
  <2> DEFINE first == Append(Raw, q)
             z1 == Told(first, quoted_field)
  <2>1. Raw \in String /\ SubSeq(chunk, field_start + 1, k) = first /\ first \in String
    BY <1>1, RawGrows, KnownFacts DEF Unquotes
  <2>2. SubSeq(chunk, field_start + 1, k + 1) = Append(first, q)
    <3>1. chunk \in Seq(Char)
      BY WalkFacts
    <3> HIDE DEF k, first
    <3>2. SubSeq(chunk, field_start + 1, k + 1)
            = Append(SubSeq(chunk, field_start + 1, k), chunk[k + 1])
      BY <1>2, <3>1, StretchGrows
    <3> QED
      BY <1>1, <2>1, <3>2
  <2>3. z1 = FieldByte(Piece, q)
    BY <1>3, <1>6, <2>1, WalkFacts, ToldGrows DEF Piece
  <2>4. z1 = [text |-> Piece.text, mode |-> "closed"]
    <3>1. Piece.mode = "quoted"
      BY <1>3, PieceModes
    <3> QED
      BY <2>3, <3>1 DEF FieldByte
  <2>5. first # <<>>
    BY <2>1, AppendProperties DEF String
  <2> HIDE DEF first
  <2>6. Told(Append(first, q), quoted_field) = FieldByte(z1, q)
    BY <1>3, <2>1, <2>5, WalkFacts, ToldGrows
  <2>7. z = FieldByte(z1, q)
    BY <1>2, <2>2, <2>6
  <2> HIDE DEF z, z1
  <2> QED
    BY <2>4, <2>7 DEF FieldByte
<1>8. Append(s.text, q) = HeldText \o Append(Piece.text, q)
  BY <1>3, TextGrows
<1> HIDE DEF s, q, k, m, next, z
<1>9. next.text = HeldText \o z.text /\ z.mode = next.mode
  BY <1>5, <1>7, <1>8
<1> QED
  BY <1>1, <1>2, <1>5, <1>9, LenientGoesOn DEF z, next

\* A delimiter ends the field.
LEMMA LenientDelimAnswers ==
  ASSUME Unquotes, Still, Lenient!DelimEndsField
  PROVE  Answers
<1> DEFINE s == At(Taken + consumed)
           m == consumed + 1
           next == At(Taken + m)
<1>1. /\ consumed < Len(chunk) /\ ~in_quotes /\ chunk[consumed + 1] = delimiter
      /\ consumed' = m /\ status' = "parsing" /\ fields' = Lenient!WithField(consumed)
      /\ incomplete_last_read' = FALSE /\ quoted_field' = FALSE /\ field_start' = m
      /\ UNCHANGED <<chunk, pending_cr, in_quotes, pending_quote>>
  BY DEF Lenient!DelimEndsField, Lenient!OnByte, Lenient!Advance, Lenient!is_delim, Lenient!at,
     Lenient!Continue, Unquotes
<1>2. /\ s \in Passes /\ delimiter \in Char /\ next = ReadByte(config, s, delimiter)
      /\ LenientCopied(s) /\ s.mode \in {"start", "plain", "closed"} /\ s.records = parsed
      /\ ~pending_quote /\ (crlf => ~pending_cr)
  BY <1>1, LenientWalk DEF LenientModes, LenientStanding
<1>3. next = Pass(s.records, Open(s), <<>>, "start")
  BY <1>2, QuotingByte DEF Unquotes
<1>4. PICK n : n = next
  OBVIOUS
<1>5. /\ n.records = parsed /\ n.fields = Open(s) /\ n.text = <<>> /\ n.mode = "start"
      /\ Open(s) \in Seq(String) /\ Open(s) # <<>>
  BY <1>2, <1>3, <1>4, FieldEnded DEF Pass
<1>6. fields' = Open(s)
  BY <1>1, <1>2, LenientFieldIsOpen
<1>7. m \in Nat /\ m # 0
  BY <1>1, WalkNumbers
<1> HIDE DEF s, m, next
<1>8. LenientStanding(n)'
  BY <1>1, <1>2, <1>5, StillFacts DEF LenientStanding, LenientModes
<1>9. LenientCopied(n)'
  <2>1. Before' = n.fields /\ HeldText' = n.text /\ HeldText' \in String
    BY <1>1, <1>5, <1>6, EmptySeq DEF Before, HeldText, String
  <2> QED
    BY <1>1, <1>7, <2>1, LenientCopiedNone
<1>10. LenientProgress(n)'
  BY <1>1, <1>5, <1>7 DEF LenientProgress, Fresh
<1>11. n = At(Taken + m)
  BY <1>4 DEF next
<1> QED
  BY <1>1, <1>7, <1>8, <1>9, <1>10, <1>11, LenientGoes

\* The chunk ends in a quote that may close the field, or inside the field.
LEMMA LenientEndAnswers ==
  ASSUME Unquotes, Still, Lenient!QuoteEndsChunk \/ Lenient!ChunkEnds
  PROVE  Answers
<1>1. CASE Lenient!QuoteEndsChunk
  <2> DEFINE s == At(Taken + consumed)
             m == consumed + 1
             next == At(Taken + m)
  <2>1. /\ consumed < Len(chunk) /\ in_quotes /\ chunk[consumed + 1] = quote_char
        /\ m = Len(chunk) /\ consumed' = m /\ fields' = Lenient!WithField(consumed)
        /\ in_quotes' = FALSE /\ pending_quote' = TRUE /\ incomplete_last_read' = TRUE
        /\ status' = "need_more_data" /\ pending_cr' = pending_cr
    BY <1>1 DEF Lenient!QuoteEndsChunk, Lenient!OnByte, Lenient!is_quote,
       Lenient!LastByte, Lenient!is_end, Lenient!at, Lenient!Advance, Lenient!Return
  <2>2. /\ s \in Passes /\ quote_char \in Char /\ next = ReadByte(config, s, quote_char)
        /\ LenientCopied(s) /\ s.mode = "quoted" /\ s.records = parsed
        /\ (crlf => ~pending_cr)
    BY <2>1, LenientWalk DEF LenientStanding
  <2>3. next = Pass(s.records, s.fields, s.text, "closed")
    BY <2>2, QuotingByte DEF Unquotes
  <2>4. /\ next.mode = "closed" /\ next.records = parsed /\ Open(next) = Open(s)
    BY <2>2, <2>3 DEF Open, Pass
  <2>5. fields' = Left(next) /\ ~Fresh(next)
    BY <2>1, <2>2, <2>4, LenientFieldIsOpen DEF Left, Fresh
  <2>6. m \in Nat /\ m # 0
    BY <2>1, WalkNumbers
  <2> HIDE DEF s, m, next
  <2>7. next = At(Taken + m)
    BY DEF next
  <2> QED
    BY <2>1, <2>2, <2>4, <2>5, <2>6, <2>7, HoldsAll
<1>2. CASE Lenient!ChunkEnds
  <2>1. /\ consumed = Len(chunk) /\ fields' = Lenient!WithField(consumed)
        /\ incomplete_last_read' = TRUE /\ status' = "need_more_data"
        /\ pending_cr' = (pending_cr \/ (crlf /\ ~in_quotes /\ chunk[(consumed - 1) + 1] = CR))
        /\ UNCHANGED <<consumed, in_quotes, pending_quote>>
    BY <1>2 DEF Lenient!ChunkEnds, Lenient!is_end, Lenient!at, Lenient!Return, Lenient!crlf, crlf
  <2>2. consumed \in Nat /\ consumed # 0 /\ (consumed - 1) + 1 = consumed
    <3>1. Len(chunk) # 0
      BY WalkFacts, EmptySeq
    <3> QED
      BY <2>1, <3>1, WalkNumbers
  <2>3. PICK s : s = At(Taken + consumed)
    OBVIOUS
  <2>4. LenientStanding(s) /\ LenientCopied(s) /\ LenientProgress(s)
    BY <2>3 DEF Unquotes, LenientWalking
  <2>5. /\ s.mode \in {"start", "plain", "quoted"} /\ s.records = parsed
        /\ in_quotes <=> s.mode = "quoted"
        /\ ~pending_quote /\ (crlf => ~pending_cr)
    BY <2>1, <2>4, WalkNumbers DEF LenientStanding, LenientModes
  <2>6. ~Fresh(s)
    <3>1. s.mode = "start" => field_start = consumed
      BY <2>3, PieceModes
    <3> QED
      BY <2>2, <2>4, <3>1 DEF LenientProgress, Fresh
  <2>7. fields' = Left(s)
    BY <2>1, <2>4, <2>5, LenientFieldIsOpen DEF Left
  <2>8. ASSUME crlf PROVE pending_cr' <=> s.mode = "plain" /\ chunk[consumed] = CR
    <3>1. /\ chunk[consumed] = file[Taken + consumed] /\ Taken + consumed \in Nat
          /\ Taken + consumed # 0 /\ Taken + consumed <= Len(file)
      BY <2>2, ByteBefore
    <3>2. s.mode = "start" => file[Taken + consumed] # CR
      <4>1. file \in String
        BY WalkFacts
      <4> QED
        BY <2>3, <2>8, <3>1, <4>1, EndsAt
    <3>3. pending_cr' <=> ~in_quotes /\ chunk[consumed] = CR
      BY <2>1, <2>2, <2>5, <2>8
    <3> QED
      BY <2>5, <3>1, <3>2, <3>3
  <2> DEFINE m == consumed
  <2>9. m \in Nat /\ m = Len(chunk) /\ m # 0 /\ consumed' = m /\ s = At(Taken + m)
    BY <2>1, <2>2, <2>3
  <2>10. crlf => (pending_cr' <=> s.mode = "closed_cr" \/ (s.mode = "plain" /\ chunk[m] = CR))
    BY <2>5, <2>8
  <2>11. /\ s.mode \notin {"bad", "closed", "closed_cr"}
         /\ in_quotes' <=> s.mode = "quoted"
         /\ pending_quote' <=> s.mode \in {"closed", "closed_cr"}
    BY <2>1, <2>5
  <2> HIDE DEF m
  <2> QED
    BY <2>1, <2>5, <2>6, <2>7, <2>9, <2>10, <2>11, HoldsAll
<1> QED
  BY <1>1, <1>2

\* The field without the '\r' before the newline.
LEMMA LenientFieldKept ==
  ASSUME Unquotes, crlf, NEW s \in Passes, LenientCopied(s), EndsInCr(s),
         field_start < consumed, chunk[consumed] = CR
  PROVE  Lenient!WithField(consumed - 1) = Append(s.fields, Kept(s))
<1> DEFINE b == consumed - 1
           front == SubSeq(chunk, field_start + 1, b)
           told == Told(front, quoted_field)
           text == HeldText \o told.text
<1>1. /\ chunk \in Seq(Char) /\ field_start \in Nat /\ b \in Nat /\ field_start <= b
      /\ b < Len(chunk) /\ b + 1 = consumed /\ b <= Len(chunk) /\ CR \in Char
      /\ CR # quote_char
  <2>1. CR \in Char /\ CR # quote_char
    BY CharAssumption DEF Char
  <2>2. chunk \in Seq(Char)
    BY WalkFacts
  <2>3. /\ field_start \in Nat /\ consumed \in Nat /\ consumed <= Len(chunk)
        /\ Len(chunk) \in Nat
    BY WalkNumbers
  <2> QED
    BY <2>1, <2>2, <2>3
<1>2. front \in String /\ Raw = Append(front, CR)
  <2> HIDE DEF b
  <2>1. SubSeq(chunk, field_start + 1, b + 1) = Append(front, chunk[b + 1]) /\ front \in Seq(Char)
    BY <1>1, StretchGrows, StretchIsSeq
  <2> QED
    BY <1>1, <2>1 DEF Raw, String
<1>3. Lenient!WithField(b) = Append(Before, text)
  <2> HIDE DEF b
  <2> QED
    BY <1>1, LenientWithFieldIs
<1> HIDE DEF front
<1>4. told \in FieldPasses /\ Piece = FieldByte(told, CR)
  BY <1>1, <1>2, WalkFacts, ToldGrows DEF Piece
<1> HIDE DEF told
<1>5. Piece.text = Append(told.text, CR) /\ told.text \in Seq(Char)
  BY <1>1, <1>4 DEF FieldByte, FieldPasses, FieldModes, String
<1>6. HeldText \in Seq(Char)
  BY WalkFacts DEF String
<1>7. text \in Seq(Char) /\ HeldText \o Append(told.text, CR) = Append(text, CR)
  BY <1>1, <1>5, <1>6, ConcatAppend, ConcatProperties
<1>8. s.text = Append(text, CR) /\ Before = s.fields
  BY <1>5, <1>7 DEF LenientCopied
<1> HIDE DEF text
<1>9. SubSeq(s.text, 1, Len(s.text) - 1) = text
  BY <1>1, <1>7, <1>8, FrontOfAppend
<1> QED
  BY <1>3, <1>8, <1>9 DEF Kept

\* A newline outside quotes.
LEMMA LenientNewlineAnswers ==
  ASSUME Unquotes, Still, Lenient!NewlineEndsRecord
  PROVE  Answers
<1> DEFINE s == At(Taken + consumed)
           nl == newline(config.line_ending)
           m == consumed + 1
           next == At(Taken + m)
           preceded == consumed > 0 /\ chunk[consumed] = CR
<1>1. /\ consumed \in Nat /\ Taken + consumed \in Nat /\ Taken + consumed <= Len(file)
      /\ file \in String /\ m \in Nat /\ Taken \in Nat /\ consumed <= Len(chunk)
      /\ Len(chunk) \in Nat /\ field_start \in Nat /\ field_start <= consumed
  <2>1. file \in String
    BY WalkFacts
  <2> QED
    BY <2>1, WalkNumbers
<1>2. /\ consumed < Len(chunk) /\ ~in_quotes /\ chunk[consumed + 1] = nl
      /\ consumed' = m /\ status' = "complete"
      /\ fields' = Lenient!WithField(IF crlf /\ preceded THEN consumed - 1 ELSE consumed)
  <2>1. consumed > 0 => (consumed - 1) + 1 = consumed
    BY <1>1
  <2> QED
    BY <2>1 DEF Lenient!NewlineEndsRecord, Lenient!OnByte, Lenient!Advance, Lenient!is_newline,
       Lenient!at, Lenient!Return, Lenient!PrecededByCr, Lenient!crlf, crlf,
       Lenient!newline, newline
<1>3. /\ s \in Passes /\ nl \in Char /\ next = ReadByte(config, s, nl)
      /\ LenientCopied(s) /\ LenientProgress(s)
      /\ s.mode \in {"start", "plain", "closed"} /\ s.records = parsed
  BY <1>2, LenientWalk DEF LenientModes
<1>4. ~Refused(s) /\ config.has_quoting /\ config.parse_mode = "lenient"
  BY DEF Refused, Unquotes
<1>5. next = Pass(Append(parsed, Row(s)), <<>>, <<>>, "start")
  <2> HIDE DEF s, nl, next
  <2>1. ReadByte(config, s, nl) = Pass(Append(s.records, Row(s)), <<>>, <<>>, "start")
    BY <1>3, <1>4, QuotingByte DEF nl
  <2> QED
    BY <1>3, <2>1
<1>6. ASSUME crlf /\ preceded PROVE fields' = Row(s)
  <2>1. /\ chunk[consumed] = file[Taken + consumed] /\ Taken + consumed # 0
        /\ field_start < consumed
    BY <1>1, <1>6, ByteBefore, CharAssumption
  <2>2. s.mode # "closed"
    BY <1>1, <1>4, <1>6, <2>1, LenientAt, CharAssumption
  <2>3. EndsInCr(s)
    BY <1>1, <1>3, <1>6, <2>1, <2>2, EndsAt
  <2> QED
    BY <1>2, <1>3, <1>4, <1>6, <2>1, <2>3, LenientFieldKept, QuotingRow
<1>7. ASSUME ~(crlf /\ preceded) PROVE fields' = Row(s)
  <2>1. crlf => ~EndsInCr(s)
    <3> SUFFICES ASSUME crlf, EndsInCr(s) PROVE FALSE
      OBVIOUS
    <3>1. s.mode = "plain" /\ file[Taken + consumed] = CR
      BY <1>1, <1>3, EndsAt DEF EndsInCr
    <3>2. CASE consumed # 0
      BY <1>1, <1>7, <3>1, <3>2, ByteBefore
    <3>3. CASE consumed = 0
      <4>1. field_start = consumed /\ Taken + consumed = Taken /\ chunk[1] = LF
        BY <1>1, <1>2, <3>3, NewlineByte
      <4> QED
        BY <1>3, <3>1, <3>3, <4>1 DEF LenientProgress
    <3> QED
      BY <3>2, <3>3
  <2> QED
    BY <1>2, <1>3, <1>4, <1>7, <2>1, LenientFieldIsOpen, QuotingRow
<1>8. fields' = Row(s) /\ m <= Len(chunk)
  BY <1>1, <1>2, <1>6, <1>7
<1> HIDE DEF s, m, preceded
<1> QED
  BY <1>1, <1>2, <1>5, <1>8, Completes DEF next

\* Every step inside parse() of the lenient parser.
LEMMA LenientStepAnswers ==
  ASSUME Unquotes, Still, Lenient!Step
  PROVE  Answers
BY LenientNewlineAnswers, LenientDelimAnswers, LenientPairAnswers, LenientEndAnswers,
   LenientByteAnswers DEF Lenient!Step

-----------------------------------------------------------------------------
(***************************************************************************)
(* A call of parse().                                                       *)
(***************************************************************************)
\* The reader is about to parse what the buffer shows.
Calls == Known /\ RecInv /\ pc = "next" /\ status = "idle" /\ ~buffer_empty

\* The parser holds nothing, or the last chunk ended inside the record.
LEMMA EntryFacts ==
  ASSUME Calls
  PROVE  LET s == At(Taken)
             n == Len(buffer_view)
         IN  /\ buffer_view = SubSeq(file, Taken + 1, Taken + n)
             /\ buffer_view \in String /\ buffer_view # <<>>
             /\ n \in Nat /\ n # 0 /\ start + n = size /\ n = size - start
             /\ Taken \in Nat /\ Taken + n <= Len(file) /\ Taken < Len(file)
             /\ start \in Nat /\ size \in Nat /\ Len(file) \in Nat
             /\ s \in Passes /\ parsed = s.records
             /\ (Nothing /\ Fresh(s)) \/ (InRecord(Taken) /\ Taken \in Cuts)
             /\ Nothing \/ (~config.mapped_buffer /\ Taken % N = 0)
<1> DEFINE k == size - start
<1>1. FeedInv /\ BytesInv /\ Known /\ AtTop
  BY KnownFacts DEF Calls, RecInv
<1>2. /\ Taken \in Nat /\ start \in Nat /\ size \in Nat /\ start <= size
      /\ Taken + (size - start) <= Len(file) /\ Len(file) \in Nat /\ file \in String
  BY <1>1, KnownFacts
<1>3. start # size
  BY <1>2 DEF Calls, buffer_empty, Stream!empty, Mapped!empty
<1>4. k \in Nat /\ k # 0 /\ start + k = size /\ Taken + k <= Len(file) /\ Taken < Len(file)
  BY <1>2, <1>3
<1>5. buffer_view = SubSeq(file, Taken + 1, Taken + k)
  BY <1>1, ViewIsStretch
<1>6. buffer_view \in String /\ Len(buffer_view) = k
  <2> HIDE DEF k
  <2> QED
    BY <1>2, <1>4, <1>5, StretchBytes
<1>7. buffer_view # <<>>
  <2> HIDE DEF k
  <2> QED
    BY <1>4, <1>6
<1>8. At(Taken) \in Passes
  BY <1>2, <1>4, AtBytes
<1>9. ~Done
  BY DEF Calls, Done, spent
<1>10. (Nothing /\ Between) \/ (Within(Taken) /\ ~config.mapped_buffer /\ Taken % N = 0)
  BY <1>1, <1>3, <1>9 DEF AtTop
<1>11. Within(Taken) /\ ~config.mapped_buffer /\ Taken % N = 0 => Taken \in Cuts
  <2> SUFFICES ASSUME Within(Taken), ~config.mapped_buffer, Taken % N = 0
               PROVE  Taken \in Cuts
    OBVIOUS
  <2>1. Taken # 0
    <3>1. At(0) = Start /\ Fresh(Start)
      BY <1>2, AtBytes, StartPass
    <3>2. ~Fresh(At(Taken))
      BY DEF Within, InRecord
    <3> QED
      BY <3>1, <3>2
  <2>2. Taken \in 1 .. Len(file) - 1
    BY <1>2, <1>4, <2>1
  <2> QED
    BY <2>2 DEF Cuts
<1> HIDE DEF k
<1> QED
  BY <1>2, <1>4, <1>5, <1>6, <1>7, <1>8, <1>10, <1>11 DEF Between, Within, k

\* The first byte of the chunk.
LEMMA EntryByte ==
  ASSUME Calls
  PROVE  LET s == At(Taken)
             c == buffer_view[1]
         IN  /\ c \in Char /\ c = file[Taken + 1] /\ Taken + 1 \in 0 .. Len(file)
             /\ s \in Passes /\ At(Taken + 1) \in Passes
             /\ At(Taken + 1) = ReadByte(config, s, c)
<1>1. /\ Taken \in Nat /\ Taken < Len(file) /\ Len(file) \in Nat /\ file \in String
      /\ Taken + Len(buffer_view) <= Len(file) /\ Len(buffer_view) \in Nat
      /\ Len(buffer_view) # 0
      /\ buffer_view = SubSeq(file, Taken + 1, Taken + Len(buffer_view))
  <2>1. file \in String
    BY KnownFacts DEF Calls
  <2> QED
    BY <2>1, EntryFacts
<1>2. buffer_view[1] = file[Taken + 1]
  <2> DEFINE n == Len(buffer_view)
  <2>1. n \in Nat /\ Taken + n <= Len(file) /\ 1 \in 1 .. n
    BY <1>1
  <2>2. buffer_view = SubSeq(file, Taken + 1, Taken + n)
    BY <1>1
  <2> HIDE DEF n
  <2> QED
    BY <1>1, <2>1, <2>2, StretchBytes
<1> QED
  BY <1>1, <1>2, AtStep

\* The walk begins, where the pass stands at next.
LEMMA GoesIn ==
  ASSUME Calls, Still, config.parse_mode = "strict", chunk' = buffer_view, status' = "parsing",
         NEW m \in Nat,
         consumed' = m, NEW next, next = At(Taken + m),
         Standing(next)', Copied(next)', Progress(next)'
  PROVE  Answers
<1>1. Taken' = Taken /\ UNCHANGED <<file, config, start, size>>
  BY StillFacts
<1>2. At(Taken + consumed)' = next
  BY <1>1 DEF At
<1>3. ShowsFile'
  BY <1>1, EntryFacts DEF ShowsFile
<1>4. Walking'
  BY <1>2, <1>3 DEF Walking, Standing, Copied, Progress
<1> QED
  BY <1>1, <1>4 DEF Answers, InChunk

\* A record that is complete with the first byte of the chunk.
LEMMA CompletesAtOnce ==
  ASSUME Calls, consumed' = 1, status' = "complete",
         NEW row, At(Taken + 1) = Pass(Append(parsed, row), <<>>, <<>>, "start"),
         fields' = row
  PROVE  Answers
<1>1. Fresh(At(Taken + 1)) /\ At(Taken + 1).records = Append(parsed, row)
  BY DEF Fresh, Pass
<1>2. start + 1 <= size
  BY EntryFacts
<1> QED
  BY <1>1, <1>2 DEF Answers

\* In CRLF the last chunk ended in a '\r'.
LEMMA AfterCrStands ==
  ASSUME Calls, config.has_quoting, crlf, pending_cr
  PROVE  LET s == At(Taken)
         IN  /\ s \in Passes /\ parsed = s.records /\ Taken \in Cuts /\ fields = Left(s)
             /\ s.mode = "closed_cr" \/ (s.mode = "plain" /\ EndsInCr(s) /\ file[Taken] = CR)
             /\ newline(config.line_ending) = LF
<1> DEFINE s == At(Taken)
<1>1. /\ parsed = s.records /\ Taken \in Nat /\ Taken < Len(file) /\ Len(file) \in Nat
      /\ (Nothing /\ Fresh(s)) \/ (InRecord(Taken) /\ Taken \in Cuts)
      /\ s \in Passes
  BY EntryFacts
<1>2. /\ InRecord(Taken) /\ Taken \in Cuts
      /\ s.mode = "closed_cr" \/ (s.mode = "plain" /\ file[Taken] = CR)
      /\ fields = Left(s)
  BY <1>1 DEF Nothing, InRecord
<1>3. file \in String /\ newline(config.line_ending) = LF
  BY KnownFacts, NewlineByte DEF Calls
<1>4. s.mode = "plain" => EndsInCr(s)
  <2>1. Taken # 0 /\ Taken <= Len(file)
    BY <1>1, <1>2 DEF Cuts
  <2> QED
    BY <1>1, <1>2, <1>3, <2>1, EndsAt
<1> QED
  BY <1>1, <1>2, <1>3, <1>4

LEMMA CrEndsRecord ==
  ASSUME Calls, Still, config.has_quoting, crlf, pending_cr,
         buffer_view[1] = newline(config.line_ending), consumed' = 1,
         fields' = WithoutLastChar(fields), status' = "complete"
  PROVE  Answers
<1> DEFINE s == At(Taken)
           next == At(Taken + 1)
           nl == newline(config.line_ending)
<1>1. /\ s \in Passes /\ parsed = s.records /\ fields = Left(s)
      /\ s.mode = "closed_cr" \/ (s.mode = "plain" /\ EndsInCr(s))
  BY AfterCrStands
<1>2. nl \in Char /\ next = ReadByte(config, s, nl)
  BY EntryByte
<1>3. s.fields \in Seq(String) /\ s.text \in String /\ CR \in Char
  BY <1>1, PassAt DEF Char
<1>4. ~Refused(s) /\ fields' = Row(s)
  <2>1. CASE s.mode = "closed_cr"
    <3>1. ~EndsInCr(s) /\ ~Refused(s)
      BY <2>1 DEF EndsInCr, Refused
    <3>2. Row(s) = Open(s)
      BY <3>1, QuotingRow
    <3>3. /\ Append(s.text, CR) \in String /\ Append(s.text, CR) # <<>>
          /\ SubSeq(Append(s.text, CR), 1, Len(Append(s.text, CR)) - 1) = s.text
      BY <1>3, FrontOfAppend DEF String
    <3>4. WithoutLastChar(Append(s.fields, Append(s.text, CR))) = Open(s)
      BY <1>3, <3>3, WithoutLastOf DEF Open
    <3> QED
      BY <1>1, <2>1, <3>1, <3>2, <3>4 DEF Left
  <2>2. CASE s.mode = "plain" /\ EndsInCr(s)
    <3>1. Row(s) = Append(s.fields, Kept(s)) /\ Kept(s) = SubSeq(s.text, 1, Len(s.text) - 1)
      BY <2>2, QuotingRow DEF Kept
    <3>2. s.text # <<>>
      BY <1>1, <2>2, PassAt
    <3>3. WithoutLastChar(Append(s.fields, s.text)) = Row(s)
      BY <1>3, <3>1, <3>2, WithoutLastOf
    <3> QED
      BY <1>1, <2>2, <3>3 DEF Left, Open, Refused
  <2> QED
    BY <1>1, <2>1, <2>2
<1>5. next = Pass(Append(parsed, Row(s)), <<>>, <<>>, "start")
  <2>1. s.mode \in {"start", "plain", "closed", "closed_cr"}
    BY <1>1
  <2>2. ReadByte(config, s, nl) = Pass(Append(s.records, Row(s)), <<>>, <<>>, "start")
    BY <1>1, <1>2, <1>4, <2>1, QuotingByte
  <2> QED
    BY <1>1, <1>2, <2>2
<1> HIDE DEF s
<1> QED
  BY <1>4, <1>5, CompletesAtOnce

LEMMA AfterCrAnswers ==
  ASSUME Calls, Still, config.has_quoting, config.parse_mode = "strict",
         Strict!ParseAfterCr(buffer_view)
  PROVE  Answers
<1> DEFINE s == At(Taken)
           c == buffer_view[1]
           next == At(Taken + 1)
           nl == newline(config.line_ending)
<1>1. /\ crlf /\ pending_cr /\ consumed' = 1
      /\ \/ c = nl /\ fields' = WithoutLastChar(fields) /\ status' = "complete"
         \/ c # nl /\ status' = "fail"
  BY DEF Strict!ParseAfterCr, Strict!crlf, crlf, Strict!is_newline, Strict!newline, newline,
     Strict!Return, Strict!WithoutLastChar, WithoutLastChar
<1>2. CASE c = nl /\ fields' = WithoutLastChar(fields) /\ status' = "complete"
  BY <1>1, <1>2, CrEndsRecord
<1>3. CASE c # nl /\ status' = "fail"
  <2>1. /\ s \in Passes /\ Taken \in Cuts /\ nl = LF
        /\ s.mode = "closed_cr" \/ (s.mode = "plain" /\ file[Taken] = CR)
    BY <1>1, AfterCrStands
  <2>2. /\ c \in Char /\ c = file[Taken + 1] /\ Taken + 1 \in 0 .. Len(file)
        /\ next = ReadByte(config, s, c)
    BY EntryByte
  <2>3. s.mode = "closed_cr"
    <3>1. ~StrictSensitive
      BY DEF Calls, Known, Sensitive
    <3>2. ~(s.mode = "plain" /\ file[Taken] = CR)
      BY <1>1, <1>3, <2>1, <2>2, <3>1 DEF StrictSensitive, ModeAt, At
    <3> QED
      BY <2>1, <3>2
  <2>4. next.mode = "bad"
    BY <1>3, <2>1, <2>2, <2>3, StrictByte
  <2> QED
    BY <1>3, <2>2, <2>4, Fails DEF Calls
<1> QED
  BY <1>1, <1>2, <1>3

\* The last chunk ended in a quote.
LEMMA AfterQuoteStands ==
  ASSUME Calls, config.has_quoting, pending_quote, ~(crlf /\ pending_cr)
  PROVE  LET s == At(Taken)
         IN  /\ s \in Passes /\ s.mode = "closed" /\ parsed = s.records /\ Taken \in Cuts
             /\ fields = Open(s) /\ incomplete_last_read /\ ~in_quotes
             /\ Before = s.fields /\ HeldText = s.text
             /\ ~Refused(s) /\ Row(s) = Open(s)
<1> DEFINE s == At(Taken)
<1>1. /\ parsed = s.records /\ s \in Passes
      /\ (Nothing /\ Fresh(s)) \/ (InRecord(Taken) /\ Taken \in Cuts)
  BY EntryFacts
<1>2. InRecord(Taken) /\ Taken \in Cuts
  BY <1>1 DEF Nothing
<1>3. s.mode = "closed" /\ fields = Open(s) /\ incomplete_last_read /\ ~in_quotes
  BY <1>2 DEF InRecord, Left
<1>4. Before = s.fields /\ HeldText = s.text
  <2>1. s.fields \in Seq(String) /\ s.text \in String
    BY <1>1, PassAt
  <2> QED
    BY <1>3, <2>1, HeldParts DEF Open
<1>5. ~EndsInCr(s) /\ ~Refused(s)
  BY <1>3 DEF EndsInCr, Refused
<1>6. Row(s) = Open(s)
  BY <1>5, QuotingRow
<1> QED
  BY <1>1, <1>2, <1>3, <1>4, <1>5, <1>6

\* The first byte.
LEMMA OneByte ==
  ASSUME NEW s \in Seq(Char), Len(s) # 0
  PROVE  SubSeq(s, 0 + 1, 1) = << s[1] >>
<1>1. PICK a \in Nat : a = 0
  OBVIOUS
<1>2. a < Len(s) /\ a + 1 = 1
  BY <1>1, LenProperties
<1>3. SubSeq(s, a + 1, a + 1) = Append(SubSeq(s, a + 1, a), s[a + 1])
  BY <1>2, StretchGrows
<1>4. SubSeq(s, a + 1, a) = <<>>
  BY EmptyStretch
<1>5. s[a + 1] = s[1] /\ SubSeq(s, a + 1, a + 1) = SubSeq(s, 0 + 1, 1)
  BY <1>1, <1>2
<1>6. Append(<<>>, s[1]) = << s[1] >>
  OBVIOUS
<1> QED
  BY <1>3, <1>4, <1>5, <1>6

\* It was the first of a pair.
LEMMA AfterQuotePair ==
  ASSUME Calls, Still, config.has_quoting, config.parse_mode = "strict", pending_quote,
         ~(crlf /\ pending_cr),
         Len(buffer_view) # 1,
         buffer_view[1] = quote_char, chunk' = buffer_view, field_start' = 0, literals' = 0,
         consumed' = 1, status' = "parsing", in_quotes', ~pending_quote',
         UNCHANGED <<fields, pending_cr, incomplete_last_read>>
  PROVE  Answers
<1> DEFINE s == At(Taken)
           next == At(Taken + 1)
           q == quote_char
<1>1. /\ s \in Passes /\ s.mode = "closed" /\ parsed = s.records
      /\ incomplete_last_read /\ Before = s.fields /\ HeldText = s.text
  BY AfterQuoteStands
<1>2. next = ReadByte(config, s, q) /\ q \in Char
  BY EntryByte
<1>3. next = Pass(s.records, s.fields, Append(s.text, q), "quoted")
  BY <1>1, <1>2, QuotingByte
<1>4. /\ next.records = parsed /\ next.fields = s.fields /\ next.text = Append(s.text, q)
      /\ next.mode = "quoted"
  BY <1>1, <1>3 DEF Pass
<1>5. PICK n : n = next
  OBVIOUS
<1>6. Standing(n)'
  BY <1>4, <1>5, StillFacts DEF Standing
<1>7. Copied(n)'
  <2>1. Raw' = << q >>
    <3>1. buffer_view \in Seq(Char) /\ Len(buffer_view) # 0
      BY EntryFacts DEF String
    <3> QED
      BY <3>1, OneByte DEF Raw
  <2>2. Strict!Copy(Raw)' = Strict!Copy(<< q >>)
    BY <2>1 DEF Strict!Copy, Strict!CopyByte, Strict!is_quote
  <2>3. Strict!Copy(<< q >>).text = << q >>
    <3>1. <<>> \in String /\ Append(<<>>, q) = << q >>
      BY EmptySeq DEF String
    <3>2. Strict!Copy(Append(<<>>, q)) = Strict!CopyByte(NoCopy, q)
      BY <1>2, <3>1, StrictCopyGrows, StrictCopyEmpty
    <3>3. Strict!CopyByte(NoCopy, q).text = << q >>
      BY <3>1 DEF Strict!CopyByte, Strict!is_quote, NoCopy
    <3> QED
      BY <3>1, <3>2, <3>3
  <2>4. Before' = s.fields /\ HeldText' = s.text
    BY <1>1 DEF Before, HeldText
  <2>5. s.text \o << q >> = Append(s.text, q)
    <3>1. s.text \in Seq(Char)
      BY <1>1, PassAt
    <3> QED
      BY <1>2, <3>1, AppendIsConcat
  <2> QED
    BY <1>4, <1>5, <2>1, <2>2, <2>3, <2>4, <2>5 DEF Copied
<1>8. Progress(n)'
  BY <1>4, <1>5 DEF Progress, Fresh
<1> HIDE DEF next
<1>9. n = At(Taken + 1)
  BY <1>5 DEF next
<1> QED
  BY <1>6, <1>7, <1>8, <1>9, GoesIn

\* It closed the field, and a delimiter follows.
LEMMA AfterQuoteDelim ==
  ASSUME Calls, Still, config.has_quoting, config.parse_mode = "strict", pending_quote,
         ~(crlf /\ pending_cr),
         buffer_view[1] = delimiter, chunk' = buffer_view, field_start' = 1, literals' = 0,
         consumed' = 1, status' = "parsing", ~incomplete_last_read', ~pending_quote',
         UNCHANGED <<fields, pending_cr, in_quotes>>
  PROVE  Answers
<1> DEFINE s == At(Taken)
           next == At(Taken + 1)
<1>1. /\ s \in Passes /\ s.mode = "closed" /\ parsed = s.records
      /\ fields = Open(s) /\ ~in_quotes
  BY AfterQuoteStands
<1>2. next = ReadByte(config, s, delimiter) /\ delimiter \in Char
  BY EntryByte
<1>3. next = Pass(s.records, Open(s), <<>>, "start")
  BY <1>1, <1>2, QuotingByte
<1>4. /\ next.records = parsed /\ next.fields = Open(s) /\ next.text = <<>>
      /\ next.mode = "start"
  BY <1>1, <1>3 DEF Pass
<1>5. Open(s) \in Seq(String) /\ Open(s) # <<>>
  BY <1>1, FieldEnded
<1>6. PICK n : n = next
  OBVIOUS
<1>7. Standing(n)'
  BY <1>1, <1>4, <1>6, StillFacts DEF Standing
<1>8. Copied(n)'
  <2>1. Before' = Open(s) /\ HeldText' = <<>> /\ <<>> \in String
    BY <1>1, EmptySeq DEF Before, HeldText, String
  <2>2. chunk' \in Seq(Char) /\ fields' \in Seq(String)
    BY <1>1, <1>5, EntryFacts DEF String
  <2>3. n.fields = Open(s) /\ n.text = <<>>
    BY <1>4, <1>6
  <2> QED
    BY <2>1, <2>2, <2>3, CopiedNone
<1>9. Progress(n)'
  BY <1>4, <1>5, <1>6 DEF Progress, Fresh
<1> HIDE DEF next
<1>10. n = At(Taken + 1)
  BY <1>6 DEF next
<1> QED
  BY <1>7, <1>8, <1>9, <1>10, GoesIn

\* A chunk of one byte: the file ends behind it, or the next chunk begins there.
LEMMA LastOfChunk ==
  ASSUME Calls, Len(buffer_view) = 1, ~config.mapped_buffer, Taken % N = 0
  PROVE  Lost \/ Taken + 1 \in Cuts \/ Taken + 1 = Len(file)
<1>1. /\ start + 1 = size /\ Taken \in Nat /\ Taken + 1 <= Len(file) /\ Len(file) \in Nat
      /\ start \in Nat /\ size \in Nat
  BY EntryFacts
<1>2. BytesInv /\ FeedInv
  BY KnownFacts DEF Calls
<1>3. Taken + 1 = pos /\ pos \in Nat
  <2>1. StreamInv
    BY KnownFacts DEF Calls
  <2>2. pos \in Nat
    BY <1>1, <2>1 DEF StreamInv
  <2> QED
    BY <1>1, <2>2 DEF Taken, base
<1>4. CASE bits = {}
  <2>1. (Taken + 1) % N = 0
    BY <1>2, <1>3, <1>4 DEF FeedInv, FileInv
  <2>2. Taken + 1 # Len(file) => Taken + 1 \in 1 .. Len(file) - 1
    BY <1>1
  <2> QED
    BY <2>1, <2>2 DEF Cuts
<1>5. CASE "eofbit" \in bits
  BY <1>2, <1>3, <1>5 DEF FeedInv, FileInv
<1> QED
  BY <1>4, <1>5 DEF Lost

\* The chunk is only the second quote of a pair: the stream has failed there.
LEMMA AfterQuoteLost ==
  ASSUME Calls, Still, config.has_quoting, config.parse_mode = "strict", pending_quote,
         ~(crlf /\ pending_cr),
         Len(buffer_view) = 1, buffer_view[1] = quote_char,
         consumed' = 1, status' = "need_more_data"
  PROVE  Answers
<1>1. At(Taken).mode = "closed" /\ Taken \in Cuts
  BY AfterQuoteStands
<1>2. ~(Taken + 1 \in Cuts \/ Taken + 1 = Len(file))
  <2>1. ~StrictSensitive
    BY DEF Calls, Known, Sensitive
  <2>2. file[Taken + 1] = quote_char
    BY EntryByte
  <2> QED
    BY <1>1, <2>1, <2>2 DEF StrictSensitive, ModeAt, At
<1>3. ~config.mapped_buffer /\ Taken % N = 0
  BY EntryFacts DEF Nothing
<1>4. Lost
  BY <1>2, <1>3, LastOfChunk
<1>5. Lost'
  BY <1>4, StillFacts DEF Lost
<1>6. start + consumed' = size
  BY EntryFacts
<1> QED
  BY <1>5, <1>6 DEF Answers

LEMMA AfterQuoteAnswers ==
  ASSUME Calls, Still, config.has_quoting, config.parse_mode = "strict",
         Strict!ParseAfterQuote(buffer_view)
  PROVE  Answers
<1> DEFINE s == At(Taken)
           c == buffer_view[1]
           next == At(Taken + 1)
           nl == newline(config.line_ending)
<1>1. pending_quote /\ ~(crlf /\ pending_cr) /\ consumed' = 1 /\ ~pending_quote'
      /\ fields' = fields /\ pending_cr' = pending_cr
  BY DEF Strict!ParseAfterQuote, Strict!crlf, crlf
<1>2. \/ c = quote_char /\ Len(buffer_view) = 1 /\ status' = "need_more_data"
      \/ /\ c = quote_char /\ Len(buffer_view) # 1 /\ chunk' = buffer_view
         /\ field_start' = 0 /\ literals' = 0 /\ status' = "parsing"
         /\ in_quotes' /\ incomplete_last_read' = incomplete_last_read
      \/ c = nl /\ status' = "complete"
      \/ /\ c = delimiter /\ chunk' = buffer_view /\ field_start' = 1 /\ literals' = 0
         /\ status' = "parsing" /\ ~incomplete_last_read' /\ in_quotes' = in_quotes
      \/ c \notin {nl, delimiter, quote_char} /\ status' = "fail"
  BY DEF Strict!ParseAfterQuote, Strict!is_quote, Strict!is_newline, Strict!is_delim,
     Strict!newline, newline, Strict!Return, Strict!Enter
<1>3. /\ s \in Passes /\ s.mode = "closed" /\ parsed = s.records /\ Taken \in Cuts
      /\ fields = Open(s) /\ ~Refused(s) /\ Row(s) = Open(s)
  BY <1>1, AfterQuoteStands
<1>4. /\ c \in Char /\ c = file[Taken + 1] /\ next = ReadByte(config, s, c)
      /\ Taken + 1 \in 0 .. Len(file)
  BY EntryByte
<1>5. CASE c = quote_char /\ Len(buffer_view) = 1 /\ status' = "need_more_data"
  BY <1>1, <1>5, AfterQuoteLost
<1>6. CASE /\ c = quote_char /\ Len(buffer_view) # 1 /\ chunk' = buffer_view
           /\ field_start' = 0 /\ literals' = 0 /\ status' = "parsing"
           /\ in_quotes' /\ incomplete_last_read' = incomplete_last_read
  BY <1>1, <1>6, AfterQuotePair
<1>7. CASE c = nl /\ status' = "complete"
  <2>1. next = Pass(Append(parsed, Row(s)), <<>>, <<>>, "start")
    <3>1. ReadByte(config, s, nl) = Pass(Append(s.records, Row(s)), <<>>, <<>>, "start")
      BY <1>3, <1>4, <1>7, QuotingByte
    <3> QED
      BY <1>3, <1>4, <1>7, <3>1
  <2>2. fields' = Row(s)
    BY <1>1, <1>3
  <2> HIDE DEF s
  <2> QED
    BY <1>1, <1>7, <2>1, <2>2, CompletesAtOnce
<1>8. CASE /\ c = delimiter /\ chunk' = buffer_view /\ field_start' = 1 /\ literals' = 0
           /\ status' = "parsing" /\ ~incomplete_last_read' /\ in_quotes' = in_quotes
  BY <1>1, <1>8, AfterQuoteDelim
<1>9. CASE c \notin {nl, delimiter, quote_char} /\ status' = "fail"
  <2>1. ~(crlf /\ c = CR)
    <3>1. ~StrictSensitive
      BY DEF Calls, Known, Sensitive
    <3> QED
      BY <1>3, <1>4, <3>1 DEF StrictSensitive, ModeAt, At
  <2>2. next.mode = "bad"
    BY <1>3, <1>4, <1>9, <2>1, StrictByte
  <2> QED
    BY <1>4, <1>9, <2>2, Fails DEF Calls
<1> QED
  BY <1>2, <1>5, <1>6, <1>7, <1>8, <1>9

\* Nothing is pending.
LEMMA OnStands ==
  ASSUME Calls, config.has_quoting, ~pending_quote
  PROVE  LET s == At(Taken)
         IN  /\ s.mode \in {"start", "plain", "quoted"} /\ parsed = s.records
             /\ in_quotes <=> s.mode = "quoted"
             /\ Before = s.fields /\ HeldText = s.text /\ HeldText \in String
             /\ fields \in Seq(String) /\ (incomplete_last_read => fields # <<>>)
             /\ Fresh(s) \/ Taken \in Cuts
             /\ crlf /\ s.mode = "plain" /\ file[Taken] = CR => pending_cr
<1> DEFINE s == At(Taken)
<1>1. /\ s \in Passes /\ parsed = s.records
      /\ (Nothing /\ Fresh(s)) \/ (InRecord(Taken) /\ Taken \in Cuts)
  BY EntryFacts
<1>2. s.fields \in Seq(String) /\ s.text \in String
  BY <1>1, PassAt
<1>3. CASE Nothing /\ Fresh(s)
  <2>1. s.text = <<>> /\ s.fields = <<>> /\ s.mode = "start"
    BY <1>1, <1>3, PassAt DEF Fresh
  <2> QED
    BY <1>1, <1>2, <1>3, <2>1 DEF Nothing, Before, HeldText
<1>4. CASE InRecord(Taken) /\ Taken \in Cuts
  <2>1. s.mode \notin {"bad", "closed", "closed_cr"} /\ fields = Left(s)
        /\ incomplete_last_read /\ (in_quotes <=> s.mode = "quoted")
        /\ (crlf => (pending_cr <=> s.mode = "plain" /\ file[Taken] = CR))
    BY <1>4 DEF InRecord
  <2>2. s.mode \in {"start", "plain", "quoted"}
    BY <1>1, <2>1, PassAt DEF Modes
  <2>3. fields = Append(s.fields, s.text)
    BY <2>1 DEF Left, Open
  <2>4. Before = s.fields /\ HeldText = s.text
    BY <1>2, <2>1, <2>3, HeldParts
  <2>5. fields \in Seq(String) /\ fields # <<>>
    BY <1>2, <2>3, FrontOfAppend
  <2> QED
    BY <1>1, <1>2, <1>4, <2>1, <2>2, <2>4, <2>5
<1> QED
  BY <1>1, <1>3, <1>4

LEMMA OnAnswers ==
  ASSUME Calls, Still, config.has_quoting, config.parse_mode = "strict",
         Strict!ParseOn(buffer_view)
  PROVE  Answers
<1> DEFINE s == At(Taken)
<1>1. /\ ~pending_quote /\ ~(crlf /\ pending_cr) /\ consumed' = 0 /\ chunk' = buffer_view
      /\ field_start' = 0 /\ literals' = 0 /\ status' = "parsing"
      /\ UNCHANGED <<fields, pending_cr, incomplete_last_read, in_quotes, pending_quote>>
  BY DEF Strict!ParseOn, Strict!crlf, crlf, Strict!Enter
<1>2. /\ s \in Passes /\ parsed = s.records /\ Taken \in Nat
      /\ buffer_view \in Seq(Char)
      /\ (Nothing /\ Fresh(s)) \/ (InRecord(Taken) /\ Taken \in Cuts)
  BY EntryFacts DEF String
<1>3. s.fields \in Seq(String) /\ s.text \in String
  BY <1>2, PassAt
<1>4. /\ s.mode \in {"start", "plain", "quoted"}
      /\ in_quotes <=> s.mode = "quoted"
      /\ Before = s.fields /\ HeldText = s.text
      /\ fields \in Seq(String) /\ (incomplete_last_read => fields # <<>>)
      /\ Fresh(s) \/ Taken \in Cuts
      /\ ~(crlf /\ s.mode = "plain" /\ file[Taken] = CR)
  BY <1>1, OnStands
<1>5. PICK n : n = s
  OBVIOUS
<1>6. Standing(n)'
  BY <1>1, <1>2, <1>4, <1>5, StillFacts DEF Standing
<1>7. Copied(n)'
  <2>1. Before' = s.fields /\ HeldText' = s.text
    BY <1>1, <1>4 DEF Before, HeldText
  <2>2. /\ Before' = n.fields /\ HeldText' = n.text /\ HeldText' \in String
        /\ fields' \in Seq(String) /\ (incomplete_last_read' => fields' # <<>>)
        /\ chunk' \in Seq(Char) /\ field_start' = consumed' /\ consumed' \in Nat /\ literals' = 0
    BY <1>1, <1>2, <1>3, <1>4, <1>5, <2>1
  <2> HIDE DEF s
  <2> QED
    BY <2>2, CopiedNone
<1>8. Progress(n)'
  <2>1. Taken' = Taken /\ file' = file /\ crlf' = crlf /\ Cuts' = Cuts
    <3>1. Taken' = Taken /\ UNCHANGED <<file, config, N>> /\ crlf' = crlf
      BY StillFacts, FeedUnchanged DEF Still
    <3> QED
      BY <3>1 DEF Cuts
  <2> QED
    BY <1>1, <1>4, <1>5, <2>1 DEF Progress, Fresh
<1> HIDE DEF s
<1>9. n = At(Taken + 0) /\ 0 \in Nat
  <2>1. Taken + 0 = Taken
    BY <1>2
  <2> QED
    BY <1>5, <2>1 DEF s
<1> QED
  BY <1>1, <1>6, <1>7, <1>8, <1>9, GoesIn

-----------------------------------------------------------------------------
\* The walk of the lenient parser begins, where the pass stands at next.
LEMMA LenientGoesIn ==
  ASSUME Calls, Still, config.parse_mode = "lenient", chunk' = buffer_view,
         status' = "parsing",
         NEW m \in Nat, consumed' = m, NEW next, next = At(Taken + m),
         LenientStanding(next)', LenientCopied(next)', LenientProgress(next)'
  PROVE  Answers
<1>1. Taken' = Taken /\ UNCHANGED <<file, config, start, size>>
  BY StillFacts
<1>2. At(Taken + consumed)' = next
  BY <1>1 DEF At
<1>3. ShowsFile'
  BY <1>1, EntryFacts DEF ShowsFile
<1>4. LenientWalking'
  BY <1>2, <1>3 DEF LenientWalking, LenientStanding, LenientCopied, LenientProgress
<1> QED
  BY <1>1, <1>4 DEF Answers, InChunk

\* Behind a quote no '\r' is pending.
LEMMA LenientQuoteStands ==
  ASSUME Calls, config.has_quoting, config.parse_mode = "lenient", pending_quote
  PROVE  ~(crlf /\ pending_cr)
<1> SUFFICES ASSUME crlf, pending_cr PROVE FALSE
  OBVIOUS
<1>1. /\ At(Taken).mode \in {"closed_cr", "plain"} /\ file \in String
      /\ Taken \in Nat /\ Taken <= Len(file)
      /\ (Nothing /\ Fresh(At(Taken))) \/ InRecord(Taken)
  BY AfterCrStands, EntryFacts, KnownFacts DEF Calls
<1>2. At(Taken).mode \in LenientModes
  BY <1>1, LenientAt
<1> QED
  BY <1>1, <1>2 DEF Nothing, InRecord, LenientModes

\* The first byte of the chunk is the second of a pair of quotes.
LEMMA LenientPairBegins ==
  ASSUME Calls, Still, config.has_quoting, config.parse_mode = "lenient", pending_quote,
         buffer_view[1] = quote_char, fields' = ExtendLast(fields, <<quote_char>>),
         in_quotes', incomplete_last_read', ~pending_quote', crlf => ~pending_cr', consumed' = 1,
         \/ Len(buffer_view) = 1 /\ status' = "need_more_data"
         \/ /\ Len(buffer_view) # 1 /\ status' = "parsing" /\ chunk' = buffer_view
            /\ field_start' = 1 /\ quoted_field' = TRUE
  PROVE  Answers
<1> DEFINE s == At(Taken)
           q == quote_char
           next == At(Taken + 1)
           more == Append(s.text, q)
<1>1. /\ s \in Passes /\ s.mode = "closed" /\ parsed = s.records /\ Taken \in Cuts
      /\ fields = Open(s)
  BY LenientQuoteStands, AfterQuoteStands
<1>2. q \in Char /\ next = ReadByte(config, s, q) /\ file[Taken + 1] = q
  BY EntryByte
<1>3. next = Pass(s.records, s.fields, more, "quoted")
  BY <1>1, <1>2, QuotingByte
<1>4. PICK n : n = next
  OBVIOUS
<1>5. /\ n.records = parsed /\ n.fields = s.fields /\ n.text = more /\ n.mode = "quoted"
  BY <1>1, <1>3, <1>4 DEF Pass
<1>6. s.fields \in Seq(String) /\ s.text \in String /\ more \in String
  BY <1>1, <1>2, PassAt, AppendProperties DEF String
<1>7. fields' = Append(s.fields, more)
  BY <1>1, <1>2, <1>6, ExtendAppend DEF Open
<1>8. /\ start \in Nat /\ size \in Nat /\ Taken \in Nat
      /\ start + Len(buffer_view) = size /\ Len(buffer_view) \in Nat /\ Len(buffer_view) # 0
      /\ Taken + Len(buffer_view) <= Len(file) /\ Len(file) \in Nat
      /\ buffer_view = SubSeq(file, Taken + 1, Taken + Len(buffer_view))
  BY EntryFacts
<1>9. n = At(Taken + 1)
  BY <1>4
<1> HIDE DEF next, more, s
<1>10. CASE Len(buffer_view) = 1 /\ status' = "need_more_data"
  <2>1. fields' = Left(n) /\ ~Fresh(n) /\ start + 1 = size
    BY <1>5, <1>7, <1>8, <1>10 DEF Left, Open, Fresh
  <2> QED
    BY <1>5, <1>9, <1>10, <2>1, HoldsRest DEF Calls
<1>11. CASE /\ Len(buffer_view) # 1 /\ status' = "parsing" /\ chunk' = buffer_view
            /\ field_start' = 1 /\ quoted_field' = TRUE
  <2>1. LenientStanding(n)'
    BY <1>5, StillFacts DEF LenientStanding, LenientModes
  <2>2. LenientCopied(n)'
    <3>1. /\ SubSeq(Append(s.fields, more), 1, Len(Append(s.fields, more)) - 1) = s.fields
          /\ Append(s.fields, more)[Len(s.fields) + 1] = more
          /\ Len(Append(s.fields, more)) = Len(s.fields) + 1
      BY <1>6, FrontOfAppend
    <3>2. Before' = n.fields /\ HeldText' = n.text
      BY <1>5, <1>7, <3>1 DEF Before, HeldText
    <3> QED
      BY <1>5, <1>6, <1>11, <3>2, LenientCopiedNone
  <2>3. buffer_view[2] = q => NoQuoteAhead(buffer_view, 2)
    <3> DEFINE len == Len(buffer_view)
    <3>1. /\ file \in String /\ ~LenientSensitive /\ BytesInv
      BY KnownFacts DEF Calls, Known, Sensitive
    <3>2. len \in Nat /\ 2 \in 1 .. len /\ Taken + 1 < Len(file) /\ Taken + len <= Len(file)
      BY <1>8, <1>11
    <3>3. buffer_view[2] = file[Taken + 2] /\ len <= N /\ N \in Nat
      <4>1. len <= N /\ N \in Nat
        BY <1>8, <3>1 DEF BytesInv
      <4>2. buffer_view = SubSeq(file, Taken + 1, Taken + len)
        BY <1>8
      <4> HIDE DEF len
      <4> QED
        BY <1>8, <3>1, <3>2, <4>1, <4>2, StretchBytes
    <3>4. ModeAt(Taken) = "closed"
      BY <1>1 DEF ModeAt, At, s
    <3>5. buffer_view[2] = q => ~QuotesFollow(Taken, Taken + 2)
      BY <1>1, <1>2, <3>1, <3>2, <3>3, <3>4 DEF LenientSensitive
    <3> QED
      BY <1>8, <3>1, <3>2, <3>3, <3>5, NoneFollows
  <2>4. NoQuoteAhead(buffer_view, 2) => NoQuoteAhead(chunk, consumed + 1)'
    <3>1. config' = config
      BY StillFacts
    <3> QED
      BY <1>11, <3>1 DEF NoQuoteAhead
  <2>5. LenientProgress(n)'
    BY <1>5, <1>8, <1>11, <2>3, <2>4 DEF LenientProgress
  <2> QED
    BY <1>9, <1>11, <2>1, <2>2, <2>5, LenientGoesIn
<1> QED
  BY <1>10, <1>11

\* The last chunk ended in a quote.
LEMMA LenientQuoteAnswers ==
  ASSUME Calls, Still, config.has_quoting, config.parse_mode = "lenient",
         Lenient!ParseAfterQuote(buffer_view)
  PROVE  Answers
<1> DEFINE s == At(Taken)
           c == buffer_view[1]
           next == At(Taken + 1)
           nl == newline(config.line_ending)
<1>1. /\ pending_quote /\ ~pending_quote' /\ (crlf => ~pending_cr')
  BY DEF Lenient!ParseAfterQuote, Lenient!CrIsData, Lenient!crlf, crlf
<1>2. \/ /\ c = quote_char /\ fields' = ExtendLast(fields, <<quote_char>>) /\ in_quotes' = TRUE
         /\ consumed' = 1
         /\ \/ Len(buffer_view) = 1 /\ status' = "need_more_data" /\ incomplete_last_read' = TRUE
            \/ /\ Len(buffer_view) # 1 /\ status' = "parsing" /\ chunk' = buffer_view
               /\ field_start' = 1 /\ quoted_field' = TRUE
               /\ incomplete_last_read' = incomplete_last_read
      \/ c = nl /\ status' = "complete" /\ consumed' = 1 /\ fields' = fields
      \/ /\ c = delimiter /\ consumed' = 1 /\ incomplete_last_read' = FALSE
         /\ fields' = fields /\ in_quotes' = in_quotes /\ status' = "parsing"
         /\ chunk' = buffer_view /\ field_start' = 1 /\ quoted_field' = in_quotes
      \/ /\ c \notin {nl, delimiter, quote_char} /\ consumed' = 0 /\ in_quotes' = FALSE
         /\ fields' = fields /\ incomplete_last_read' = incomplete_last_read
         /\ status' = "parsing" /\ chunk' = buffer_view /\ field_start' = 0
         /\ quoted_field' = FALSE
  BY DEF Lenient!ParseAfterQuote, Lenient!is_quote, Lenient!is_newline, Lenient!is_delim,
     Lenient!newline, newline, Lenient!Return, Lenient!Enter, Lenient!ExtendLast, ExtendLast
<1>3. /\ s \in Passes /\ s.mode = "closed" /\ parsed = s.records /\ Taken \in Cuts
      /\ fields = Open(s) /\ ~Refused(s) /\ Row(s) = Open(s)
      /\ incomplete_last_read /\ ~in_quotes /\ Before = s.fields /\ HeldText = s.text
  BY <1>1, LenientQuoteStands, AfterQuoteStands
<1>4. /\ c \in Char /\ next = ReadByte(config, s, c)
  BY EntryByte
<1>5. ASSUME c = quote_char, fields' = ExtendLast(fields, <<quote_char>>), in_quotes' = TRUE,
             consumed' = 1,
             \/ Len(buffer_view) = 1 /\ status' = "need_more_data" /\ incomplete_last_read' = TRUE
             \/ /\ Len(buffer_view) # 1 /\ status' = "parsing" /\ chunk' = buffer_view
                /\ field_start' = 1 /\ quoted_field' = TRUE
                /\ incomplete_last_read' = incomplete_last_read
      PROVE  Answers
  BY <1>1, <1>3, <1>5, LenientPairBegins
<1>6. CASE c = nl /\ status' = "complete" /\ consumed' = 1 /\ fields' = fields
  <2>1. next = Pass(Append(parsed, Row(s)), <<>>, <<>>, "start")
    <3>1. ReadByte(config, s, nl) = Pass(Append(s.records, Row(s)), <<>>, <<>>, "start")
      BY <1>3, <1>4, <1>6, QuotingByte
    <3> QED
      BY <1>3, <1>4, <1>6, <3>1
  <2>2. fields' = Row(s)
    BY <1>3, <1>6
  <2> HIDE DEF s
  <2> QED
    BY <1>6, <2>1, <2>2, CompletesAtOnce
<1>7. CASE /\ c = delimiter /\ consumed' = 1 /\ incomplete_last_read' = FALSE
           /\ fields' = fields /\ in_quotes' = in_quotes /\ status' = "parsing"
           /\ chunk' = buffer_view /\ field_start' = 1 /\ quoted_field' = in_quotes
  <2>1. next = Pass(s.records, Open(s), <<>>, "start")
    BY <1>3, <1>4, <1>7, QuotingByte
  <2>2. PICK n : n = next
    OBVIOUS
  <2>3. /\ n.records = parsed /\ n.fields = Open(s) /\ n.text = <<>> /\ n.mode = "start"
        /\ Open(s) # <<>>
    BY <1>3, <2>1, <2>2, FieldEnded DEF Pass
  <2>4. n = At(Taken + 1) /\ 1 \in Nat
    BY <2>2
  <2> HIDE DEF s, next
  <2>5. LenientStanding(n)'
    BY <1>1, <1>3, <1>7, <2>3, StillFacts DEF LenientStanding, LenientModes
  <2>6. LenientCopied(n)'
    <3>1. Before' = n.fields /\ HeldText' = n.text /\ HeldText' \in String
      BY <1>3, <1>7, <2>3, EmptySeq DEF Before, HeldText, String
    <3>2. quoted_field' = FALSE /\ quoted_field' \in BOOLEAN /\ 1 \in Nat
      BY <1>3, <1>7, KnownFacts DEF Calls, FieldInv, ParserTypeOK
    <3> QED
      BY <1>3, <1>7, <3>1, <3>2, LenientCopiedNone
  <2>7. LenientProgress(n)'
    BY <1>3, <1>7, <2>3 DEF LenientProgress, Fresh
  <2> QED
    BY <1>7, <2>4, <2>5, <2>6, <2>7, LenientGoesIn
<1>8. CASE /\ c \notin {nl, delimiter, quote_char} /\ consumed' = 0 /\ in_quotes' = FALSE
           /\ fields' = fields /\ incomplete_last_read' = incomplete_last_read
           /\ status' = "parsing" /\ chunk' = buffer_view /\ field_start' = 0
           /\ quoted_field' = FALSE
  <2>1. PICK n : n = s
    OBVIOUS
  <2>2. n = At(Taken + 0) /\ 0 \in Nat /\ 0 + 1 = 1 /\ Len(buffer_view) \in Nat
        /\ Len(buffer_view) # 0
    BY <2>1, EntryFacts
  <2>3. /\ n.mode = "closed" /\ n.records = parsed /\ n.fields = Before /\ n.text = HeldText
        /\ HeldText \in String
    BY <1>3, <2>1, PassAt
  <2>4. /\ Taken' = Taken /\ UNCHANGED <<file, config, parsed>> /\ Cuts' = Cuts
    <3>1. Taken' = Taken /\ UNCHANGED <<file, config, N, parsed>>
      BY StillFacts, FeedUnchanged DEF Still
    <3> QED
      BY <3>1 DEF Cuts
  <2> HIDE DEF s
  <2>5. LenientStanding(n)'
    BY <1>1, <1>8, <2>2, <2>3, <2>4, StillFacts DEF LenientStanding, LenientModes
  <2>6. LenientCopied(n)'
    <3>1. Before' = n.fields /\ HeldText' = n.text /\ HeldText' \in String
      BY <1>8, <2>3 DEF Before, HeldText
    <3> QED
      BY <1>8, <2>2, <3>1, LenientCopiedNone
  <2>7. LenientProgress(n)'
    BY <1>3, <1>8, <2>3, <2>4 DEF LenientProgress
  <2> QED
    BY <1>8, <2>2, <2>5, <2>6, <2>7, LenientGoesIn
<1> QED
  BY <1>2, <1>5, <1>6, <1>7, <1>8

\* Nothing is pending.
LEMMA LenientOnAnswers ==
  ASSUME Calls, Still, config.has_quoting, config.parse_mode = "lenient",
         Lenient!ParseOn(buffer_view)
  PROVE  Answers
<1> DEFINE s == At(Taken)
           nl == newline(config.line_ending)
<1>1. /\ ~pending_quote /\ ~(crlf /\ pending_cr /\ buffer_view[1] = nl) /\ (crlf => ~pending_cr')
      /\ consumed' = 0 /\ chunk' = buffer_view
      /\ field_start' = 0 /\ quoted_field' = in_quotes /\ status' = "parsing"
      /\ UNCHANGED <<fields, incomplete_last_read, in_quotes, pending_quote>>
  BY DEF Lenient!ParseOn, Lenient!CrIsData, Lenient!crlf, crlf, Lenient!Enter,
     Lenient!is_newline, Lenient!newline, newline
<1>2. /\ s.mode \in {"start", "plain", "quoted"} /\ parsed = s.records
      /\ in_quotes <=> s.mode = "quoted"
      /\ Before = s.fields /\ HeldText = s.text /\ HeldText \in String
      /\ Fresh(s) \/ Taken \in Cuts
      /\ crlf /\ s.mode = "plain" /\ file[Taken] = CR => pending_cr
  BY <1>1, OnStands
<1>3. PICK n : n = s
  OBVIOUS
<1>4. n = At(Taken + 0) /\ 0 \in Nat
  BY <1>3, EntryFacts
<1>5. /\ Taken' = Taken /\ UNCHANGED <<file, config, parsed>> /\ Cuts' = Cuts /\ crlf' = crlf
  <2>1. Taken' = Taken /\ UNCHANGED <<file, config, N, parsed>> /\ crlf' = crlf
    BY StillFacts, FeedUnchanged DEF Still
  <2> QED
    BY <2>1 DEF Cuts
<1>6. crlf => nl = LF
  BY NewlineByte
<1>7. in_quotes \in BOOLEAN
  BY KnownFacts DEF Calls, FieldInv, ParserTypeOK
<1> HIDE DEF s
<1>8. LenientStanding(n)'
  BY <1>1, <1>2, <1>3, <1>5 DEF LenientStanding, LenientModes
<1>9. LenientCopied(n)'
  <2>1. Before' = n.fields /\ HeldText' = n.text /\ HeldText' \in String
    BY <1>1, <1>2, <1>3 DEF Before, HeldText
  <2> QED
    BY <1>1, <1>4, <1>7, <2>1, LenientCopiedNone
<1>10. LenientProgress(n)'
  BY <1>1, <1>2, <1>3, <1>5, <1>6 DEF LenientProgress, Fresh
<1> QED
  BY <1>1, <1>4, <1>8, <1>9, <1>10, LenientGoesIn

\* A call of the lenient parser.
LEMMA LenientCallAnswers ==
  ASSUME Calls, Still, config.has_quoting, config.parse_mode = "lenient",
         Lenient!Parse(buffer_view)
  PROVE  Answers
<1>1. CASE Lenient!ParseAfterCr(buffer_view)
  <2>1. /\ crlf /\ pending_cr /\ buffer_view[1] = newline(config.line_ending) /\ consumed' = 1
        /\ fields' = WithoutLastChar(fields) /\ status' = "complete"
    BY <1>1 DEF Lenient!ParseAfterCr, Lenient!crlf, crlf, Lenient!is_newline, Lenient!newline,
       newline, Lenient!Return, Lenient!WithoutLastChar, WithoutLastChar
  <2> QED
    BY <2>1, CrEndsRecord
<1> QED
  BY <1>1, LenientQuoteAnswers, LenientOnAnswers DEF Lenient!Parse

\* Without quoting the whole chunk is read in one step.
LEMMA SimpleAnswers ==
  ASSUME Calls, Still, ~config.has_quoting, Simple!Parse(buffer_view)
  PROVE  Answers
<1> DEFINE t == Taken
           n == Len(buffer_view)
<1>1. /\ buffer_view = SubSeq(file, t + 1, t + n) /\ n \in Nat /\ n # 0 /\ start + n = size
      /\ t \in Nat /\ t + n <= Len(file) /\ Len(file) \in Nat /\ start \in Nat
      /\ parsed = At(t).records
      /\ (Nothing /\ Fresh(At(t))) \/ (InRecord(t) /\ t \in Cuts)
  BY EntryFacts
<1>2. file \in String /\ ~Sensitive
  BY KnownFacts DEF Calls, Known
<1>3. ParserAt(t) /\ (~Fresh(At(t)) => t \in Cuts)
  <2>1. CASE Nothing /\ Fresh(At(t))
    BY <2>1 DEF ParserAt, Nothing
  <2>2. CASE InRecord(t) /\ t \in Cuts
    <3>1. At(t).mode \in {"start", "plain"}
      <4>1. t <= Len(file)
        BY <1>1
      <4> HIDE DEF t
      <4> QED
        BY <1>1, <1>2, <4>1, PlainAt DEF Unquoted
    <3>2. /\ ~Fresh(At(t)) /\ fields = Open(At(t)) /\ incomplete_last_read
          /\ crlf => (pending_cr <=> At(t).mode = "plain" /\ file[t] = CR)
      BY <2>2, <3>1 DEF InRecord, Left
    <3>3. crlf /\ file[t] = CR => At(t).mode = "plain"
      <4>1. t <= Len(file) /\ t # 0
        BY <1>1, <2>2 DEF Cuts
      <4> HIDE DEF t
      <4> QED
        BY <1>1, <1>2, <3>1, <4>1, EndsAt
    <3> QED
      BY <2>2, <3>2, <3>3 DEF ParserAt, HoldsRecord
  <2> QED
    BY <1>1, <2>1, <2>2
<1>4. \/ /\ status' = "need_more_data" /\ consumed' = n
         /\ fields' = Open(At(t + n)) /\ ~Fresh(At(t + n))
         /\ At(t + n).records = At(t).records
         /\ incomplete_last_read'
         /\ crlf => (pending_cr' <=> file[t + n] = CR)
      \/ /\ status' = "complete" /\ consumed' \in 1 .. n
         /\ Fresh(At(t + consumed'))
         /\ At(t + consumed').records = Append(At(t).records, fields')
  <2>1. Simple!Parse(SubSeq(file, t + 1, t + n))
    BY <1>1
  <2> HIDE DEF t, n
  <2> QED
    BY <1>1, <1>2, <1>3, <2>1, SimpleReads
<1>5. CASE status' = "complete"
  <2>1. /\ consumed' \in 1 .. n /\ Fresh(At(t + consumed'))
        /\ At(t + consumed').records = Append(parsed, fields')
    BY <1>1, <1>4, <1>5
  <2>2. start + consumed' <= size
    BY <1>1, <2>1
  <2> QED
    BY <1>5, <2>1, <2>2 DEF Answers
<1>6. CASE status' = "need_more_data"
  <2> DEFINE i == t + n
             s == At(i)
  <2>1. /\ consumed' = n /\ fields' = Open(s) /\ ~Fresh(s) /\ s.records = parsed
        /\ incomplete_last_read' /\ (crlf => (pending_cr' <=> file[i] = CR))
    BY <1>1, <1>4, <1>6
  <2>2. s.mode \in {"start", "plain"} /\ (crlf /\ file[i] = CR => s.mode = "plain")
    <3>1. i \in Nat /\ i <= Len(file) /\ i # 0
      BY <1>1
    <3> HIDE DEF i
    <3>2. s.mode \in {"start", "plain"}
      BY <1>2, <3>1, PlainAt DEF Unquoted
    <3> QED
      BY <1>2, <3>1, <3>2, EndsAt
  <2>3. Taken' = Taken /\ UNCHANGED <<file, config, start, size, parsed>> /\ crlf' = crlf
    BY StillFacts
  <2>4. PICK pass : pass = s
    OBVIOUS
  <2>5. At(Taken + consumed)' = pass
    BY <2>1, <2>3, <2>4 DEF At
  <2>6. file[Taken + consumed]' = file[i]
    BY <2>1, <2>3
  <2> HIDE DEF s, i
  <2>7. fields' = Left(pass) /\ pass.mode \in {"start", "plain"} /\ ~Fresh(pass)
        /\ pass.records = parsed
        /\ (crlf => (pending_cr' <=> pass.mode = "plain" /\ file[i] = CR))
    BY <2>1, <2>2, <2>4 DEF Left
  <2>8. InRecord(Taken + consumed)'
    BY <2>1, <2>3, <2>5, <2>6, <2>7 DEF InRecord, Fresh, Left, Open
  <2>9. Within(Taken + consumed)'
    BY <2>3, <2>5, <2>7, <2>8 DEF Within
  <2>10. start + consumed' = size
    BY <1>1, <2>1
  <2> QED
    BY <1>6, <2>9, <2>10 DEF Answers
<1> QED
  BY <1>4, <1>5, <1>6

\* A call of parse(), whichever the parser.
LEMMA CallAnswers ==
  ASSUME Known, RecInv, CallParse
  PROVE  Answers /\ Still /\ pc = "next" /\ status = "idle"
<1>1. /\ pc = "next" /\ ~buffer_empty /\ parse(buffer_view)
      /\ UNCHANGED buffer_vars /\ UNCHANGED reader_vars
  BY DEF CallParse
<1>2. Still
  BY <1>1, ParseKeepsConfig DEF Still
<1>3. CASE config.has_quoting /\ config.parse_mode = "strict"
  <2>1. Strict!Parse(buffer_view)
    BY <1>1, <1>3 DEF parse
  <2>2. status = "idle"
    BY <2>1 DEF Strict!Parse, Strict!ParseAfterCr, Strict!ParseAfterQuote, Strict!ParseOn,
       Strict!Entry
  <2>3. Calls
    BY <1>1, <2>2 DEF Calls
  <2> QED
    BY <1>1, <1>2, <1>3, <2>1, <2>2, <2>3, AfterCrAnswers, AfterQuoteAnswers, OnAnswers
    DEF Strict!Parse
<1>4. CASE config.has_quoting /\ config.parse_mode # "strict"
  <2>1. Lenient!Parse(buffer_view) /\ config.parse_mode = "lenient"
    BY <1>1, <1>4, KnownFacts DEF parse
  <2>2. status = "idle"
    BY <2>1 DEF Lenient!Parse, Lenient!ParseAfterCr, Lenient!ParseAfterQuote, Lenient!ParseOn,
       Lenient!Entry
  <2>3. Calls
    BY <1>1, <2>2 DEF Calls
  <2> QED
    BY <1>1, <1>2, <1>4, <2>1, <2>2, <2>3, LenientCallAnswers
<1>5. CASE ~config.has_quoting
  <2>1. Simple!Parse(buffer_view)
    <3>1. buffer_view \in String
      BY KnownFacts, ViewIsString
    <3>2. Simple!Parse(buffer_view) \/ Simd!Parse(buffer_view)
      BY <1>1, <1>5 DEF parse
    <3> QED
      BY <3>1, <3>2, SimdIsSimple
  <2>2. status = "idle"
    BY <2>1 DEF Simple!Parse
  <2>3. Calls
    BY <1>1, <2>2 DEF Calls
  <2> QED
    BY <1>1, <1>2, <1>5, <2>1, <2>2, <2>3, SimpleAnswers
<1> QED
  BY <1>3, <1>4, <1>5

-----------------------------------------------------------------------------
(***************************************************************************)
(* The calls of next(), one after the other.                                *)
(***************************************************************************)
\* The grammar does not change while the file is read.
LEMMA SameFile ==
  ASSUME UNCHANGED <<config, file>>
  PROVE  /\ \A i : At(i)' = At(i)
         /\ AllRecords(config, file)' = AllRecords(config, file)
         /\ Rejected(config, file)' = Rejected(config, file)
<1>1. ASSUME NEW i PROVE At(i)' = At(i)
  BY DEF At
<1> QED
  BY <1>1

\* At the end of the file: nothing is left of it, or the record in hand.
LEMMA LastRecords ==
  ASSUME Known, Taken = Len(file)
  PROVE  /\ Between => ~Rejected(config, file) /\ parsed = AllRecords(config, file)
         /\ Within(Taken) => /\ ~Rejected(config, file)
                             /\ Append(parsed, fields) = AllRecords(config, file)
<1> DEFINE s == At(Taken)
<1>1. /\ Rejected(config, file) <=> s.mode = "bad"
      /\ AllRecords(config, file) =
           IF s.mode = "bad" \/ Fresh(s) THEN s.records ELSE Append(s.records, Left(s))
  BY KnownFacts, RecordsAtEnd
<1>2. CASE Between
  <2>1. s.mode # "bad" /\ Fresh(s) /\ parsed = s.records
    BY <1>2 DEF Between, Fresh
  <2>2. ~Within(Taken)
    BY <2>1 DEF Within, InRecord
  <2> QED
    BY <1>1, <2>1, <2>2
<1>3. CASE ~Between
  <2>1. Within(Taken) => s.mode # "bad" /\ ~Fresh(s) /\ parsed = s.records /\ fields = Left(s)
    BY DEF Within, InRecord
  <2> QED
    BY <1>1, <1>3, <2>1
<1> QED
  BY <1>2, <1>3

\* The records of the bytes consumed are the first of the file.
LEMMA PrefixOfFile ==
  ASSUME Known, NEW i \in 0 .. Len(file), NEW rows, rows = At(i).records
  PROVE  Prefix(rows, AllRecords(config, file))
BY KnownFacts, RecordsGrow

\* Before the first call nothing is consumed.
LEMMA InitRecords == ASSUME Init, Known PROVE RecInv
<1>1. /\ Nothing /\ parsed = <<>> /\ status = "idle" /\ outcome = "none" /\ pc = "construct"
      /\ start = 0 /\ (config.mapped_buffer \/ (pos = 0 /\ size = 0))
  BY DEF Init, ReaderInit, ParserInit, ParserBaseInit, StreamInit, MappedInit,
     Stream!Init, Mapped!Init, Nothing
<1>2. Taken = 0
  BY <1>1 DEF Taken, base
<1>3. At(0) = Start
  BY KnownFacts, AtBytes
<1>4. Between
  BY <1>1, <1>2, <1>3, StartPass DEF Between
<1>5. Prefix(parsed, AllRecords(config, file))
  <2>1. 0 \in 0 .. Len(file)
    BY KnownFacts
  <2> QED
    BY <1>1, <1>3, <2>1, PrefixOfFile, StartPass
<1> QED
  BY <1>1, <1>4, <1>5 DEF RecInv

\* Construction and the start of a call: the parser holds nothing.
LEMMA OutsideKeepsRecords ==
  ASSUME Known, RecInv, Construct \/ CallReader
  PROVE  RecInv'
<1>1. /\ pc \in {"construct", "ready"} /\ status = "idle"
      /\ UNCHANGED buffer_vars /\ UNCHANGED <<config, status, parsed>>
      /\ pc' = "closed" \/ pc' = "ready" \/ (pc' = "next" /\ Nothing')
      /\ outcome' \in {outcome, "ConfigError", "BufferError"}
  <2>1. pc \in {"construct", "ready"}
    BY DEF Construct, CallReader, RejectConfig, RejectBuffer, Rejects,
       ConstructWithoutHeader, ConstructWithHeader, Constructs, CallNext
  <2>2. status = "idle"
    BY <2>1, KnownFacts DEF ParserInv
  <2> QED
    BY <2>1, <2>2 DEF Construct, CallReader, RejectConfig, RejectBuffer, Rejects,
       ConstructWithoutHeader, ConstructWithHeader, Constructs, CallNext, parser_vars,
       locals, reset, base_reset, row_vars, Nothing
<1>2. Taken' = Taken /\ (AtEnd' <=> AtEnd) /\ UNCHANGED <<config, file>> /\ (spent => spent')
  BY <1>1, FeedUnchanged, UnchangedKeepsStream
<1>3. /\ At(Taken)' = At(Taken) /\ AllRecords(config, file)' = AllRecords(config, file)
      /\ Rejected(config, file)' = Rejected(config, file)
  BY <1>2 DEF At
<1>4. Between \/ Done
  BY <1>1 DEF RecInv
<1>5. (Between => Between') /\ (Done => Done')
  BY <1>1, <1>2, <1>3 DEF Between, Done, Fresh
<1>6. pc' = "next" => AtTop'
  BY <1>1, <1>4, <1>5 DEF AtTop
<1> QED
  BY <1>1, <1>3, <1>4, <1>5, <1>6 DEF RecInv, Prefix

\* A refill, and the end of the file.
LEMMA RefillKeepsRecords ==
  ASSUME Known, RecInv, RefillBuffer
  PROVE  RecInv'
<1>1. /\ pc = "next" /\ status = "idle" /\ buffer_empty /\ refill
      /\ UNCHANGED parser_vars
      /\ RefillBrings \/ RefillAtEof \/ RefillFails
  BY DEF RefillBuffer
<1>2. UNCHANGED <<config, fields, pending_cr, incomplete_last_read, in_quotes, pending_quote,
                  consumed, status>>
  BY <1>1 DEF parser_vars, members, base_members, locals
<1>3. BytesInv /\ StreamInv /\ FeedInv
  BY KnownFacts
<1>4. /\ Taken' = Taken
      /\ reading' \in {"ok", "eof", "fail"}
      /\ reading' = "ok" => ~config.mapped_buffer /\ Taken % N = 0
      /\ reading' = "eof" => AtEnd' /\ Taken = Len(file)
      /\ reading' = "fail" => ~AtEnd'
      /\ spent => (AtEnd' <=> AtEnd)
  BY <1>1, <1>2, <1>3, RefillFeeds
<1>5. UNCHANGED <<file, N>> /\ (reading' # "ok" => spent') /\ (spent => reading' # "ok")
  BY <1>1, <1>2, <1>3, RefillKeepsBytes, RefillLeavesSpent, SpentStaysSpent
<1>6. /\ At(Taken)' = At(Taken) /\ AllRecords(config, file)' = AllRecords(config, file)
      /\ Rejected(config, file)' = Rejected(config, file)
  BY <1>2, <1>4, <1>5 DEF At
<1>7. AtTop /\ Prefix(parsed, AllRecords(config, file)) /\ (outcome = "end" => Done)
  BY <1>1 DEF RecInv
<1>8. Lost => reading' # "ok" /\ ~AtEnd'
  BY <1>1, <1>4, <1>5 DEF Lost, spent, AtEnd
<1>9. CASE RefillBrings
  <2>1. reading' = "ok" /\ UNCHANGED <<pc, outcome, parsed>>
    BY <1>9 DEF RefillBrings, reader_vars, row_vars
  <2>2. ~Done
    BY <1>5, <2>1 DEF Done
  <2>3. Between => Between'
    BY <1>4, <1>6, <2>1 DEF Between, Fresh
  <2>4. Within(Taken) => Within(Taken)'
    BY <1>2, <1>4, <1>5, <1>6, <2>1 DEF Within, InRecord, crlf, Fresh, Left, Open
  <2>5. AtTop'
    BY <1>2, <1>4, <1>5, <1>7, <1>8, <2>1, <2>2, <2>3, <2>4 DEF AtTop, Nothing
  <2> QED
    BY <1>1, <1>2, <1>6, <1>7, <2>1, <2>2, <2>5 DEF RecInv, Prefix
<1>10. CASE reading' # "ok" /\ ReturnFalse /\ (reading' = "eof" => fields = <<>>)
  <2>1. pc' \in {"ready", "closed"} /\ parsed' = parsed
    BY <1>10 DEF ReturnFalse, End
  <2>2. Done'
    <3>1. ASSUME AtEnd'
          PROVE  ~Rejected(config, file) /\ parsed = AllRecords(config, file)
      <4>1. reading' = "eof" /\ Taken = Len(file) /\ fields = <<>>
        BY <1>4, <1>10, <3>1
      <4>2. CASE Done
        BY <1>4, <3>1, <4>2 DEF Done
      <4>3. CASE Between
        BY <4>1, <4>3, LastRecords
      <4>4. ~Within(Taken)
        <5>1. At(Taken) \in Passes
          <6>1. Taken \in 0 .. Len(file)
            BY KnownFacts
          <6> QED
            BY <6>1, KnownFacts, AtBytes
        <5>2. Left(At(Taken)) # <<>>
          BY <5>1, LeftIsRow
        <5> QED
          BY <4>1, <5>2 DEF Within, InRecord
      <4> QED
        BY <1>7, <1>8, <3>1, <4>2, <4>3, <4>4 DEF AtTop
    <3> QED
      BY <1>5, <1>6, <1>10, <2>1, <3>1 DEF Done
  <2> QED
    BY <1>1, <1>2, <1>6, <1>7, <2>1, <2>2 DEF RecInv, Prefix
<1>11. CASE reading' = "eof" /\ SaveRecord(fields, fields) /\ fields # <<>>
  <2>1. /\ pc' \in {"ready", "closed"} /\ outcome' # "end"
        /\ parsed' = Append(parsed, fields)
    BY <1>11 DEF SaveRecord, Accept, RejectSize, End
  <2>2. Within(Taken)
    BY <1>4, <1>7, <1>11, <1>8 DEF AtTop, Nothing
  <2>3. ~Rejected(config, file) /\ parsed' = AllRecords(config, file)
    BY <1>4, <1>11, <2>1, <2>2, LastRecords
  <2>4. Done'
    BY <1>5, <1>6, <1>11, <2>3 DEF Done
  <2>5. Prefix(parsed', AllRecords(config, file))
    <3>1. parsed' \in Seq(Seq(String))
      BY <2>1, KnownFacts, AppendProperties
    <3>2. Len(parsed') \in Nat
      BY <3>1, LenProperties
    <3> QED
      BY <2>3, <3>2 DEF Prefix
  <2> QED
    BY <1>1, <1>2, <1>6, <1>7, <2>1, <2>4, <2>5 DEF RecInv, Prefix
<1>12. CASE RefillAtEof
  BY <1>10, <1>11, <1>12 DEF RefillAtEof
<1>13. CASE RefillFails
  BY <1>10, <1>13 DEF RefillFails
<1> QED
  BY <1>1, <1>9, <1>12, <1>13

\* What parse() has done keeps the invariant.
LEMMA AnswersKeepRecords ==
  ASSUME Known, RecInv, Still, Answers, pc = "next"
  PROVE  RecInv'
<1>1. /\ Taken' = Taken /\ UNCHANGED <<file, start, size, parsed, config, pc, outcome>>
      /\ \A i : At(i)' = At(i)
  BY StillFacts
<1>2. AtEnd' <=> AtEnd
  BY FeedUnchanged DEF Still
<1>3. spent' <=> spent
  BY DEF Still, spent, buffer_empty, Stream!empty, Mapped!empty, buffer_vars
<1>4. /\ AllRecords(config, file)' = AllRecords(config, file)
      /\ Rejected(config, file)' = Rejected(config, file)
  BY <1>1
<1>5. Done' <=> Done
  BY <1>1, <1>2, <1>3, <1>4 DEF Done
<1>6. Prefix(parsed, AllRecords(config, file))' /\ (outcome' = "end" => Done') /\ pc' = "next"
  BY <1>1, <1>4, <1>5 DEF RecInv, Prefix
<1>7. At(Taken + consumed)' = At(Taken + consumed')
  BY <1>1 DEF At
<1>8. /\ status' \in {"parsing", "complete", "fail", "need_more_data"}
      /\ status' = "parsing" => InChunk'
      /\ status' = "fail" => Rejected(config, file)
      /\ status' = "need_more_data" =>
           (Within(Taken + consumed) \/ Lost)' /\ start + consumed' = size
      /\ status' = "complete" =>
           /\ start + consumed' <= size /\ Fresh(At(Taken + consumed'))
           /\ At(Taken + consumed').records = Append(parsed, fields')
  BY DEF Answers
<1>9. (start + consumed = size)' <=> start + consumed' = size
  BY <1>1
<1>10. (start + consumed <= size)' <=> start + consumed' <= size
  BY <1>1
<1>11. Fresh(At(Taken + consumed))' <=> Fresh(At(Taken + consumed'))
  BY <1>7 DEF Fresh
<1>12. (At(Taken + consumed).records = Append(parsed, fields))'
         <=> At(Taken + consumed').records = Append(parsed, fields')
  BY <1>1, <1>7
<1> QED
  BY <1>4, <1>6, <1>8, <1>9, <1>10, <1>11, <1>12 DEF RecInv

\* A step inside parse(), which only the quoting parsers have.
LEMMA WalkingKeepsRecords ==
  ASSUME Known, RecInv, ParseStep
  PROVE  RecInv'
<1>1. config' = config /\ status = "parsing" /\ UNCHANGED buffer_vars /\ UNCHANGED reader_vars
      /\ parse_step
  BY ParseStepKeepsConfig DEF ParseStep
<1>2. Still /\ InChunk
  BY <1>1 DEF Still, RecInv
<1>3. pc = "next"
  BY <1>1, KnownFacts DEF ParserInv
<1>4. Answers
  <2>1. CASE config.parse_mode = "strict"
    <3>1. config.has_quoting /\ Strict!Step
      BY <1>1, <2>1 DEF parse_step
    <3>2. Walks
      BY <1>1, <1>2, <2>1, <3>1 DEF Walks, InChunk
    <3> QED
      BY <1>2, <3>1, <3>2, StrictStepAnswers
  <2>2. CASE config.parse_mode # "strict"
    <3>1. config.has_quoting /\ Lenient!Step
      BY <1>1, <2>2 DEF parse_step
    <3>2. Unquotes
      BY <1>1, <1>2, <2>2, <3>1, KnownFacts DEF Unquotes, InChunk
    <3> QED
      BY <1>2, <3>1, <3>2, LenientStepAnswers
  <2> QED
    BY <2>1, <2>2
<1> QED
  BY <1>2, <1>3, <1>4, AnswersKeepRecords

\* parse() has returned.
LEMMA ReturningKeepsRecords ==
  ASSUME Known, RecInv, NeedMoreData \/ Complete
  PROVE  RecInv'
<1>1. /\ status \in {"need_more_data", "complete"} /\ status' = "idle" /\ consume(consumed)
      /\ UNCHANGED <<config, fields, pending_cr, incomplete_last_read, in_quotes,
                     pending_quote, consumed>>
      /\ pc = "next"
  <2>1. PICK result \in {"need_more_data", "complete"} : ParseReturns(result)
    BY DEF NeedMoreData, Complete
  <2>2. status # "idle" => pc = "next"
    BY KnownFacts DEF ParserInv
  <2> QED
    BY <2>1, <2>2 DEF ParseReturns, members, base_members
<1>2. start + consumed <= size
  BY <1>1, KnownFacts DEF RecInv
<1>3. /\ UNCHANGED <<file, N, size, bits>>
      /\ start' = start + consumed /\ Taken' = Taken + consumed
  <2>1. consumed \in Nat /\ start \in Nat /\ size \in Nat
    BY KnownFacts
  <2>2. consumed <= size - start
    BY <1>2, <2>1
  <2> QED
    BY <1>1, <2>1, <2>2, KnownFacts, ConsumeFeeds, ConsumeKeepsBytes
<1>4. /\ At(Taken)' = At(Taken + consumed) /\ file[Taken]' = file[Taken + consumed]
      /\ AllRecords(config, file)' = AllRecords(config, file) /\ crlf' = crlf
  BY <1>1, <1>3 DEF At, crlf
<1>5. Prefix(parsed, AllRecords(config, file)) /\ (outcome = "end" => Done)
  BY DEF RecInv
<1>6. CASE NeedMoreData
  <2>1. status = "need_more_data" /\ UNCHANGED <<pc, outcome, parsed>>
    BY <1>6 DEF NeedMoreData, ParseReturns, reader_vars, row_vars
  <2>2. (Within(Taken + consumed) \/ Lost) /\ start + consumed = size
    BY <2>1 DEF RecInv
  <2>3. Within(Taken)' \/ Lost'
    <3>1. Within(Taken + consumed) => Within(Taken)'
      BY <1>1, <1>3, <1>4, <2>1 DEF Within, InRecord, Fresh, Left, Open
    <3>2. Lost => Lost'
      BY <1>1, <1>3 DEF Lost
    <3> QED
      BY <2>2, <3>1, <3>2
  <2>4. (start = size)'
    BY <1>3, <2>2
  <2>5. outcome # "end"
    <3>1. SInv /\ pc = "next" /\ status # "idle"
      BY <1>1, <2>1 DEF Known
    <3> QED
      BY <3>1 DEF SInv, EndInv
  <2> QED
    BY <1>1, <1>4, <1>5, <2>1, <2>3, <2>4, <2>5 DEF RecInv, AtTop, Prefix
<1>7. CASE Complete
  <2>1. status = "complete" /\ SaveRecord(fields, fields)
    BY <1>7 DEF Complete, ParseReturns
  <2>2. /\ pc' \in {"ready", "closed"} /\ outcome' # "end"
        /\ parsed' = Append(parsed, fields)
    BY <2>1 DEF SaveRecord, Accept, RejectSize, End
  <2>3. /\ Fresh(At(Taken + consumed))
        /\ At(Taken + consumed).records = Append(parsed, fields)
    BY <2>1 DEF RecInv
  <2>4. Between'
    BY <1>4, <2>2, <2>3 DEF Between, Fresh
  <2>5. Prefix(parsed', AllRecords(config, file))
    <3>1. Taken + consumed \in 0 .. Len(file)
      BY <1>2, KnownFacts
    <3> QED
      BY <2>2, <2>3, <3>1, PrefixOfFile
  <2> QED
    BY <1>1, <1>4, <1>5, <2>2, <2>4, <2>5 DEF RecInv, Prefix
<1> QED
  BY <1>6, <1>7

\* A rejected file.
LEMMA FailingRejects ==
  ASSUME Known, RecInv, ParseFails
  PROVE  Rejected(config, file)'
<1>1. status = "fail" /\ config' = config /\ consume(consumed)
  BY DEF ParseFails, ParseReturns
<1>2. file' = file
  BY <1>1, KnownFacts, ConsumeKeepsBytes
<1> QED
  BY <1>1, <1>2 DEF RecInv

\* Only parse() makes next() fail in the middle of a line, and for good.
LEMMA FailedChanges ==
  ASSUME [Next]_vars
  PROVE  (failed => failed') /\ (~ParseFails => failed' = failed)
<1>1. CASE ParseFails
  BY <1>1 DEF ParseFails, ThrowInLine
<1>2. CASE ~ParseFails
  <2>1. CASE Construct \/ CallReader \/ CallParse \/ ParseStep \/ UNCHANGED vars
    BY <2>1 DEF Construct, RejectConfig, RejectBuffer, Rejects, ConstructWithoutHeader,
       ConstructWithHeader, Constructs, CallReader, CallNext, CallParse, ParseStep,
       vars, reader_vars, row_vars
  <2>2. CASE RefillBuffer \/ NeedMoreData \/ Complete
    BY <2>2 DEF RefillBuffer, RefillBrings, RefillAtEof, RefillFails, SaveRecord, Accept,
       RejectSize, ReturnFalse, NeedMoreData, Complete, reader_vars, row_vars
  <2> QED
    BY <1>2, <2>1, <2>2 DEF Next, NextStep
<1> QED
  BY <1>1, <1>2

\* A step that changes nothing.
LEMMA StutteringKeepsRecords ==
  ASSUME Known, RecInv, UNCHANGED vars
  PROVE  RecInv'
<1>1. /\ UNCHANGED buffer_vars /\ UNCHANGED reader_vars
      /\ UNCHANGED <<config, fields, pending_cr, incomplete_last_read, consumed, status>>
      /\ UNCHANGED <<in_quotes, pending_quote, chunk, field_start, literals, quoted_field>>
  BY DEF vars, parser_vars, members, base_members, locals
<1>2. Taken' = Taken /\ (AtEnd' <=> AtEnd) /\ UNCHANGED <<file, N, start, size>>
  BY <1>1, FeedUnchanged
<1>3. spent' <=> spent
  BY <1>1 DEF spent, buffer_empty, Stream!empty, Mapped!empty, buffer_vars
<1>4. /\ At(Taken)' = At(Taken) /\ At(Taken + consumed)' = At(Taken + consumed)
      /\ AllRecords(config, file)' = AllRecords(config, file) /\ crlf' = crlf
      /\ Rejected(config, file)' = Rejected(config, file)
  BY <1>1, <1>2 DEF At, crlf
<1>5. UNCHANGED <<pc, outcome, parsed, bits>>
  BY <1>1 DEF reader_vars, row_vars, buffer_vars
<1>6. (Between' <=> Between) /\ (Done' <=> Done) /\ (Nothing' <=> Nothing) /\ (Lost' <=> Lost)
  BY <1>1, <1>2, <1>3, <1>4, <1>5 DEF Between, Done, Nothing, Lost, Fresh
<1>7. Within(Taken)' <=> Within(Taken)
  BY <1>1, <1>2, <1>4, <1>5 DEF Within, InRecord, Fresh, Left, Open
<1>8. Within(Taken + consumed)' <=> Within(Taken + consumed)
  BY <1>1, <1>2, <1>4, <1>5 DEF Within, InRecord, Fresh, Left, Open
<1>9. AtTop' <=> AtTop
  BY <1>1, <1>2, <1>6, <1>7 DEF AtTop
<1>10. Walking => Walking'
  <2> SUFFICES ASSUME Walking PROVE Walking'
    OBVIOUS
  <2>1. PICK s : s = At(Taken + consumed)
    OBVIOUS
  <2>2. ShowsFile /\ Standing(s) /\ Copied(s) /\ Progress(s)
    BY <2>1 DEF Walking
  <2>3. ShowsFile' /\ Standing(s)'
    BY <1>1, <1>2, <1>4, <1>5, <2>2 DEF ShowsFile, Standing
  <2>4. Copied(s)'
    <3>1. UNCHANGED <<Raw, Before, HeldText>>
      BY <1>1 DEF Raw, Before, HeldText
    <3>2. Strict!Copy(Raw)' = Strict!Copy(Raw)
      BY <3>1 DEF Strict!Copy, Strict!CopyByte, Strict!is_quote
    <3> QED
      BY <1>1, <2>2, <3>1, <3>2 DEF Copied
  <2>5. Progress(s)'
    BY <1>1, <1>2, <1>4, <2>2 DEF Progress, Fresh, Cuts
  <2> QED
    BY <1>4, <2>1, <2>3, <2>4, <2>5 DEF Walking, Standing, Copied, Progress
<1>11. LenientWalking => LenientWalking'
  <2> SUFFICES ASSUME LenientWalking PROVE LenientWalking'
    OBVIOUS
  <2>1. PICK s : s = At(Taken + consumed)
    OBVIOUS
  <2>2. ShowsFile /\ LenientStanding(s) /\ LenientCopied(s) /\ LenientProgress(s)
    BY <2>1 DEF LenientWalking
  <2>3. ShowsFile' /\ LenientStanding(s)'
    BY <1>1, <1>2, <1>4, <1>5, <2>2 DEF ShowsFile, LenientStanding
  <2>4. UNCHANGED <<Raw, Before, HeldText>>
    BY <1>1 DEF Raw, Before, HeldText
  <2>5. Piece' = Piece
    BY <1>1, <2>4, PieceNext DEF Piece
  <2>6. LenientCopied(s)'
    BY <2>2, <2>4, <2>5 DEF LenientCopied
  <2>7. LenientProgress(s)'
    BY <1>1, <1>2, <1>4, <2>2, <2>5 DEF LenientProgress, NoQuoteAhead, Fresh, Cuts
  <2> QED
    BY <1>4, <2>1, <2>3, <2>6, <2>7 DEF LenientWalking, LenientStanding, LenientCopied,
       LenientProgress
<1>12. InChunk => InChunk'
  BY <1>1, <1>10, <1>11 DEF InChunk
<1>13. Fresh(At(Taken + consumed))' <=> Fresh(At(Taken + consumed))
  BY <1>4 DEF Fresh
<1>14. (At(Taken + consumed).records = Append(parsed, fields))'
         <=> At(Taken + consumed).records = Append(parsed, fields)
  BY <1>1, <1>4, <1>5
<1> QED
  BY <1>1, <1>2, <1>4, <1>5, <1>6, <1>8, <1>9, <1>12, <1>13, <1>14 DEF RecInv, Prefix

\* Whatever the step.
LEMMA StepKeepsRecords ==
  ASSUME Known, RecInv, ~failed, [Next]_vars
  PROVE  IF failed' THEN Rejected(config, file)' ELSE RecInv'
<1>1. CASE ParseFails
  <2>1. failed'
    BY <1>1 DEF ParseFails, ThrowInLine
  <2> QED
    BY <1>1, <2>1, FailingRejects
<1>2. CASE ~ParseFails
  <2>1. ~failed'
    BY <1>2, FailedChanges
  <2>2. CASE CallParse
    BY <2>1, <2>2, CallAnswers, AnswersKeepRecords
  <2>3. CASE ~CallParse
    <3>1. RecInv'
      BY <1>2, <2>3, OutsideKeepsRecords, RefillKeepsRecords, WalkingKeepsRecords,
         ReturningKeepsRecords, StutteringKeepsRecords DEF Next, NextStep
    <3> QED
      BY <2>1, <3>1
  <2> QED
    BY <2>2, <2>3
<1> QED
  BY <1>1, <1>2

\* Whatever the parser, the block stays a stretch of the file.
LEMMA NextKeepsFeed ==
  ASSUME SInv, DataInv, FeedInv, [Next]_vars
  PROVE  FeedInv' /\ UNCHANGED <<config, file, N>>
<1>1. BytesInv /\ StreamInv /\ consumed \in Nat
  BY DEF SInv, DataInv, FieldInv, ParserTypeOK
<1>2. config' = config
  <2>1. CASE Construct \/ CallReader \/ RefillBuffer \/ UNCHANGED vars
    BY <2>1 DEF Construct, CallReader, RefillBuffer, vars, parser_vars
  <2>2. CASE NextStep /\ ~RefillBuffer
    BY <2>2, ParsingBeforeTheEnd
  <2> QED
    BY <2>1, <2>2 DEF Next
<1>3. CASE UNCHANGED buffer_vars
  <2>1. FeedInv' /\ UNCHANGED <<file, N>>
    BY <1>2, <1>3, FeedUnchanged
  <2> QED
    BY <1>2, <2>1
<1>4. CASE RefillBuffer
  <2>1. refill /\ buffer_empty
    BY <1>4 DEF RefillBuffer
  <2>2. FeedInv'
    BY <1>1, <1>2, <2>1, RefillFeeds
  <2>3. UNCHANGED <<file, N>>
    BY <1>1, <1>2, <2>1, RefillKeepsBytes
  <2> QED
    BY <1>2, <2>2, <2>3
<1>5. CASE consume(consumed)
  <2>1. FeedInv'
    BY <1>1, <1>2, <1>5, ConsumeFeeds
  <2>2. UNCHANGED <<file, N>>
    BY <1>1, <1>5, ConsumeKeepsBytes
  <2> QED
    BY <1>2, <2>1, <2>2
<1>6. UNCHANGED buffer_vars \/ RefillBuffer \/ consume(consumed)
  BY DEF Next, NextStep, Construct, RejectConfig, RejectBuffer, Rejects,
     ConstructWithoutHeader, ConstructWithHeader, Constructs, CallReader, CallNext,
     CallParse, ParseStep, NeedMoreData, Complete, ParseFails, ParseReturns, vars
<1> QED
  BY <1>3, <1>4, <1>5, <1>6

\* For the files that are cut nowhere amiss.
RecordsInv ==
  ~Sensitive => IF failed THEN Rejected(config, file) ELSE RecInv

\* The inductive invariant.
LEMMA RecordsInvariant == Spec => [](SInv /\ DataInv /\ FeedInv /\ RecordsInv)
<1>1. Init => SInv /\ DataInv /\ FeedInv /\ RecordsInv
  <2> SUFFICES ASSUME Init PROVE SInv /\ DataInv /\ FeedInv /\ RecordsInv
    OBVIOUS
  <2>1. SInv /\ DataInv /\ FeedInv
    BY InitSource, InitData, InitFeed DEF Init
  <2>2. ASSUME ~Sensitive PROVE RecInv
    <3>1. Known
      BY <2>1, <2>2 DEF Known
    <3> QED
      BY <3>1, InitRecords
  <2>3. ~failed
    BY DEF Init, ReaderInit
  <2> QED
    BY <2>1, <2>2, <2>3 DEF RecordsInv
<1>2. SInv /\ DataInv /\ FeedInv /\ RecordsInv /\ [Next]_vars
        => (SInv /\ DataInv /\ FeedInv /\ RecordsInv)'
  <2> SUFFICES ASSUME SInv, DataInv, FeedInv, RecordsInv, [Next]_vars
               PROVE  SInv' /\ DataInv' /\ FeedInv' /\ RecordsInv'
    OBVIOUS
  <2>1. SInv' /\ DataInv'
    BY NextImplements, NextKeepsData
  <2>2. FeedInv' /\ UNCHANGED <<config, file, N>>
    BY NextKeepsFeed
  <2>3. Sensitive' = Sensitive /\ Rejected(config, file)' = Rejected(config, file)
    BY <2>2 DEF Sensitive, SimpleSensitive, StrictSensitive, LenientSensitive, QuotesFollow,
       Cuts, ModeAt, crlf
  <2>4. ASSUME ~Sensitive
        PROVE  IF failed' THEN Rejected(config, file)' ELSE RecInv'
    <3>1. CASE failed
      <4>1. failed' /\ Rejected(config, file)
        BY <2>4, <3>1, FailedChanges DEF RecordsInv
      <4> QED
        BY <2>3, <4>1
    <3>2. CASE ~failed
      <4>1. Known /\ RecInv
        BY <2>4, <3>2 DEF Known, RecordsInv
      <4> QED
        BY <3>2, <4>1, StepKeepsRecords
    <3> QED
      BY <3>1, <3>2
  <2>5. RecordsInv'
    BY <2>3, <2>4 DEF RecordsInv
  <2> QED
    BY <2>1, <2>2, <2>5
<1> QED
  BY <1>1, <1>2, PTL DEF Spec

\* The first of the rows, as a stretch of them.
LEMMA PrefixIsStretch ==
  ASSUME NEW S, NEW some \in Seq(S), NEW rows \in Seq(S), Prefix(some, rows)
  PROVE  Len(some) <= Len(rows) /\ some = SubSeq(rows, 1, Len(some))
<1> DEFINE n == Len(some)
           stretch == SubSeq(rows, 1, n)
<1>1. n \in Nat /\ Len(rows) \in Nat /\ n <= Len(rows)
      /\ \A k \in 1 .. n : some[k] = rows[k]
  BY LenProperties DEF Prefix
<1>2. stretch \in Seq(S) /\ Len(stretch) = n
  <2>1. SubSeq(rows, 0 + 1, n) \in Seq(S) /\ Len(SubSeq(rows, 0 + 1, n)) = n - 0
    <3> HIDE DEF n
    <3> QED
      BY <1>1, StretchIsSeq, StretchLen
  <2> QED
    BY <1>1, <2>1
<1>3. ASSUME NEW k \in 1 .. n PROVE stretch[k] = some[k]
  <2>1. \A i \in 1 .. n - 0 : SubSeq(rows, 0 + 1, n)[i] = rows[0 + i]
    <3> HIDE DEF n
    <3> QED
      BY <1>1, StretchAt
  <2>2. k \in 1 .. n - 0 /\ 0 + k = k
    BY <1>1
  <2> HIDE DEF n
  <2> QED
    BY <1>1, <2>1, <2>2
<1>4. stretch = some
  <2> HIDE DEF stretch
  <2> QED
    BY <1>2, <1>3, SeqEqual
<1> QED
  BY <1>1, <1>4

\* Whatever the parser, for every file, alphabet, vector width, block size and line
\* ending, mapped or streamed, read errors included: the records the parser completes
\* are those of the file read in one piece, in order, and when next() reports the end
\* none is missing -- unless a ParseError has been thrown or a chunk ends where the
\* parser is known to mishandle it.
THEOREM RecordsRead == Spec => []RecordsOfTheFile
<1>1. SInv /\ DataInv /\ FeedInv /\ RecordsInv => RecordsOfTheFile
  <2> SUFFICES ASSUME SInv, DataInv, FeedInv, ~Sensitive, ~failed, RecInv
               PROVE  RecordsOfTheFile
    BY DEF RecordsInv, RecordsOfTheFile
  <2> DEFINE records == AllRecords(config, file)
  <2>1. Known
    BY DEF Known
  <2>2. parsed \in Seq(Seq(String)) /\ records \in Seq(Seq(String))
    BY <2>1, KnownFacts, RecordsAreRows
  <2>3. Prefix(parsed, records)
    BY DEF RecInv
  <2>4. (outcome = "end" /\ reading = "eof") => parsed = records
    BY DEF RecInv, Done, FeedInv, FileInv
  <2>5. status # "undefined"
    BY DEF RecInv
  <2> HIDE DEF records
  <2>6. Len(parsed) <= Len(records) /\ parsed = SubSeq(records, 1, Len(parsed))
    BY <2>2, <2>3, PrefixIsStretch
  <2> QED
    BY <2>4, <2>5, <2>6 DEF RecordsOfTheFile, records
<1> QED
  BY <1>1, RecordsInvariant, PTL

\* A reader throws a ParseError only for a file that strict quoting rejects, and reads
\* no such file to its end without one.
THEOREM ErrorsFound == Spec => []ErrorsOfTheFile
<1>1. FeedInv /\ RecordsInv => ErrorsOfTheFile
  <2> SUFFICES ASSUME FeedInv, RecordsInv, ~Sensitive PROVE ErrorsOfTheFile
    BY DEF ErrorsOfTheFile
  <2>1. failed => Rejected(config, file)
    BY DEF RecordsInv
  <2>2. ~failed /\ outcome = "end" /\ reading = "eof" => ~Rejected(config, file)
    BY DEF RecordsInv, RecInv, Done, FeedInv, FileInv
  <2> QED
    BY <2>1, <2>2 DEF ErrorsOfTheFile
<1> QED
  BY <1>1, RecordsInvariant, PTL
=============================================================================
