------------------------ MODULE LenientQuotingParser ------------------------
(***************************************************************************)
(* LenientQuotingParser::parse, which never fails.  Its loop only finds the *)
(* ends of fields; add_field reads the raw field again to take the quoting  *)
(* off, told by quoted_field that a field was already in quotes when the    *)
(* chunk began.                                                             *)
(***************************************************************************)
EXTENDS Parser

\* The i-th byte of raw in the pass of add_field.  While quoting, a pair of quotes
\* is one quote and a single quote ends the quoting; afterwards quotes are data.
CopyByte(copy, raw, i) ==
  LET pairs == i < Len(raw) /\ is_quote(raw[i + 1])
  IN  IF copy.pair
      THEN [copy EXCEPT !.pair = FALSE]
      ELSE IF copy.quoting /\ is_quote(raw[i]) /\ ~pairs
           THEN [copy EXCEPT !.quoting = FALSE]
           ELSE [text    |-> Append(copy.text, raw[i]),
                 quoting |-> copy.quoting,
                 pair    |-> copy.quoting /\ is_quote(raw[i])]

\* The pass of add_field over raw.
Unquoted(raw, in_quoting) ==
  LET copy[i \in 0 .. Len(raw)] ==
        IF i = 0 THEN [text |-> <<>>, quoting |-> in_quoting, pair |-> FALSE]
        ELSE CopyByte(copy[i - 1], raw, i)
  IN  copy[Len(raw)].text

\* add_field(end): a quote at field_start is an opening quote.
WithField(end) ==
  LET raw    == SubSeq(chunk, field_start + 1, end)
      opened == raw # <<>> /\ is_quote(raw[1])
      piece  == Unquoted(IF opened THEN Tail(raw) ELSE raw, quoted_field \/ opened)
  IN  IF incomplete_last_read THEN ExtendLast(fields, piece)
                              ELSE Append(fields, piece)

Advance(n) == consumed' = consumed + n

-----------------------------------------------------------------------------
Entry(buffer) == status = "idle" /\ buffer # <<>>

Enter(buffer, from, quoted) ==
  /\ status' = "parsing"
  /\ chunk' = buffer
  /\ field_start' = from
  /\ literals' = 0
  /\ quoted_field' = quoted

\* The '\r' that ended the last chunk was the first half of the line ending.
ParseAfterCr(buffer) ==
  /\ Entry(buffer)
  /\ crlf /\ pending_cr /\ is_newline(buffer[1])
  /\ pending_cr' = FALSE
  /\ consumed' = 1
  /\ fields' = WithoutLastChar(fields)
  /\ Return("complete")
  /\ UNCHANGED <<config, incomplete_last_read, in_quotes, pending_quote>>

\* pending_cr_ after the first test of parse(): in crlf it is spent, the '\r'
\* being data.
CrIsData(buffer) ==
  /\ ~(crlf /\ pending_cr /\ is_newline(buffer[1]))
  /\ pending_cr' = (pending_cr /\ ~crlf)

ParseAfterQuote(buffer) ==
  /\ Entry(buffer)
  /\ CrIsData(buffer)
  /\ pending_quote
  /\ pending_quote' = FALSE
  /\ \/ /\ is_quote(buffer[1])
        /\ in_quotes' = TRUE
        /\ fields' = ExtendLast(fields, <<quote_char>>)
        /\ consumed' = 1
        /\ IF Len(buffer) = 1
           THEN incomplete_last_read' = TRUE /\ Return("need_more_data")
           ELSE UNCHANGED incomplete_last_read /\ Enter(buffer, 1, TRUE)
     \/ /\ is_newline(buffer[1])
        /\ consumed' = 1
        /\ UNCHANGED <<fields, in_quotes, incomplete_last_read>>
        /\ Return("complete")
     \/ /\ is_delim(buffer[1])
        /\ consumed' = 1
        /\ incomplete_last_read' = FALSE
        /\ UNCHANGED <<fields, in_quotes>>
        /\ Enter(buffer, 1, in_quotes)
     \/ /\ ~is_quote(buffer[1]) /\ ~is_newline(buffer[1]) /\ ~is_delim(buffer[1])
        /\ consumed' = 0
        /\ in_quotes' = FALSE
        /\ UNCHANGED <<fields, incomplete_last_read>>
        /\ Enter(buffer, 0, FALSE)
  /\ UNCHANGED config

ParseOn(buffer) ==
  /\ Entry(buffer)
  /\ CrIsData(buffer)
  /\ ~pending_quote
  /\ consumed' = 0
  /\ Enter(buffer, 0, in_quotes)
  /\ UNCHANGED <<config, fields, incomplete_last_read, in_quotes, pending_quote>>

Parse(buffer) ==
  \/ ParseAfterCr(buffer)
  \/ ParseAfterQuote(buffer)
  \/ ParseOn(buffer)

-----------------------------------------------------------------------------
(***************************************************************************)
(* The loop.                                                                *)
(***************************************************************************)
PrecededByCr == consumed > 0 /\ at(consumed - 1) = CR

NewlineEndsRecord ==
  /\ OnByte /\ ~in_quotes /\ is_newline(at(consumed))
  /\ fields' = WithField(IF crlf /\ PrecededByCr THEN consumed - 1 ELSE consumed)
  /\ incomplete_last_read' = FALSE
  /\ Advance(1)
  /\ Return("complete")
  /\ UNCHANGED <<config, pending_cr, in_quotes, pending_quote>>

DelimEndsField ==
  /\ OnByte /\ ~in_quotes /\ is_delim(at(consumed))
  /\ fields' = WithField(consumed)
  /\ incomplete_last_read' = FALSE
  /\ quoted_field' = FALSE
  /\ Advance(1)
  /\ Continue(consumed + 1)
  /\ UNCHANGED <<config, pending_cr, in_quotes, pending_quote, literals>>

LastByte == is_end(consumed + 1)

\* A pair of quotes inside quotes.
EscapedQuote ==
  /\ OnByte /\ in_quotes /\ is_quote(at(consumed))
  /\ ~LastByte /\ is_quote(at(consumed + 1))
  /\ Advance(2)
  /\ UNCHANGED <<config, fields, pending_cr, incomplete_last_read, in_quotes,
                 pending_quote, locals>>

QuoteEndsChunk ==
  /\ OnByte /\ in_quotes /\ is_quote(at(consumed))
  /\ LastByte
  /\ fields' = WithField(consumed)
  /\ in_quotes' = FALSE
  /\ pending_quote' = TRUE
  /\ incomplete_last_read' = TRUE
  /\ Advance(1)
  /\ Return("need_more_data")
  /\ UNCHANGED <<config, pending_cr>>

\* Any other quote inside quotes ends them.
QuoteCloses ==
  /\ OnByte /\ in_quotes /\ is_quote(at(consumed))
  /\ ~LastByte /\ ~is_quote(at(consumed + 1))
  /\ in_quotes' = FALSE
  /\ Advance(1)
  /\ UNCHANGED <<config, fields, pending_cr, incomplete_last_read,
                 pending_quote, locals>>

QuoteOpensField ==
  /\ OnByte /\ ~in_quotes /\ is_quote(at(consumed))
  /\ consumed = field_start
  /\ in_quotes' = TRUE
  /\ Advance(1)
  /\ UNCHANGED <<config, fields, pending_cr, incomplete_last_read,
                 pending_quote, locals>>

\* Data, and a quote inside a field that did not start with one.
SkipByte ==
  /\ OnByte
  /\ \/ in_quotes /\ ~is_quote(at(consumed))
     \/ ~in_quotes /\ is_quote(at(consumed)) /\ consumed # field_start
     \/ /\ ~in_quotes /\ ~is_quote(at(consumed))
        /\ ~is_newline(at(consumed)) /\ ~is_delim(at(consumed))
  /\ Advance(1)
  /\ UNCHANGED <<config, fields, pending_cr, incomplete_last_read, in_quotes,
                 pending_quote, locals>>

ChunkEnds ==
  /\ status = "parsing" /\ is_end(consumed)
  /\ pending_cr' = (pending_cr \/ (crlf /\ ~in_quotes /\ at(consumed - 1) = CR))
  /\ fields' = WithField(consumed)
  /\ incomplete_last_read' = TRUE
  /\ Return("need_more_data")
  /\ UNCHANGED <<config, consumed, in_quotes, pending_quote>>

Step ==
  \/ NewlineEndsRecord
  \/ DelimEndsField
  \/ EscapedQuote
  \/ QuoteEndsChunk
  \/ QuoteCloses
  \/ QuoteOpensField
  \/ SkipByte
  \/ ChunkEnds
=============================================================================
