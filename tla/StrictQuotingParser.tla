------------------------ MODULE StrictQuotingParser ------------------------
(***************************************************************************)
(* StrictQuotingParser::parse.  A call enters by one of the Parse...        *)
(* actions, which deal with what the previous chunk left pending, then      *)
(* walks the chunk: one action per branch of the loop.                      *)
(***************************************************************************)
EXTENDS Parser

\* The copy before the next byte c and behind it: the second quote of a pair is
\* left out.
CopyByte(copy, c) ==
  IF copy.pair /\ is_quote(c)
  THEN [text |-> copy.text, pair |-> FALSE]
  ELSE [text |-> Append(copy.text, c), pair |-> is_quote(c)]

\* add_field's loop over raw: every second quote of a run of quotes is left out.
Copy(raw) ==
  LET copy[i \in 0 .. Len(raw)] ==
        IF i = 0 THEN [text |-> <<>>, pair |-> FALSE]
        ELSE CopyByte(copy[i - 1], raw[i])
  IN  copy[Len(raw)]

\* add_field's copy of raw; with no literal it is a memcpy.
Unescaped(raw) == IF literals = 0 THEN raw ELSE Copy(raw).text

\* Mutant of WithField: a field cut in two becomes two fields.
WithFieldUnmerged(end) ==
  Append(fields, Unescaped(SubSeq(chunk, field_start + 1, end)))

\* add_field(end): the fields with the bytes from field_start up to end.
WithField(end) ==
  LET piece == Unescaped(SubSeq(chunk, field_start + 1, end))
  IN  IF incomplete_last_read THEN ExtendLast(fields, piece)
                              ELSE Append(fields, piece)

\* Mutant of AddField: the count of literals goes on into the next field.
AddFieldKeepsCount(end) == fields' = WithField(end) /\ UNCHANGED literals

AddField(end) == fields' = WithField(end) /\ literals' = 0

Advance(n) == consumed' = consumed + n

-----------------------------------------------------------------------------
(***************************************************************************)
(* Entry.  The reader never passes an empty buffer.                         *)
(***************************************************************************)
Entry(buffer) == status = "idle" /\ buffer # <<>>

Enter(buffer, from) ==
  /\ status' = "parsing"
  /\ chunk' = buffer
  /\ field_start' = from
  /\ literals' = 0
  /\ quoted_field' = FALSE

\* The last chunk ended in '\r': only '\n' may follow.
ParseAfterCr(buffer) ==
  /\ Entry(buffer)
  /\ crlf /\ pending_cr
  /\ pending_cr' = FALSE
  /\ consumed' = 1
  /\ \/ /\ is_newline(buffer[1])
        /\ fields' = WithoutLastChar(fields)
        /\ Return("complete")
     \/ /\ ~is_newline(buffer[1])
        /\ fields' = fields
        /\ Return("fail")
  /\ UNCHANGED <<config, incomplete_last_read, in_quotes, pending_quote>>

\* The last chunk ended in a quote: the first byte tells what it meant.
ParseAfterQuote(buffer) ==
  /\ Entry(buffer)
  /\ ~(crlf /\ pending_cr) /\ pending_quote
  /\ pending_quote' = FALSE
  /\ consumed' = 1
  /\ \/ /\ is_quote(buffer[1])
        /\ in_quotes' = TRUE
        /\ IF Len(buffer) = 1
           THEN incomplete_last_read' = TRUE /\ Return("need_more_data")
           ELSE UNCHANGED incomplete_last_read /\ Enter(buffer, 0)
     \/ /\ is_newline(buffer[1])
        /\ UNCHANGED <<in_quotes, incomplete_last_read>>
        /\ Return("complete")
     \/ /\ is_delim(buffer[1])
        /\ incomplete_last_read' = FALSE
        /\ UNCHANGED in_quotes
        /\ Enter(buffer, 1)
     \/ /\ ~is_quote(buffer[1]) /\ ~is_newline(buffer[1]) /\ ~is_delim(buffer[1])
        /\ UNCHANGED <<in_quotes, incomplete_last_read>>
        /\ Return("fail")
  /\ UNCHANGED <<config, fields, pending_cr>>

ParseOn(buffer) ==
  /\ Entry(buffer)
  /\ ~(crlf /\ pending_cr) /\ ~pending_quote
  /\ consumed' = 0
  /\ Enter(buffer, 0)
  /\ UNCHANGED <<config, fields, pending_cr, incomplete_last_read,
                 in_quotes, pending_quote>>

Parse(buffer) ==
  \/ ParseAfterCr(buffer)
  \/ ParseAfterQuote(buffer)
  \/ ParseOn(buffer)

-----------------------------------------------------------------------------
(***************************************************************************)
(* The loop outside quotes.                                                 *)
(***************************************************************************)
\* Mutant of PrecededByCr: the byte before the newline is not looked at.
PrecededByAnything == consumed > 0

PrecededByCr == consumed > 0 /\ at(consumed - 1) = CR

NewlineEndsRecord ==
  /\ OnByte /\ ~in_quotes /\ is_newline(at(consumed))
  /\ crlf => PrecededByCr
  /\ fields' = WithField(IF crlf THEN consumed - 1 ELSE consumed)
  /\ incomplete_last_read' = FALSE
  /\ Advance(1)
  /\ Return("complete")
  /\ UNCHANGED <<config, pending_cr, in_quotes, pending_quote>>

BareNewlineFails ==
  /\ OnByte /\ ~in_quotes /\ is_newline(at(consumed))
  /\ crlf /\ ~PrecededByCr
  /\ Advance(1)
  /\ Return("fail")
  /\ UNCHANGED <<config, fields, pending_cr, incomplete_last_read,
                 in_quotes, pending_quote>>

DelimEndsField ==
  /\ OnByte /\ ~in_quotes /\ is_delim(at(consumed))
  /\ AddField(consumed)
  /\ incomplete_last_read' = FALSE
  /\ Advance(1)
  /\ Continue(consumed + 1)
  /\ UNCHANGED <<config, pending_cr, in_quotes, pending_quote, quoted_field>>

QuoteOpensField ==
  /\ OnByte /\ ~in_quotes /\ is_quote(at(consumed))
  /\ consumed = field_start
  /\ in_quotes' = TRUE
  /\ Advance(1)
  /\ Continue(consumed + 1)
  /\ UNCHANGED <<config, fields, pending_cr, incomplete_last_read,
                 pending_quote, literals, quoted_field>>

StrayQuoteFails ==
  /\ OnByte /\ ~in_quotes /\ is_quote(at(consumed))
  /\ consumed # field_start
  /\ Advance(1)
  /\ Return("fail")
  /\ UNCHANGED <<config, fields, pending_cr, incomplete_last_read,
                 in_quotes, pending_quote>>

\* Any byte inside quotes that is not a quote, and data outside them.
SkipByte ==
  /\ OnByte /\ ~is_quote(at(consumed))
  /\ in_quotes \/ (~is_newline(at(consumed)) /\ ~is_delim(at(consumed)))
  /\ Advance(1)
  /\ Continue(field_start)
  /\ UNCHANGED <<config, fields, pending_cr, incomplete_last_read, in_quotes,
                 pending_quote, literals, quoted_field>>

-----------------------------------------------------------------------------
(***************************************************************************)
(* A quote inside quotes: the byte after it tells what it is.               *)
(***************************************************************************)
OnQuoteInQuotes == OnByte /\ in_quotes /\ is_quote(at(consumed))

LastByte == is_end(consumed + 1)

EscapedQuote ==
  /\ OnQuoteInQuotes /\ ~LastByte /\ is_quote(at(consumed + 1))
  /\ literals' = literals + 1
  /\ Advance(2)
  /\ Continue(field_start)
  /\ UNCHANGED <<config, fields, pending_cr, incomplete_last_read, in_quotes,
                 pending_quote, quoted_field>>

QuoteEndsChunk ==
  /\ OnQuoteInQuotes /\ LastByte
  /\ fields' = WithField(consumed)
  /\ in_quotes' = FALSE
  /\ pending_quote' = TRUE
  /\ incomplete_last_read' = TRUE
  /\ Advance(1)
  /\ Return("need_more_data")
  /\ UNCHANGED <<config, pending_cr>>

ClosesBefore(c) ==
  /\ OnQuoteInQuotes /\ ~LastByte
  /\ at(consumed + 1) = c
  /\ in_quotes' = FALSE

QuoteThenCr ==
  /\ crlf /\ ClosesBefore(CR)
  /\ \/ /\ ~is_end(consumed + 2) /\ is_newline(at(consumed + 2))
        /\ fields' = WithField(consumed)
        /\ incomplete_last_read' = FALSE
        /\ Advance(3)
        /\ Return("complete")
        /\ UNCHANGED <<pending_cr, pending_quote>>
     \/ /\ ~is_end(consumed + 2) /\ ~is_newline(at(consumed + 2))
        /\ Advance(1)
        /\ Return("fail")
        /\ UNCHANGED <<fields, incomplete_last_read, pending_cr, pending_quote>>
     \/ /\ is_end(consumed + 2)
        /\ fields' = ExtendLast(WithField(consumed), <<CR>>)
        /\ incomplete_last_read' = FALSE
        /\ pending_cr' = TRUE
        /\ pending_quote' = TRUE
        /\ Advance(2)
        /\ Return("need_more_data")
  /\ UNCHANGED config

QuoteThenDelim ==
  /\ ClosesBefore(delimiter)
  /\ AddField(consumed)
  /\ incomplete_last_read' = FALSE
  /\ Advance(2)
  /\ Continue(consumed + 2)
  /\ UNCHANGED <<config, pending_cr, pending_quote, quoted_field>>

QuoteThenNewline ==
  /\ ClosesBefore(newline(config.line_ending))
  /\ fields' = WithField(consumed)
  /\ incomplete_last_read' = FALSE
  /\ Advance(2)
  /\ Return("complete")
  /\ UNCHANGED <<config, pending_cr, pending_quote>>

QuoteThenDataFails ==
  /\ \E c \in Char \ {quote_char, delimiter, newline(config.line_ending)} :
       ClosesBefore(c) /\ ~(crlf /\ c = CR)
  /\ Advance(1)
  /\ Return("fail")
  /\ UNCHANGED <<config, fields, pending_cr, incomplete_last_read, pending_quote>>

\* The chunk ran out inside the record.
ChunkEnds ==
  /\ status = "parsing" /\ is_end(consumed)
  /\ pending_cr' = (pending_cr \/ (crlf /\ ~in_quotes /\ at(consumed - 1) = CR))
  /\ fields' = WithField(consumed)
  /\ incomplete_last_read' = TRUE
  /\ Return("need_more_data")
  /\ UNCHANGED <<config, consumed, in_quotes, pending_quote>>

Step ==
  \/ NewlineEndsRecord
  \/ BareNewlineFails
  \/ DelimEndsField
  \/ QuoteOpensField
  \/ StrayQuoteFails
  \/ SkipByte
  \/ EscapedQuote
  \/ QuoteEndsChunk
  \/ QuoteThenCr
  \/ QuoteThenDelim
  \/ QuoteThenNewline
  \/ QuoteThenDataFails
  \/ ChunkEnds
=============================================================================
