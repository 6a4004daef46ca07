------------------------------- MODULE Parser -------------------------------
(***************************************************************************)
(* The members of the parsers that own their strings (ParserBase,           *)
(* QuotingParser) and the locals of one call of parse().  A parser keeps    *)
(* its members between calls, so that a record may arrive in any number of  *)
(* chunks; reset() clears them before the next record.                      *)
(*                                                                         *)
(* parse() moves its cursor buff_it and the member consumed_ together, so   *)
(* consumed is the cursor too: an index into the chunk, from 0 as in the    *)
(* code.                                                                    *)
(***************************************************************************)
EXTENDS ParserBase

VARIABLES
  in_quotes,      \* in_quotes_
  pending_quote,  \* pending_quote_: the last chunk ended in a quote that may
                  \* close the field
  chunk,          \* the argument of parse()
  field_start,    \* field_start
  literals,       \* current_field_quote_literals
  quoted_field    \* quoted_field

members == <<base_members, in_quotes, pending_quote>>
locals == <<chunk, field_start, literals, quoted_field, status>>
parser_vars == <<config, members, locals>>

ParserStatus == ParseStatus \cup {"idle", "parsing", "undefined"}

ParserTypeOK ==
  /\ config \in Config
  /\ fields \in Seq(String)
  /\ pending_cr \in BOOLEAN
  /\ incomplete_last_read \in BOOLEAN
  /\ consumed \in Nat
  /\ in_quotes \in BOOLEAN
  /\ pending_quote \in BOOLEAN
  /\ chunk \in String
  /\ field_start \in Nat
  /\ literals \in Nat
  /\ quoted_field \in BOOLEAN
  /\ status \in ParserStatus

-----------------------------------------------------------------------------
ParserInit ==
  /\ ParserBaseInit
  /\ in_quotes = FALSE
  /\ pending_quote = FALSE
  /\ chunk = <<>>
  /\ field_start = 0
  /\ literals = 0
  /\ quoted_field = FALSE

reset ==
  /\ base_reset
  /\ in_quotes' = FALSE
  /\ pending_quote' = FALSE

is_quote(c) == c = quote_char

\* *(buffer.data() + i)
at(i) == chunk[i + 1]

is_end(i) == i = Len(chunk)

\* The cursor stands on a byte of the chunk, inside parse().
OnByte == status = "parsing" /\ consumed < Len(chunk)

\* parse() returns and its locals are gone.
Return(result) ==
  /\ status' = result
  /\ chunk' = <<>>
  /\ field_start' = 0
  /\ literals' = 0
  /\ quoted_field' = FALSE

\* parse() goes on, with its current field starting at index from.
Continue(from) ==
  /\ field_start' = from
  /\ UNCHANGED <<chunk, status>>

\* fs with piece put after its last field (the string is appended to).
ExtendLast(fs, piece) == [fs EXCEPT ![Len(fs)] = @ \o piece]

\* remove_last_char_from_fields() of the quoting parsers.
WithoutLastChar(fs) ==
  IF fs # <<>> /\ fs[Len(fs)] # <<>>
  THEN [fs EXCEPT ![Len(fs)] = SubSeq(@, 1, Len(@) - 1)]
  ELSE fs
=============================================================================
