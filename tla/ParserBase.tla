----------------------------- MODULE ParserBase -----------------------------
(***************************************************************************)
(* What every parser has (ParserBase<FieldType>): the configuration, the    *)
(* fields of the record being read and the flags kept from one chunk to the *)
(* next.  A field is a string of its own for Reader's parsers and a view    *)
(* into the block for ViewReader's.                                         *)
(***************************************************************************)
EXTENDS Csv

VARIABLES
  config,                \* config_
  fields,                \* fields_
  pending_cr,            \* pending_cr_: a chunk of the record ended in '\r'
  incomplete_last_read,  \* incomplete_last_read_: the last field may go on
  consumed,              \* consumed_
  status                 \* "parsing" inside parse(), else what it returned

base_members == <<fields, pending_cr, incomplete_last_read, consumed>>

ParserBaseInit ==
  /\ fields = <<>>
  /\ pending_cr = FALSE
  /\ incomplete_last_read = FALSE
  /\ consumed = 0
  /\ status = "idle"

base_reset ==
  /\ fields' = <<>>
  /\ pending_cr' = FALSE
  /\ incomplete_last_read' = FALSE
  /\ consumed' = 0

crlf == config.line_ending = "crlf"

is_delim(c) == c = delimiter
is_newline(c) == c = newline(config.line_ending)
=============================================================================
