-------------------------------- MODULE Csv --------------------------------
(***************************************************************************)
(* The vocabulary the components of csvengine share: the bytes the engine   *)
(* tells apart, the reader's configuration (csvconfig.hpp) and the result   *)
(* enumerations of the buffer and of the parser.                            *)
(*                                                                         *)
(* A byte is a member of a small set.  The engine only ever compares a      *)
(* byte with the delimiter, the quote character, '\n' and '\r', so every    *)
(* other byte behaves like a member of Data.                                *)
(***************************************************************************)
EXTENDS Integers, Sequences

CONSTANTS
  delimiter,   \* Config::delimiter
  quote_char,  \* Config::quote_char
  LF,          \* '\n'
  CR,          \* '\r'
  Data         \* the bytes with no structural meaning

ASSUME CharAssumption ==
  /\ delimiter # quote_char /\ delimiter # LF /\ delimiter # CR
  /\ quote_char # LF /\ quote_char # CR /\ LF # CR
  /\ Data \cap {delimiter, quote_char, LF, CR} = {}

Char == Data \cup {delimiter, quote_char, LF, CR}

String == Seq(Char)

LineEnding == {"lf", "crlf", "cr"}

ParseMode == {"strict", "lenient"}

RecordSizePolicy ==
  {"flexible", "strict_to_first", "strict_to_header", "strict_to_value"}

\* The members of Config that decide what the engine does.  config.hpp's
\* `streaming` is read by nothing in src/engine.
Config ==
  [has_header    : BOOLEAN,
   has_quoting   : BOOLEAN,
   mapped_buffer : BOOLEAN,
   use_simd      : BOOLEAN,
   parse_mode    : ParseMode,
   line_ending   : LineEnding,
   policy        : RecordSizePolicy,
   record_size   : Nat]

\* Config::is_line_ending: the one byte that ends a record.
newline(line_ending) == IF line_ending = "cr" THEN CR ELSE LF

ReadingResult == {"ok", "eof", "buffer_full", "fail"}

ParseStatus == {"need_more_data", "complete", "fail"}

\* std::min on size_t.
Least(m, n) == IF m <= n THEN m ELSE n
=============================================================================
