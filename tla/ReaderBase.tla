----------------------------- MODULE ReaderBase -----------------------------
(***************************************************************************)
(* What Reader and ViewReader share (csvreaderbase.cpp): the construction,  *)
(* the buffer behind IBuffer and the ways a call of next() ends, with the   *)
(* record size policies (save_record is the same lambda in both).  The loop *)
(* of next() and the parser are theirs; the actions below say nothing of    *)
(* the parser.                                                              *)
(*                                                                         *)
(* The buffer is the one the configuration asks for (create_buffer); both   *)
(* are instances over the same variables.                                   *)
(***************************************************************************)
EXTENDS ParserBase

CONSTANTS
  Files, Capacities, NUL, ReadErrors,
  Configs   \* the configurations a reader may be constructed with

ASSUME ReaderAssumption ==
  /\ Configs \subseteq Config
  /\ Files \subseteq String
  /\ Capacities \subseteq Nat \ {0}
  /\ NUL \notin Char
  /\ ReadErrors \in BOOLEAN

VARIABLES
  file, pos, bits, N, data, start, size, reading,
  pc,              \* "construct", "ready" (next() may be called), "next"
                   \* (inside next()) or "closed" (the constructor threw)
  in_ctor,         \* next() was called by read_headers()
  record_size,     \* record_size_
  line_number,     \* line_number_
  current_record,  \* current_record_
  headers,         \* headers_
  outcome,         \* what the last call returned or threw
  parsed,          \* history: the text of every record the parser completed
  accepted,        \* history: of those save_record let through
  failed           \* history: next() has thrown in the middle of a line

Stream == INSTANCE StreamBuffer
Mapped == INSTANCE MappedBuffer

buffer_vars == <<file, pos, bits, N, data, start, size, reading>>
row_vars == <<line_number, current_record, headers, parsed, accepted, failed>>
reader_vars == <<pc, in_ctor, record_size, outcome, row_vars>>

-----------------------------------------------------------------------------
(***************************************************************************)
(* The buffer behind the interface IBuffer.                                 *)
(***************************************************************************)
StreamInit == Stream!Init /\ ~config.mapped_buffer

MappedInit == Mapped!Init /\ config.mapped_buffer /\ pos = 0 /\ bits = {}

buffer_good == IF config.mapped_buffer THEN Mapped!good ELSE Stream!good
buffer_empty == IF config.mapped_buffer THEN Mapped!empty ELSE Stream!empty
buffer_view == IF config.mapped_buffer THEN Mapped!view ELSE Stream!view

refill ==
  \/ ~config.mapped_buffer /\ Stream!Refill
  \/ config.mapped_buffer /\ Mapped!refill /\ UNCHANGED <<pos, bits>>

consume(bytes) ==
  \/ ~config.mapped_buffer /\ Stream!Consume(bytes)
  \/ config.mapped_buffer /\ Mapped!Consume(bytes) /\ UNCHANGED <<pos, bits>>

-----------------------------------------------------------------------------
ReaderInit ==
  /\ config \in Configs
  /\ StreamInit \/ MappedInit
  /\ pc = "construct"
  /\ in_ctor = FALSE
  /\ record_size = 0
  /\ line_number = 0
  /\ current_record = <<>>
  /\ headers = <<>>
  /\ outcome = "none"
  /\ parsed = <<>>
  /\ accepted = <<>>
  /\ failed = FALSE

(***************************************************************************)
(* init(): validate_config, the record size of strict_to_value, the         *)
(* buffer's state and, with a header, read_headers.                         *)
(***************************************************************************)
valid_config ==
  /\ config.policy = "strict_to_header" => config.has_header
  /\ config.policy = "strict_to_value" => config.record_size # 0

initial_record_size ==
  IF config.policy = "strict_to_value" THEN config.record_size ELSE record_size

Rejects(error) ==
  /\ pc = "construct"
  /\ pc' = "closed"
  /\ outcome' = error
  /\ UNCHANGED <<buffer_vars, in_ctor, row_vars>>

RejectConfig ==
  /\ ~valid_config
  /\ Rejects("ConfigError")
  /\ UNCHANGED record_size

RejectBuffer ==
  /\ valid_config /\ ~buffer_good
  /\ Rejects("BufferError")
  /\ record_size' = initial_record_size

Constructs ==
  /\ pc = "construct"
  /\ valid_config /\ buffer_good
  /\ record_size' = initial_record_size
  /\ UNCHANGED <<buffer_vars, outcome, row_vars>>

ConstructWithoutHeader ==
  /\ Constructs
  /\ ~config.has_header
  /\ pc' = "ready"
  /\ UNCHANGED in_ctor

\* read_headers() calls next().
ConstructWithHeader ==
  /\ Constructs
  /\ config.has_header
  /\ pc' = "next"
  /\ in_ctor' = TRUE

\* The user calls next().
CallNext ==
  /\ pc = "ready"
  /\ pc' = "next"
  /\ UNCHANGED <<buffer_vars, in_ctor, record_size, outcome, row_vars>>

-----------------------------------------------------------------------------
(***************************************************************************)
(* How next() ends.  A record is what save_record stores, text the bytes of *)
(* its fields.                                                              *)
(***************************************************************************)
\* Mutant of fits: rows that are too short pass.
FitsIfNotLonger(text) ==
  record_size = 0 \/ config.policy = "flexible" \/ Len(text) <= record_size

\* expected_record_size() and the test of save_record.
fits(text) ==
  record_size = 0 \/ config.policy = "flexible" \/ Len(text) = record_size

\* save_record lets the record through and next() returns true.  Called by
\* read_headers, its text becomes the header and counts as no line.
Accept(record, text) ==
  LET saved == IF record_size = 0 /\ config.policy = "strict_to_first"
               THEN Len(text) ELSE record_size
  IN  /\ fits(text)
      /\ record_size' = IF in_ctor /\ config.policy = "strict_to_header"
                        THEN Len(text) ELSE saved
      /\ headers' = IF in_ctor THEN text ELSE headers
      /\ current_record' = IF in_ctor THEN <<>> ELSE record
      /\ line_number' = IF in_ctor THEN 0 ELSE line_number + 1
      /\ outcome' = IF in_ctor THEN "none" ELSE "record"
      /\ pc' = "ready"
      /\ in_ctor' = FALSE
      /\ accepted' = Append(accepted, text)
      /\ parsed' = Append(parsed, text)
      /\ UNCHANGED failed

\* Mutant of End: the record of the last row is cleared.
EndClearsRecord(result) ==
  /\ pc' = IF in_ctor THEN "closed" ELSE "ready"
  /\ outcome' = IF in_ctor /\ result = "end" THEN "FileHeaderError" ELSE result
  /\ in_ctor' = FALSE
  /\ current_record' = <<>>
  /\ UNCHANGED <<record_size, line_number, headers, accepted>>

\* next() returns false or throws.  In the constructor that is the end.
End(result) ==
  /\ pc' = IF in_ctor THEN "closed" ELSE "ready"
  /\ outcome' = IF in_ctor /\ result = "end" THEN "FileHeaderError" ELSE result
  /\ in_ctor' = FALSE
  /\ UNCHANGED <<record_size, line_number, current_record, headers, accepted>>

\* save_record throws RecordSizeError.
RejectSize(text) ==
  /\ ~fits(text)
  /\ End("RecordSizeError")
  /\ parsed' = Append(parsed, text)
  /\ UNCHANGED failed

SaveRecord(record, text) == Accept(record, text) \/ RejectSize(text)

\* Mutant of ReturnFalse: next() returns true although there was no record.
ReturnTrue == End("record") /\ UNCHANGED <<parsed, failed>>

ReturnFalse == End("end") /\ UNCHANGED <<parsed, failed>>

\* next() throws without having finished a line.
ThrowInLine(error) == End(error) /\ failed' = TRUE /\ UNCHANGED parsed

-----------------------------------------------------------------------------
Source == INSTANCE RowSource WITH
            phase <- IF pc = "construct" \/ in_ctor THEN "new"
                     ELSE IF pc = "closed" THEN "closed" ELSE "ready"

\* A reader implements the contract of RowSource: after next() has returned
\* false no call hands out a row or throws, whatever the buffer, the bytes left
\* in it and the flags of the parser; and a call that fails counts nothing.
ImplementsSource == Source!SourceSpec

ReaderTypeOK ==
  /\ config \in Configs
  /\ file \in String
  /\ start \in 0 .. size /\ size \in 0 .. N
  /\ reading \in ReadingResult
  /\ pc \in {"construct", "ready", "next", "closed"}
  /\ in_ctor \in BOOLEAN
  /\ record_size \in Nat
  /\ line_number \in Nat
  /\ headers \in Seq(String)
  /\ outcome \in {"none", "record", "end", "ConfigError", "BufferError",
                  "FileHeaderError", "ParseError", "RecordSizeError",
                  "RecordTooLargeError"}
  /\ parsed \in Seq(Seq(String))
  /\ accepted \in Seq(Seq(String))
  /\ failed \in BOOLEAN

\* The rows handed out, the header among them, have the size the policy asks for,
\* whatever was thrown or read as blank before: the configured one; the header's;
\* or that of the first row with fields.  (A blank header line switches
\* strict_to_header off; the README lists it.)
RowsFitThePolicy ==
  LET rows == 1 .. Len(accepted)
  IN  /\ config.policy = "strict_to_value" =>
           \A i \in rows : Len(accepted[i]) = config.record_size
      /\ config.policy = "strict_to_header" /\ Len(headers) # 0 =>
           \A i \in rows : Len(accepted[i]) = Len(headers)
      /\ config.policy = "strict_to_first" =>
           \A i, j \in rows :
             i < j /\ Len(accepted[i]) # 0 => Len(accepted[j]) = Len(accepted[i])

\* line_number() is the number of rows handed out, the header not among them,
\* whatever failed in between: of rows, as in SPECIFICATION.md:838, and not of
\* lines of the file, as the table of methods in src/README.md:79 has it.
CountsRows ==
  LET header == IF config.has_header THEN 1 ELSE 0
  IN  pc # "closed" /\ Len(accepted) >= header =>
        /\ line_number = Len(accepted) - header
        /\ config.has_header => headers = accepted[1]
=============================================================================
