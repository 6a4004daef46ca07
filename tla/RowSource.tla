----------------------------- MODULE RowSource -----------------------------
(***************************************************************************)
(* What a reader promises to whoever calls it, whatever it does with        *)
(* buffers and chunks: a call of next() hands out one more row and counts   *)
(* it, or reports the end, or throws; only a row handed out is counted; and *)
(* the end is final: no later call hands out a row or throws.  A            *)
(* constructor that throws leaves no reader behind.                         *)
(***************************************************************************)
EXTENDS Naturals

VARIABLES
  phase,        \* "new", "ready" or "closed" (the constructor threw)
  line_number,  \* the rows handed out
  outcome       \* how the last call ended

source_vars == <<phase, line_number, outcome>>

ConstructorErrors ==
  {"ConfigError", "BufferError", "FileHeaderError", "ParseError",
   "RecordSizeError", "RecordTooLargeError"}

NextErrors == {"ParseError", "RecordSizeError", "RecordTooLargeError"}

SourceInit ==
  /\ phase = "new"
  /\ line_number = 0
  /\ outcome = "none"

Open ==
  /\ phase = "new"
  /\ phase' = "ready"
  /\ UNCHANGED <<line_number, outcome>>

Refuse(error) ==
  /\ phase = "new"
  /\ phase' = "closed"
  /\ outcome' = error
  /\ UNCHANGED line_number

HandOut ==
  /\ phase = "ready" /\ outcome # "end"
  /\ line_number' = line_number + 1
  /\ outcome' = "record"
  /\ UNCHANGED phase

ReportEnd ==
  /\ phase = "ready"
  /\ outcome' = "end"
  /\ UNCHANGED <<phase, line_number>>

Throw(error) ==
  /\ phase = "ready" /\ outcome # "end"
  /\ outcome' = error
  /\ UNCHANGED <<phase, line_number>>

SourceNext ==
  \/ Open
  \/ \E error \in ConstructorErrors : Refuse(error)
  \/ HandOut
  \/ ReportEnd
  \/ \E error \in NextErrors : Throw(error)

SourceSpec == SourceInit /\ [][SourceNext]_source_vars
=============================================================================
