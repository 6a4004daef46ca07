---------------------------- MODULE MappedBuffer ----------------------------
(***************************************************************************)
(* MappedBuffer (csvmappedbuffer.cpp): the whole file is mapped, so nothing *)
(* is read or moved; only start_ advances.  An empty file is not mapped     *)
(* (data_ is null).  The file does not change while it is mapped.           *)
(***************************************************************************)
EXTENDS Csv

CONSTANTS Files  \* the files that may be mapped

ASSUME MappedAssumption == Files \subseteq String

VARIABLES file, N, data, start, size, reading

mapped_vars == <<file, N, data, start, size, reading>>

available == size - start

empty == start >= size

\* Mutant of view: it always starts at the front of the mapping.
ViewFromFront == [i \in 1 .. available |-> data[i - 1]]

view == [i \in 1 .. available |-> data[start + i - 1]]

is_null == size = 0

good == ~is_null /\ ~empty

Init ==
  /\ file \in Files
  /\ size = Len(file)
  /\ N = size
  /\ data = [i \in 0 .. size - 1 |-> file[i + 1]]
  /\ start = 0
  /\ reading = "ok"

refill ==
  /\ reading' = IF is_null THEN "fail" ELSE IF empty THEN "eof" ELSE "ok"
  /\ UNCHANGED <<file, N, data, start, size>>

\* Mutant of Consume: not bounded by what is available.
ConsumeUnbounded(bytes) ==
  /\ start' = start + bytes
  /\ UNCHANGED <<file, N, data, size, reading>>

Consume(bytes) ==
  /\ start' = start + Least(bytes, available)
  /\ UNCHANGED <<file, N, data, size, reading>>

Reset ==
  /\ start' = 0
  /\ UNCHANGED <<file, N, data, size, reading>>

\* A client may ask to consume more than there is.
Next ==
  \/ refill
  \/ \E bytes \in 0 .. N + 1 : Consume(bytes)
  \/ Reset

Spec == Init /\ [][Next]_mapped_vars

-----------------------------------------------------------------------------
TypeOK ==
  /\ file \in Files
  /\ N = size /\ size = Len(file)
  /\ data \in [0 .. size - 1 -> Char]
  /\ start \in 0 .. size
  /\ reading \in ReadingResult

Feed == INSTANCE ByteFeed WITH window <- view, rest <- <<>>

\* The mapped file is an IBuffer like any other: an over-long consume stops at
\* its end and a reset shows it all again.
ImplementsFeed == Feed!Spec
=============================================================================
