---------------------------- MODULE StreamBuffer ----------------------------
(***************************************************************************)
(* StreamBuffer<N> (csvstreambuffer.hpp): a block of N bytes filled from a  *)
(* std::istream.  The unread bytes are data[start .. size-1]; refill()      *)
(* moves them to the front of the block and reads the stream behind them.   *)
(*                                                                         *)
(* The stream is modelled from how refill() and reset() use it: a position  *)
(* in the file and the state bits.  A read that reaches the end of the file *)
(* sets eofbit (and failbit); a device error sets badbit and may deliver    *)
(* some of the bytes first; a stream whose state is not good reads nothing. *)
(***************************************************************************)
EXTENDS Csv

CONSTANTS
  Files,       \* the files that may be opened
  Capacities,  \* the values of the template parameter N
  NUL,         \* make_unique<char[]>(N) clears the block
  ReadErrors   \* whether the device may fail

ASSUME StreamAssumption ==
  /\ Files \subseteq String
  /\ Capacities \subseteq Nat \ {0}
  /\ NUL \notin Char
  /\ ReadErrors \in BOOLEAN

VARIABLES
  file,     \* the bytes of the file behind the stream
  pos,      \* the stream's position
  bits,     \* the stream's state bits that refill() can tell apart
  N,        \* the capacity
  data,     \* the block, indexed from 0 as in the code
  start,    \* start_
  size,     \* size_
  reading   \* what the last refill() returned

stream_vars == <<file, pos, bits>>
block_vars == <<N, data, start, size>>
buffer_vars == <<file, pos, bits, N, data, start, size, reading>>

available == size - start

empty == start = size

view == [i \in 1 .. available |-> data[start + i - 1]]

good == bits = {} \/ ~empty

Init ==
  /\ file \in Files
  /\ pos = 0
  /\ bits = {}
  /\ N \in Capacities
  /\ data = [i \in 0 .. N - 1 |-> NUL]
  /\ start = 0
  /\ size = 0
  /\ reading = "ok"

-----------------------------------------------------------------------------
\* Mutant of Compacted: the last unread byte is not moved.
CompactedShort ==
  IF available # 0 /\ start # 0
  THEN [i \in 0 .. N - 1 |-> IF i < available - 1 THEN data[start + i] ELSE data[i]]
  ELSE data

\* compact(): the block with the unread bytes moved to the front.  memmove
\* leaves what lies behind them as it was.
Compacted ==
  IF available # 0 /\ start # 0
  THEN [i \in 0 .. N - 1 |-> IF i < available THEN data[start + i] ELSE data[i]]
  ELSE data

\* refill() when the unread bytes fill the block.
RefillFull ==
  /\ available = N
  /\ data' = Compacted
  /\ start' = 0
  /\ size' = available
  /\ reading' = "buffer_full"
  /\ UNCHANGED <<stream_vars, N>>

\* Mutant of RefillWith: the stream is read over the unread bytes.
RefillOverUnread(n, b) ==
  /\ available < N
  /\ data' = [i \in 0 .. N - 1 |->
                IF i \in 0 .. n - 1 THEN file[pos + i + 1] ELSE Compacted[i]]
  /\ start' = 0
  /\ size' = available + n
  /\ pos' = pos + n
  /\ bits' = b
  /\ reading' = IF n > 0 THEN "ok" ELSE IF "eofbit" \in b THEN "eof" ELSE "fail"
  /\ UNCHANGED <<file, N>>

\* Mutant of RefillWith: compact() leaves start_ where it was.
RefillKeepsStart(n, b) ==
  /\ available < N
  /\ data' = [i \in 0 .. N - 1 |->
                IF i \in available .. available + n - 1
                THEN file[pos + i - available + 1]
                ELSE Compacted[i]]
  /\ size' = available + n
  /\ pos' = pos + n
  /\ bits' = b
  /\ reading' = IF n > 0 THEN "ok" ELSE IF "eofbit" \in b THEN "eof" ELSE "fail"
  /\ UNCHANGED <<file, N, start>>

\* Mutant of RefillWith: a read that brings nothing is taken for the end.
RefillEofOnFailure(n, b) ==
  /\ available < N
  /\ data' = [i \in 0 .. N - 1 |->
                IF i \in available .. available + n - 1
                THEN file[pos + i - available + 1]
                ELSE Compacted[i]]
  /\ start' = 0
  /\ size' = available + n
  /\ pos' = pos + n
  /\ bits' = b
  /\ reading' = IF n > 0 THEN "ok" ELSE "eof"
  /\ UNCHANGED <<file, N>>

\* refill() when the stream hands over n bytes and is left with the bits b.
RefillWith(n, b) ==
  /\ available < N
  /\ data' = [i \in 0 .. N - 1 |->
                IF i \in available .. available + n - 1
                THEN file[pos + i - available + 1]
                ELSE Compacted[i]]
  /\ start' = 0
  /\ size' = available + n
  /\ pos' = pos + n
  /\ bits' = b
  /\ reading' = IF n > 0 THEN "ok" ELSE IF "eofbit" \in b THEN "eof" ELSE "fail"
  /\ UNCHANGED <<file, N>>

\* istream::read of the free space: as many bytes as the file still has.
RefillReads ==
  /\ bits = {}
  /\ LET space == N - available
         left  == Len(file) - pos
     IN  RefillWith(Least(space, left), IF left < space THEN {"eofbit"} ELSE {})

\* istream::read on a stream that is not good() only fails again.
RefillOnSpentStream ==
  /\ bits # {}
  /\ RefillWith(0, bits)

\* The device fails after handing over n bytes.
RefillHitsReadError ==
  /\ ReadErrors
  /\ bits = {}
  /\ \E n \in 0 .. Least(N - available, Len(file) - pos) :
       RefillWith(n, {"badbit"})

Refill ==
  \/ RefillFull
  \/ RefillReads
  \/ RefillOnSpentStream
  \/ RefillHitsReadError

\* Mutant of Consume: not bounded by what is available.
ConsumeUnbounded(bytes) ==
  /\ start' = start + bytes
  /\ UNCHANGED <<stream_vars, N, data, size, reading>>

Consume(bytes) ==
  /\ start' = start + Least(bytes, available)
  /\ UNCHANGED <<stream_vars, N, data, size, reading>>

\* reset(): clear the bits and seek to the front of the file.
Reset ==
  /\ bits' = {}
  /\ pos' = 0
  /\ start' = 0
  /\ size' = 0
  /\ UNCHANGED <<file, N, data, reading>>

\* A client may ask to consume more than there is.
Next ==
  \/ Refill
  \/ \E bytes \in 0 .. N + 1 : Consume(bytes)
  \/ Reset

Spec == Init /\ [][Next]_buffer_vars

-----------------------------------------------------------------------------
TypeOK ==
  /\ file \in Files
  /\ pos \in 0 .. Len(file)
  /\ bits \in SUBSET {"eofbit", "badbit"}
  /\ N \in Capacities
  /\ data \in [0 .. N - 1 -> Char \cup {NUL}]
  /\ size \in 0 .. N
  /\ start \in 0 .. size
  /\ reading \in ReadingResult

\* The view is the stretch of the file that ends where the stream stands: a
\* compaction that overlaps, a short read or an over-long consume neither
\* loses nor repeats a byte.
ViewIsUnread ==
  /\ available <= pos
  /\ view = SubSeq(file, pos - available + 1, pos)

\* A client goes by what refill() returns: ok brings bytes; every other answer
\* leaves the view as it was, moved perhaps, and takes nothing from the stream;
\* eof means that the stream has handed over the whole file, fail that the
\* device has failed, and buffer_full that the unread bytes fill the block.
RefillTellsWhy ==
  [][Refill =>
       /\ reading' = "ok" => available' > available
       /\ reading' # "ok" => view' = view /\ pos' = pos
       /\ reading' = "eof" => pos' = Len(file)
       /\ reading' = "fail" => "badbit" \in bits'
       /\ reading' = "buffer_full" <=> available = N]_buffer_vars

Feed == INSTANCE ByteFeed WITH
          window <- view,
          rest   <- SubSeq(file, pos + 1, Len(file))

\* StreamBuffer implements the contract of ByteFeed.
ImplementsFeed == Feed!Spec
=============================================================================
