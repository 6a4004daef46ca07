------------------------- MODULE StreamBufferProofs -------------------------
(***************************************************************************)
(* Proofs about StreamBuffer, for every file, capacity and alphabet: type   *)
(* correctness, that the view is the unread stretch of the file, and that   *)
(* the buffer implements ByteFeed.                                          *)
(***************************************************************************)
EXTENDS StreamBuffer, Stretches

\* The inductive strengthening of ViewIsUnread: the bytes of the block between
\* start and size are the bytes of the file up to the stream's position.
BlockInv ==
  /\ available <= pos
  /\ \A i \in start .. size - 1 : data[i] = file[pos - size + i + 1]

IInv == TypeOK /\ BlockInv

\* A file is a finite sequence of bytes.
LEMMA FileIsSeq ==
  ASSUME TypeOK
  PROVE  file \in Seq(Char) /\ Len(file) \in Nat
  BY StreamAssumption DEF TypeOK, String

LEMMA CapacityPositive ==
  ASSUME TypeOK
  PROVE  N \in Nat /\ N > 0
  BY StreamAssumption DEF TypeOK

\* Compaction keeps the unread bytes: they stand at the front of the block.
LEMMA CompactedBytes ==
  ASSUME TypeOK
  PROVE  /\ Compacted \in [0 .. N - 1 -> Char \cup {NUL}]
         /\ \A i \in 0 .. available - 1 : Compacted[i] = data[start + i]
<1>1. N \in Nat /\ size \in 0 .. N /\ start \in 0 .. size /\ data \in [0 .. N - 1 -> Char \cup {NUL}]
  BY CapacityPositive DEF TypeOK
<1>2. CASE available # 0 /\ start # 0
  BY <1>1, <1>2 DEF Compacted, available
<1>3. CASE available = 0 \/ start = 0
  <2>1. Compacted = data
    BY <1>3 DEF Compacted
  <2>2. \A i \in 0 .. available - 1 : start + i = i
    BY <1>1, <1>3 DEF available
  <2> QED
    BY <1>1, <2>1, <2>2
<1> QED
  BY <1>2, <1>3

\* What any refill that hands over n bytes does to the invariant.
LEMMA RefillWithKeepsInv ==
  ASSUME IInv, NEW n \in Nat, NEW b \in SUBSET {"eofbit", "badbit"},
         n <= N - available, n <= Len(file) - pos, RefillWith(n, b)
  PROVE  IInv'
<1>1. /\ file \in Files /\ file \in Seq(Char) /\ Len(file) \in Nat
      /\ pos \in 0 .. Len(file)
      /\ N \in Nat /\ N > 0 /\ N \in Capacities
      /\ size \in 0 .. N /\ start \in 0 .. size
  BY FileIsSeq, CapacityPositive DEF IInv, TypeOK
<1>2. available \in 0 .. N
  BY <1>1 DEF available
<1>3. /\ Compacted \in [0 .. N - 1 -> Char \cup {NUL}]
      /\ \A i \in 0 .. available - 1 : Compacted[i] = data[start + i]
  BY CompactedBytes DEF IInv
<1>4. /\ size' = available + n /\ start' = 0 /\ pos' = pos + n
      /\ bits' = b /\ file' = file /\ N' = N
      /\ data' = [i \in 0 .. N - 1 |->
                IF i \in available .. available + n - 1
                THEN file[pos + i - available + 1]
                ELSE Compacted[i]]
      /\ reading' \in ReadingResult
  BY DEF RefillWith, ReadingResult
<1>5. TypeOK'
  <2>1. \A i \in available .. available + n - 1 : file[pos + i - available + 1] \in Char
    <3> SUFFICES ASSUME NEW i \in available .. available + n - 1
                 PROVE  file[pos + i - available + 1] \in Char
      OBVIOUS
    <3>1. pos + i - available + 1 \in 1 .. Len(file)
      BY <1>1, <1>2
    <3> QED
      BY <1>1, <3>1, ElementOfSeq
  <2>2. data' \in [0 .. N - 1 -> Char \cup {NUL}]
    BY <1>1, <1>2, <1>3, <1>4, <2>1
  <2>3. pos' \in 0 .. Len(file) /\ size' \in 0 .. N /\ start' \in 0 .. size'
    BY <1>1, <1>2, <1>4
  <2> QED
    BY <1>1, <1>4, <2>2, <2>3 DEF TypeOK
<1>6. BlockInv'
  <2>1. available' = available + n /\ available' <= pos'
    BY <1>1, <1>2, <1>4 DEF available, IInv, BlockInv
  <2>2. ASSUME NEW i \in 0 .. available + n - 1
        PROVE  data'[i] = file[pos + n - (available + n) + i + 1]
    <3>1. i \in 0 .. N - 1
      BY <1>1, <1>2
    <3>2. CASE i < available
      <4>1. data'[i] = data[start + i]
        BY <1>2, <1>3, <1>4, <3>1, <3>2
      <4>2. start + i \in start .. size - 1 /\ pos - size + (start + i) + 1 = pos - available + i + 1
        BY <1>1, <3>2 DEF available
      <4>3. data[start + i] = file[pos - size + (start + i) + 1]
        BY <4>2 DEF IInv, BlockInv
      <4>4. pos + n - (available + n) + i + 1 = pos - available + i + 1
        BY <1>1, <1>2
      <4> QED
        BY <4>1, <4>2, <4>3, <4>4
    <3>3. CASE i >= available
      <4>1. data'[i] = file[pos + i - available + 1]
        BY <1>2, <1>4, <3>1, <3>3
      <4>2. pos + n - (available + n) + i + 1 = pos + i - available + 1
        BY <1>1, <1>2
      <4> QED
        BY <4>1, <4>2
    <3> QED
      BY <1>2, <3>2, <3>3
  <2>3. start' .. size' - 1 = 0 .. available + n - 1
    BY <1>2, <1>4
  <2>4. \A i \in start' .. size' - 1 : data'[i] = file'[pos' - size' + i + 1]
    <3> SUFFICES ASSUME NEW i \in start' .. size' - 1
                 PROVE  data'[i] = file'[pos' - size' + i + 1]
      OBVIOUS
    <3>1. i \in 0 .. available + n - 1
      BY <2>3
    <3>2. data'[i] = file[pos + n - (available + n) + i + 1]
      BY <2>2, <3>1
    <3>3. size' = available + n /\ pos' = pos + n /\ file' = file
      BY <1>4
    <3>4. pos' - size' + i + 1 = pos + n - (available + n) + i + 1
      BY <1>1, <1>2, <3>1, <3>3
    <3> QED
      BY <3>2, <3>3, <3>4
  <2> QED
    BY <2>1, <2>4 DEF BlockInv
<1> QED
  BY <1>5, <1>6 DEF IInv

-----------------------------------------------------------------------------
LEMMA InitIInv == Init => IInv
<1> SUFFICES ASSUME Init
             PROVE  IInv
  OBVIOUS
<1>1. file \in Seq(Char) /\ Len(file) \in Nat /\ N \in Nat \ {0}
  BY StreamAssumption DEF Init, String
<1>2. TypeOK
  BY <1>1 DEF Init, TypeOK, ReadingResult
<1>3. BlockInv
  BY DEF Init, BlockInv, available
<1> QED
  BY <1>2, <1>3 DEF IInv

LEMMA RefillKeepsIInv ==
  ASSUME IInv, Refill
  PROVE  IInv'
<1>1. /\ Len(file) \in Nat /\ pos \in 0 .. Len(file) /\ available \in 0 .. N /\ N \in Nat /\ N > 0
      /\ size \in 0 .. N /\ start \in 0 .. size /\ bits \in SUBSET {"eofbit", "badbit"}
      /\ available = size - start
  BY FileIsSeq, CapacityPositive DEF IInv, TypeOK, available
<1>2. CASE RefillFull
  <2>1. start = 0 /\ size = N /\ available = N
    BY <1>1, <1>2 DEF RefillFull
  <2>2. data' = data /\ start' = start /\ size' = size
    BY <1>2, <2>1 DEF RefillFull, Compacted
  <2>3. /\ file' = file /\ pos' = pos /\ bits' = bits /\ N' = N
        /\ reading' \in ReadingResult
    BY <1>2 DEF RefillFull, stream_vars, ReadingResult
  <2>4. TypeOK'
    BY <2>2, <2>3 DEF IInv, TypeOK
  <2>5. BlockInv'
    BY <2>2, <2>3 DEF IInv, BlockInv, available
  <2> QED
    BY <2>4, <2>5 DEF IInv
<1>3. CASE RefillReads
  <2> DEFINE space == N - available
             left == Len(file) - pos
             n == Least(space, left)
             b == IF left < space THEN {"eofbit"} ELSE {}
  <2>1. RefillWith(n, b)
    BY <1>3 DEF RefillReads
  <2>2. n \in Nat /\ n <= N - available /\ n <= Len(file) - pos
    BY <1>1 DEF Least
  <2>3. b \in SUBSET {"eofbit", "badbit"}
    OBVIOUS
  <2> HIDE DEF n, b
  <2> QED
    BY <2>1, <2>2, <2>3, RefillWithKeepsInv
<1>4. CASE RefillOnSpentStream
  <2>1. RefillWith(0, bits)
    BY <1>4 DEF RefillOnSpentStream
  <2>2. 0 <= N - available /\ 0 <= Len(file) - pos
    BY <1>1
  <2> QED
    BY <1>1, <2>1, <2>2, RefillWithKeepsInv
<1>5. CASE RefillHitsReadError
  <2>1. PICK n \in 0 .. Least(N - available, Len(file) - pos) : RefillWith(n, {"badbit"})
    BY <1>5 DEF RefillHitsReadError
  <2>2. n \in Nat /\ n <= N - available /\ n <= Len(file) - pos
    BY <1>1 DEF Least
  <2> QED
    BY <2>1, <2>2, RefillWithKeepsInv
<1> QED
  BY <1>2, <1>3, <1>4, <1>5 DEF Refill

LEMMA ConsumeKeepsIInv ==
  ASSUME IInv, NEW bytes \in Nat, Consume(bytes)
  PROVE  IInv'
<1>1. /\ Len(file) \in Nat /\ pos \in 0 .. Len(file) /\ N \in Nat
      /\ size \in 0 .. N /\ start \in 0 .. size
  BY FileIsSeq, CapacityPositive DEF IInv, TypeOK
<1>2. /\ file' = file /\ pos' = pos /\ bits' = bits /\ N' = N
      /\ data' = data /\ size' = size /\ reading' = reading
      /\ start' = start + Least(bytes, size - start)
  BY DEF Consume, stream_vars, available
<1>3. start' \in start .. size
  BY <1>1, <1>2 DEF Least
<1>4. TypeOK'
  BY <1>1, <1>2, <1>3 DEF IInv, TypeOK
<1>5. BlockInv'
  <2>1. available' <= pos'
    BY <1>1, <1>2, <1>3 DEF IInv, BlockInv, available
  <2>2. \A i \in start' .. size' - 1 : i \in start .. size - 1
    BY <1>1, <1>2, <1>3
  <2>3. \A i \in start' .. size' - 1 : data'[i] = file'[pos' - size' + i + 1]
    BY <1>2, <2>2 DEF IInv, BlockInv
  <2> QED
    BY <2>1, <2>3 DEF BlockInv
<1> QED
  BY <1>4, <1>5 DEF IInv

LEMMA ResetKeepsIInv ==
  ASSUME IInv, Reset
  PROVE  IInv'
<1>1. Len(file) \in Nat /\ N \in Nat
  BY FileIsSeq, CapacityPositive DEF IInv
<1>2. TypeOK'
  BY <1>1 DEF IInv, TypeOK, Reset
<1>3. BlockInv'
  BY <1>1 DEF BlockInv, Reset, available
<1> QED
  BY <1>2, <1>3 DEF IInv

LEMMA NextKeepsIInv == IInv /\ [Next]_buffer_vars => IInv'
<1> SUFFICES ASSUME IInv, [Next]_buffer_vars
             PROVE  IInv'
  OBVIOUS
<1>1. CASE Refill
  BY <1>1, RefillKeepsIInv
<1>2. CASE \E bytes \in 0 .. N + 1 : Consume(bytes)
  <2>1. PICK bytes \in 0 .. N + 1 : Consume(bytes)
    BY <1>2
  <2>2. bytes \in Nat
    BY CapacityPositive DEF IInv
  <2> QED
    BY <2>1, <2>2, ConsumeKeepsIInv
<1>3. CASE Reset
  BY <1>3, ResetKeepsIInv
<1>4. CASE UNCHANGED buffer_vars
  BY <1>4 DEF buffer_vars, IInv, TypeOK, BlockInv, available
<1> QED
  BY <1>1, <1>2, <1>3, <1>4 DEF Next

\* The strengthened invariant holds in every reachable state.
THEOREM InductiveInvariant == Spec => []IInv
<1>1. Init => IInv
  BY InitIInv
<1>2. IInv /\ [Next]_buffer_vars => IInv'
  BY NextKeepsIInv
<1> QED
  BY <1>1, <1>2, PTL DEF Spec

\* Every member of the buffer keeps its type: start_ and size_ stay inside the
\* block whatever is refilled, consumed and reset.
THEOREM TypeCorrect == Spec => []TypeOK
<1>1. IInv => TypeOK
  BY DEF IInv
<1> QED
  BY <1>1, InductiveInvariant, PTL

-----------------------------------------------------------------------------
\* The view, a sequence, is the stretch of the file up to the position.
LEMMA ViewFromBlock ==
  ASSUME IInv
  PROVE  ViewIsUnread
<1>1. /\ file \in Seq(Char) /\ Len(file) \in Nat /\ pos \in 0 .. Len(file) /\ N \in Nat
      /\ size \in 0 .. N /\ start \in 0 .. size
      /\ available = size - start /\ available \in Nat /\ available <= pos
  BY FileIsSeq, CapacityPositive DEF IInv, TypeOK, BlockInv, available
<1>2. SubSeq(file, pos - available + 1, pos) =
        [i \in 1 .. available |-> file[pos - available + 1 + i - 1]]
  BY <1>1
<1>3. ASSUME NEW i \in 1 .. available
      PROVE  data[start + i - 1] = file[pos - available + 1 + i - 1]
  <2>1. start + i - 1 \in start .. size - 1
    BY <1>1
  <2>2. data[start + i - 1] = file[pos - size + (start + i - 1) + 1]
    BY <2>1 DEF IInv, BlockInv
  <2>3. pos - size + (start + i - 1) + 1 = pos - available + 1 + i - 1
    BY <1>1
  <2> QED
    BY <2>2, <2>3
<1>4. view = [i \in 1 .. available |-> file[pos - available + 1 + i - 1]]
  BY <1>3 DEF view
<1> QED
  BY <1>1, <1>2, <1>4 DEF ViewIsUnread

\* No byte is lost, repeated or reordered between the stream and the view.
THEOREM ViewCorrect == Spec => []ViewIsUnread
<1>1. IInv => ViewIsUnread
  BY ViewFromBlock
<1> QED
  BY <1>1, InductiveInvariant, PTL

-----------------------------------------------------------------------------
(***************************************************************************)
(* StreamBuffer implements ByteFeed.  Window and rest are two adjacent      *)
(* stretches of the file, so the steps reduce to the facts of Stretches.    *)
(***************************************************************************)

\* Facts about the positions, in the form the refinement steps use.
LEMMA Positions ==
  ASSUME IInv
  PROVE  /\ file \in Seq(Char) /\ Len(file) \in Nat
         /\ pos \in Nat /\ pos <= Len(file)
         /\ available \in Nat /\ available <= pos /\ available = size - start
         /\ N \in Nat /\ size \in 0 .. N /\ start \in 0 .. size
         /\ view = SubSeq(file, (pos - available) + 1, pos)
<1>1. /\ pos \in 0 .. Len(file) /\ size \in 0 .. N /\ start \in 0 .. size
      /\ available <= pos
  BY DEF IInv, TypeOK, BlockInv
<1>2. view = SubSeq(file, pos - available + 1, pos)
  BY ViewFromBlock DEF ViewIsUnread
<1> QED
  BY <1>1, <1>2, FileIsSeq, CapacityPositive DEF IInv, available

\* ViewFromBlock in the state after a step.
LEMMA ViewFromBlockNext == IInv' => ViewIsUnread'
<1>1. IInv => ViewIsUnread
  BY ViewFromBlock
<1> QED
  BY <1>1, PTL

LEMMA RefillWithRefines ==
  ASSUME IInv, IInv', NEW n \in Nat, NEW b,
         n <= Len(file) - pos, RefillWith(n, b)
  PROVE  Feed!Next
<1> DEFINE rest == SubSeq(file, pos + 1, Len(file))
           taken == pos - available
<1>1. /\ file \in Seq(Char) /\ Len(file) \in Nat /\ pos \in Nat /\ pos + n <= Len(file)
      /\ available \in Nat /\ taken \in Nat /\ taken <= pos
      /\ view = SubSeq(file, taken + 1, pos)
  BY Positions
<1>2. file' = file /\ pos' = pos + n /\ size' = available + n /\ start' = 0
  BY DEF RefillWith
<1>3. available' = available + n
  BY <1>1, <1>2 DEF available
<1>4. view' = SubSeq(file, taken + 1, pos + n)
  <2>1. view' = SubSeq(file', (pos' - available') + 1, pos')
    BY ViewFromBlockNext DEF ViewIsUnread
  <2>2. pos' - available' = taken
    BY <1>1, <1>2, <1>3
  <2> QED
    BY <1>2, <2>1, <2>2
<1>5. SubSeq(rest, 1, n) = SubSeq(file, pos + 1, pos + n)
  <2>1. SubSeq(SubSeq(file, pos + 1, Len(file)), 0 + 1, n) = SubSeq(file, pos + 0 + 1, pos + n)
    BY <1>1, StretchOfStretch
  <2> QED
    BY <1>1, <2>1
<1>6. view' = view \o SubSeq(rest, 1, n)
  <2>1. /\ taken + 1 \in 1 .. Len(file) + 1 /\ pos \in (taken + 1) - 1 .. Len(file)
        /\ pos + n \in pos .. Len(file)
    BY <1>1
  <2>2. SubSeq(file, taken + 1, pos) \o SubSeq(file, pos + 1, pos + n)
          = SubSeq(file, taken + 1, pos + n)
    BY <1>1, <2>1, ConcatAdjacentSubSeq
  <2> QED
    BY <1>1, <1>4, <1>5, <2>2
<1>7. Len(rest) = Len(file) - pos
  BY <1>1, StretchLen
<1>8. rest' = SubSeq(rest, n + 1, Len(rest))
  <2>1. SubSeq(SubSeq(file, pos + 1, Len(file)), n + 1, Len(file) - pos)
          = SubSeq(file, pos + n + 1, pos + (Len(file) - pos))
    BY <1>1, StretchOfStretch
  <2>2. pos + (Len(file) - pos) = Len(file)
    BY <1>1
  <2> QED
    BY <1>2, <1>7, <2>1, <2>2
<1>9. Feed!Refill(n)
  BY <1>2, <1>6, <1>8 DEF Feed!Refill, Feed!Drop
<1> QED
  <2>1. n \in 0 .. Len(rest)
    BY <1>1, <1>7
  <2> QED
    BY <1>9, <2>1 DEF Feed!Next

LEMMA ConsumeRefines ==
  ASSUME IInv, IInv', NEW bytes \in Nat, Consume(bytes)
  PROVE  Feed!Next
<1> DEFINE n == Least(bytes, available)
           taken == pos - available
<1>1. /\ file \in Seq(Char) /\ Len(file) \in Nat /\ pos \in Nat /\ pos <= Len(file)
      /\ available \in Nat /\ available = size - start /\ taken \in Nat /\ taken <= pos
      /\ size \in Nat /\ start \in Nat
      /\ view = SubSeq(file, taken + 1, pos)
  BY Positions
<1>2. n \in Nat /\ n <= available
  BY <1>1 DEF Least
<1>3. file' = file /\ pos' = pos /\ size' = size /\ start' = start + n
  BY DEF Consume, stream_vars
<1>4. available' = available - n
  BY <1>1, <1>2, <1>3 DEF available
<1> HIDE DEF n
<1>5. view' = SubSeq(file, taken + n + 1, pos)
  <2>1. view' = SubSeq(file', (pos' - available') + 1, pos')
    BY ViewFromBlockNext DEF ViewIsUnread
  <2>2. pos' - available' = taken + n
    BY <1>1, <1>2, <1>3, <1>4
  <2> QED
    BY <1>3, <2>1, <2>2
<1>6. Len(view) = available
  BY <1>1, StretchLen
<1>7. SubSeq(view, n + 1, Len(view)) = SubSeq(file, taken + n + 1, pos)
  <2>1. SubSeq(SubSeq(file, taken + 1, pos), n + 1, available)
          = SubSeq(file, taken + n + 1, taken + available)
    BY <1>1, <1>2, StretchOfStretch
  <2>2. taken + available = pos
    BY <1>1
  <2> QED
    BY <1>1, <1>6, <2>1, <2>2
<1>8. Feed!Consume(n)
  BY <1>3, <1>5, <1>7 DEF Feed!Consume, Feed!Drop
<1> QED
  <2>1. n \in 0 .. Len(view)
    BY <1>1, <1>2, <1>6
  <2> QED
    BY <1>8, <2>1 DEF Feed!Next

LEMMA RefillRefines ==
  ASSUME IInv, IInv', Refill
  PROVE  Feed!Next \/ UNCHANGED <<file, view, SubSeq(file, pos + 1, Len(file))>>
<1>1. /\ Len(file) \in Nat /\ pos \in Nat /\ pos <= Len(file)
      /\ available \in Nat /\ N \in Nat /\ available <= N
      /\ available = size - start /\ size \in 0 .. N /\ start \in 0 .. size
  BY Positions
<1>2. CASE RefillFull
  <2>1. start = 0 /\ available = N /\ size = N
    BY <1>1, <1>2 DEF RefillFull
  <2>2. /\ data' = data /\ start' = start /\ size' = size
        /\ file' = file /\ pos' = pos
    BY <1>2, <2>1 DEF RefillFull, Compacted, stream_vars
  <2> QED
    BY <2>2 DEF view, available
<1>3. CASE RefillReads
  <2> DEFINE space == N - available
             left == Len(file) - pos
             n == Least(space, left)
             b == IF left < space THEN {"eofbit"} ELSE {}
  <2>1. RefillWith(n, b)
    BY <1>3 DEF RefillReads
  <2>2. n \in Nat /\ n <= Len(file) - pos
    BY <1>1 DEF Least
  <2> HIDE DEF n, b
  <2> QED
    BY <2>1, <2>2, RefillWithRefines
<1>4. CASE RefillOnSpentStream
  <2>1. RefillWith(0, bits)
    BY <1>4 DEF RefillOnSpentStream
  <2>2. 0 <= Len(file) - pos
    BY <1>1
  <2> QED
    BY <2>1, <2>2, RefillWithRefines
<1>5. CASE RefillHitsReadError
  <2>1. PICK n \in 0 .. Least(N - available, Len(file) - pos) : RefillWith(n, {"badbit"})
    BY <1>5 DEF RefillHitsReadError
  <2>2. n \in Nat /\ n <= Len(file) - pos
    BY <1>1 DEF Least
  <2> QED
    BY <2>1, <2>2, RefillWithRefines
<1> QED
  BY <1>2, <1>3, <1>4, <1>5 DEF Refill

\* An empty window at the front of the file: how the buffer starts and what a
\* reset leaves.
LEMMA EmptyPrefix ==
  ASSUME NEW s \in Seq(Char)
  PROVE  /\ 0 \in 0 .. Len(s)
         /\ SubSeq(s, 1, 0) = <<>>
         /\ Feed!Drop(s, 0) = s
<1>1. Len(s) \in Nat
  OBVIOUS
<1>2. SubSeq(s, 0 + 1, Len(s)) = s
  BY SubSeqFull
<1> QED
  BY <1>1, <1>2 DEF Feed!Drop

LEMMA ResetRefines ==
  ASSUME IInv, Reset
  PROVE  Feed!Next
<1>1. file' = file /\ pos' = 0 /\ start' = 0 /\ size' = 0
  BY DEF Reset
<1>2. file \in Seq(Char)
  BY FileIsSeq DEF IInv
<1>3. available' = 0
  BY <1>1 DEF available
<1>4. view' = <<>>
  BY <1>1, <1>3 DEF view
<1>5. SubSeq(file', pos' + 1, Len(file')) = file
  BY <1>1, <1>2, SubSeqFull
<1>6. Feed!Reset
  BY <1>1, <1>2, <1>4, <1>5, EmptyPrefix DEF Feed!Reset
<1> QED
  BY <1>6 DEF Feed!Next

LEMMA InitRefines == Init => Feed!Init
<1> SUFFICES ASSUME Init
             PROVE  Feed!Init
  OBVIOUS
<1>1. file \in Seq(Char) /\ file \in Files /\ pos = 0 /\ start = 0 /\ size = 0
  BY StreamAssumption DEF Init, String
<1>2. view = <<>>
  BY <1>1 DEF view, available
<1>3. SubSeq(file, pos + 1, Len(file)) = file
  BY <1>1, SubSeqFull
<1> QED
  BY <1>1, <1>2, <1>3, EmptyPrefix DEF Feed!Init

\* Every refill, consume and reset of the buffer is a step of ByteFeed, or
\* changes nothing a client can see.
THEOREM Implementation == Spec => ImplementsFeed
<1>1. Init => Feed!Init
  BY InitRefines
<1>2. IInv /\ IInv' /\ [Next]_buffer_vars => [Feed!Next]_(Feed!feed_vars)
  <2> SUFFICES ASSUME IInv, IInv', [Next]_buffer_vars
               PROVE  [Feed!Next]_(Feed!feed_vars)
    OBVIOUS
  <2>1. CASE Refill
    BY <2>1, RefillRefines DEF Feed!feed_vars
  <2>2. CASE \E bytes \in 0 .. N + 1 : Consume(bytes)
    <3>1. PICK bytes \in 0 .. N + 1 : Consume(bytes)
      BY <2>2
    <3>2. bytes \in Nat
      BY CapacityPositive DEF IInv
    <3> QED
      BY <3>1, <3>2, ConsumeRefines
  <2>3. CASE Reset
    BY <2>3, ResetRefines
  <2>4. CASE UNCHANGED buffer_vars
    BY <2>4 DEF buffer_vars, Feed!feed_vars, view, available
  <2> QED
    BY <2>1, <2>2, <2>3, <2>4 DEF Next
<1> QED
  BY <1>1, <1>2, InductiveInvariant, PTL DEF Spec, ImplementsFeed, Feed!Spec

-----------------------------------------------------------------------------
\* What the answer of refill() rests on: eofbit is only ever set by the read that
\* takes the last byte of the file.
EofInv == "eofbit" \in bits => pos = Len(file)

LEMMA ReadsKeepEofInv ==
  ASSUME TypeOK, RefillReads
  PROVE  EofInv'
<1>1. /\ N \in Nat /\ available \in Int /\ pos \in Nat /\ Len(file) \in Nat
      /\ pos <= Len(file)
  BY CapacityPositive, FileIsSeq DEF TypeOK, available
<1> DEFINE space == N - available
           left == Len(file) - pos
<1>2. /\ bits' = IF left < space THEN {"eofbit"} ELSE {}
      /\ pos' = pos + Least(space, left)
      /\ file' = file
  BY DEF RefillReads, RefillWith
<1>3. CASE left < space
  <2>1. pos' = pos + left
    BY <1>1, <1>2, <1>3 DEF Least
  <2> QED
    BY <1>1, <1>2, <2>1 DEF EofInv
<1>4. CASE ~(left < space)
  BY <1>2, <1>4 DEF EofInv
<1> QED
  BY <1>3, <1>4

LEMMA NextKeepsEofInv == TypeOK /\ EofInv /\ [Next]_buffer_vars => EofInv'
<1> SUFFICES ASSUME TypeOK, EofInv, [Next]_buffer_vars
             PROVE  EofInv'
  OBVIOUS
<1>1. CASE RefillFull
  BY <1>1 DEF EofInv, RefillFull, stream_vars
<1>2. CASE RefillReads
  BY <1>2, ReadsKeepEofInv
<1>3. CASE RefillOnSpentStream
  <2>1. pos' = pos + 0 /\ bits' = bits /\ file' = file /\ pos \in Nat
    BY <1>3, FileIsSeq DEF RefillOnSpentStream, RefillWith, TypeOK
  <2> QED
    BY <2>1 DEF EofInv
<1>4. CASE RefillHitsReadError
  <2>1. bits' = {"badbit"}
    BY <1>4 DEF RefillHitsReadError, RefillWith
  <2> QED
    BY <2>1 DEF EofInv
<1>5. CASE \E bytes \in 0 .. N + 1 : Consume(bytes)
  BY <1>5 DEF EofInv, Consume, stream_vars
<1>6. CASE Reset
  BY <1>6 DEF EofInv, Reset
<1>7. CASE UNCHANGED buffer_vars
  BY <1>7 DEF EofInv, buffer_vars
<1> QED
  BY <1>1, <1>2, <1>3, <1>4, <1>5, <1>6, <1>7 DEF Next, Refill

\* RefillTellsWhy of one refill.
Tells ==
  /\ reading' = "ok" => available' > available
  /\ reading' # "ok" => view' = view /\ pos' = pos
  /\ reading' = "eof" => pos' = Len(file)
  /\ reading' = "fail" => "badbit" \in bits'
  /\ reading' = "buffer_full" <=> available = N

\* A refill that brings nothing leaves the view as it was.
LEMMA ViewKept ==
  ASSUME IInv, IInv', file' = file, pos' = pos, available' = available
  PROVE  view' = view
<1>1. view = SubSeq(file, pos - available + 1, pos)
  BY ViewFromBlock DEF ViewIsUnread
<1>2. view' = SubSeq(file', pos' - available' + 1, pos')
  BY ViewFromBlockNext DEF ViewIsUnread
<1> QED
  BY <1>1, <1>2

\* A read that brings nothing has met the end of the file, and then the stream
\* had no more to give, or the device has failed.
LEMMA ReadTells ==
  ASSUME IInv, IInv', NEW n \in Nat, NEW b \in SUBSET {"eofbit", "badbit"},
         RefillWith(n, b),
         n = 0 => b # {} /\ ("eofbit" \in b => pos = Len(file))
  PROVE  Tells
<1>1. /\ available \in Nat /\ pos \in Nat /\ N \in Nat
  BY Positions
<1>2. /\ file' = file /\ pos' = pos + n /\ bits' = b /\ available < N
      /\ size' = available + n /\ start' = 0
      /\ reading' = IF n > 0 THEN "ok" ELSE IF "eofbit" \in b THEN "eof" ELSE "fail"
  BY DEF RefillWith
<1>3. available' = available + n
  BY <1>1, <1>2 DEF available
<1>4. CASE n > 0
  BY <1>1, <1>2, <1>3, <1>4 DEF Tells
<1>5. CASE n = 0
  <2>1. pos' = pos /\ available' = available
    BY <1>1, <1>2, <1>3, <1>5
  <2>2. view' = view
    BY <1>2, <2>1, ViewKept
  <2>3. reading' = "eof" => pos' = Len(file)
    BY <1>2, <1>5, <2>1
  <2>4. reading' = "fail" => "badbit" \in bits'
    BY <1>2, <1>5
  <2>5. reading' \in {"eof", "fail"} /\ available # N
    BY <1>1, <1>2, <1>5
  <2> QED
    BY <2>1, <2>2, <2>3, <2>4, <2>5 DEF Tells
<1> QED
  BY <1>4, <1>5

LEMMA RefillTells ==
  ASSUME IInv, IInv', EofInv, Refill
  PROVE  Tells
<1>0. bits \in SUBSET {"eofbit", "badbit"}
  BY DEF IInv, TypeOK
<1>1. /\ Len(file) \in Nat /\ pos \in Nat /\ pos <= Len(file)
      /\ available \in Nat /\ N \in Nat /\ available <= N
      /\ available = size - start /\ size \in 0 .. N /\ start \in 0 .. size
  BY Positions
<1>2. CASE RefillFull
  <2>1. start = 0 /\ available = N /\ size = N
    BY <1>1, <1>2 DEF RefillFull
  <2>2. /\ data' = data /\ start' = start /\ size' = size
        /\ file' = file /\ pos' = pos /\ reading' = "buffer_full"
    BY <1>2, <2>1 DEF RefillFull, Compacted, stream_vars
  <2>3. view' = view
    BY <2>2 DEF view, available
  <2> QED
    BY <2>1, <2>2, <2>3 DEF Tells
<1>3. CASE RefillReads
  <2> DEFINE space == N - available
             left == Len(file) - pos
             n == Least(space, left)
             b == IF left < space THEN {"eofbit"} ELSE {}
  <2>1. RefillWith(n, b) /\ available < N
    BY <1>3 DEF RefillReads, RefillWith
  <2>2. n \in Nat /\ (n = 0 => left = 0 /\ left < space)
    BY <1>1, <2>1 DEF Least
  <2>3. n = 0 => b # {} /\ pos = Len(file)
    BY <1>1, <2>2
  <2>4. b \in SUBSET {"eofbit", "badbit"}
    OBVIOUS
  <2> HIDE DEF n, b
  <2> QED
    BY <2>1, <2>2, <2>3, <2>4, ReadTells
<1>4. CASE RefillOnSpentStream
  <2>1. RefillWith(0, bits) /\ bits # {}
    BY <1>4 DEF RefillOnSpentStream
  <2>2. 0 \in Nat /\ ("eofbit" \in bits => pos = Len(file))
    BY DEF EofInv
  <2> QED
    BY <1>0, <2>1, <2>2, ReadTells
<1>5. CASE RefillHitsReadError
  <2>1. PICK n \in 0 .. Least(N - available, Len(file) - pos) : RefillWith(n, {"badbit"})
    BY <1>5 DEF RefillHitsReadError
  <2>2. n \in Nat /\ {"badbit"} \in SUBSET {"eofbit", "badbit"} /\ {"badbit"} # {}
    BY <1>1 DEF Least
  <2>3. ~("eofbit" \in {"badbit"})
    OBVIOUS
  <2> QED
    BY <2>1, <2>2, <2>3, ReadTells
<1> QED
  BY <1>2, <1>3, <1>4, <1>5 DEF Refill

\* What refill() returned tells its caller what has happened: bytes, the end of a
\* file that has been handed over whole, a device that failed, or a full block.
THEOREM RefillAnswers == Spec => RefillTellsWhy
<1>1. Init => EofInv
  BY DEF Init, EofInv
<1>2. IInv => TypeOK
  BY DEF IInv
<1>3. IInv /\ IInv' /\ EofInv => [Refill => Tells]_buffer_vars
  BY RefillTells
<1>4. [Refill => Tells]_buffer_vars =>
        [Refill =>
           /\ reading' = "ok" => available' > available
           /\ reading' # "ok" => view' = view /\ pos' = pos
           /\ reading' = "eof" => pos' = Len(file)
           /\ reading' = "fail" => "badbit" \in bits'
           /\ reading' = "buffer_full" <=> available = N]_buffer_vars
  BY DEF Tells
<1> QED
  BY <1>1, <1>2, <1>3, <1>4, NextKeepsEofInv, InductiveInvariant, PTL
  DEF Spec, RefillTellsWhy
=============================================================================
