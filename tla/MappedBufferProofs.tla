------------------------- MODULE MappedBufferProofs -------------------------
(***************************************************************************)
(* Proofs about MappedBuffer, for every file and alphabet: its types, that  *)
(* the view is what is left of the file, and that it implements ByteFeed.   *)
(***************************************************************************)
EXTENDS MappedBuffer, Stretches

\* The inductive invariant: the mapping is the file, byte for byte.
IInv ==
  /\ TypeOK
  /\ \A i \in 0 .. size - 1 : data[i] = file[i + 1]

LEMMA FileIsSeq ==
  ASSUME file \in Files
  PROVE  file \in Seq(Char) /\ Len(file) \in Nat
  BY MappedAssumption DEF String

LEMMA InitIInv == Init => IInv
<1> SUFFICES ASSUME Init
             PROVE  IInv
  OBVIOUS
<1>1. file \in Files /\ size = Len(file) /\ N = size /\ start = 0 /\ reading = "ok"
  BY DEF Init
<1>2. file \in Seq(Char) /\ Len(file) \in Nat
  BY <1>1, FileIsSeq
<1>3. \A i \in 0 .. size - 1 : data[i] = file[i + 1]
  BY DEF Init
<1>4. data \in [0 .. size - 1 -> Char]
  <2>1. \A i \in 0 .. size - 1 : i + 1 \in 1 .. Len(file)
    BY <1>1, <1>2
  <2>2. \A i \in 0 .. size - 1 : file[i + 1] \in Char
    BY <1>2, <2>1, ElementOfSeq
  <2> QED
    BY <2>2 DEF Init
<1> QED
  BY <1>1, <1>2, <1>3, <1>4 DEF IInv, TypeOK, ReadingResult

LEMMA NextKeepsIInv == IInv /\ [Next]_mapped_vars => IInv'
<1> SUFFICES ASSUME IInv, [Next]_mapped_vars
             PROVE  IInv'
  OBVIOUS
<1>1. file \in Files /\ Len(file) \in Nat /\ N = size /\ size = Len(file) /\ start \in 0 .. size
  BY FileIsSeq DEF IInv, TypeOK
<1>2. CASE refill
  BY <1>2 DEF IInv, TypeOK, refill, ReadingResult
<1>3. CASE \E bytes \in 0 .. N + 1 : Consume(bytes)
  <2>1. PICK bytes \in 0 .. N + 1 : Consume(bytes)
    BY <1>3
  <2>2. start' \in 0 .. size
    BY <1>1, <2>1 DEF Consume, Least, available
  <2> QED
    BY <2>1, <2>2 DEF IInv, TypeOK, Consume
<1>4. CASE Reset
  BY <1>1, <1>4 DEF IInv, TypeOK, Reset
<1>5. CASE UNCHANGED mapped_vars
  BY <1>5 DEF IInv, TypeOK, mapped_vars
<1> QED
  BY <1>2, <1>3, <1>4, <1>5 DEF Next

LEMMA InductiveInvariant == Spec => []IInv
  BY InitIInv, NextKeepsIInv, PTL DEF Spec

\* The cursor stays inside the mapping, whatever a client asks to consume.
THEOREM TypeCorrect == Spec => []TypeOK
<1>1. IInv => TypeOK
  BY DEF IInv
<1> QED
  BY <1>1, InductiveInvariant, PTL

-----------------------------------------------------------------------------
\* The view is what is left of the file.
ViewIsUnread == view = SubSeq(file, start + 1, Len(file))

LEMMA ViewIsRest == IInv => ViewIsUnread
<1> SUFFICES ASSUME IInv
             PROVE  view = SubSeq(file, start + 1, Len(file))
  BY DEF ViewIsUnread
<1>1. /\ file \in Seq(Char) /\ Len(file) \in Nat /\ size = Len(file)
      /\ start \in 0 .. size /\ available = size - start
  BY FileIsSeq DEF IInv, TypeOK, available
<1>2. SubSeq(file, start + 1, Len(file)) =
        [i \in 1 .. available |-> file[start + 1 + i - 1]]
  BY <1>1
<1>3. ASSUME NEW i \in 1 .. available
      PROVE  data[start + i - 1] = file[start + 1 + i - 1]
  <2>1. start + i - 1 \in 0 .. size - 1
    BY <1>1
  <2>2. data[start + i - 1] = file[(start + i - 1) + 1]
    BY <2>1 DEF IInv
  <2>3. (start + i - 1) + 1 = start + 1 + i - 1
    BY <1>1
  <2> QED
    BY <2>2, <2>3
<1>4. view = [i \in 1 .. available |-> file[start + 1 + i - 1]]
  BY <1>3 DEF view
<1> QED
  BY <1>2, <1>4

LEMMA ViewIsRestNext == IInv' => ViewIsUnread'
<1>1. IInv => ViewIsUnread
  BY ViewIsRest
<1> QED
  BY <1>1, PTL

\* A window that shows the whole file.
LEMMA WholeFile ==
  ASSUME NEW s \in Seq(Char)
  PROVE  /\ Len(s) \in 0 .. Len(s)
         /\ SubSeq(s, 0 + 1, Len(s)) = SubSeq(s, 1, Len(s))
         /\ Feed!Drop(s, Len(s)) = <<>>
<1>1. Len(s) \in Nat
  OBVIOUS
<1>2. SubSeq(s, Len(s) + 1, Len(s)) = <<>>
  BY <1>1, SubSeqEmpty
<1> QED
  BY <1>1, <1>2 DEF Feed!Drop

LEMMA RefillRefines ==
  ASSUME IInv, refill
  PROVE  UNCHANGED Feed!feed_vars
  BY DEF refill, Feed!feed_vars, view, available

LEMMA ConsumeRefines ==
  ASSUME IInv, IInv', NEW bytes \in Nat, Consume(bytes)
  PROVE  Feed!Next
<1> DEFINE n == Least(bytes, available)
<1>1. /\ file \in Seq(Char) /\ Len(file) \in Nat /\ size = Len(file)
      /\ start \in Nat /\ start <= Len(file)
      /\ available = Len(file) - start /\ available \in Nat
  BY FileIsSeq DEF IInv, TypeOK, available
<1>2. n \in Nat /\ n <= available
  BY <1>1 DEF Least
<1>3. start' = start + n /\ file' = file
  BY DEF Consume
<1> HIDE DEF n
<1>4. view = SubSeq(file, start + 1, Len(file)) /\ Len(view) = available
  BY <1>1, ViewIsRest, StretchLen DEF ViewIsUnread
<1>5. view' = SubSeq(file, start + n + 1, Len(file))
  BY <1>3, ViewIsRestNext DEF ViewIsUnread
<1>6. SubSeq(view, n + 1, available) = SubSeq(file, start + n + 1, start + available)
  BY <1>1, <1>2, <1>4, StretchOfStretch
<1>7. start + available = Len(file)
  BY <1>1
<1>8. Feed!Consume(n)
  BY <1>3, <1>4, <1>5, <1>6, <1>7 DEF Feed!Consume, Feed!Drop
<1>9. n \in 0 .. Len(view)
  BY <1>1, <1>2, <1>4
<1> QED
  BY <1>8, <1>9 DEF Feed!Next

LEMMA ResetRefines ==
  ASSUME IInv, IInv', Reset
  PROVE  Feed!Next
<1>1. file' = file /\ start' = 0 /\ file \in Seq(Char)
  BY FileIsSeq DEF Reset, IInv, TypeOK
<1>2. view' = SubSeq(file, 0 + 1, Len(file))
  BY <1>1, ViewIsRestNext DEF ViewIsUnread
<1>3. Feed!Reset
  BY <1>1, <1>2, WholeFile DEF Feed!Reset
<1> QED
  BY <1>3 DEF Feed!Next

LEMMA InitRefines == Init => Feed!Init
<1> SUFFICES ASSUME Init
             PROVE  Feed!Init
  OBVIOUS
<1>1. file \in Files /\ start = 0 /\ file \in Seq(Char)
  BY FileIsSeq DEF Init
<1>2. view = SubSeq(file, 0 + 1, Len(file))
  BY <1>1, InitIInv, ViewIsRest DEF ViewIsUnread
<1> QED
  BY <1>1, <1>2, WholeFile DEF Feed!Init

\* A mapped file keeps the contract of ByteFeed: consuming is the only step
\* that changes what a client sees, and a reset shows the whole file again.
THEOREM Implementation == Spec => ImplementsFeed
<1>1. IInv /\ IInv' /\ [Next]_mapped_vars => [Feed!Next]_(Feed!feed_vars)
  <2> SUFFICES ASSUME IInv, IInv', [Next]_mapped_vars
               PROVE  [Feed!Next]_(Feed!feed_vars)
    OBVIOUS
  <2>1. CASE refill
    BY <2>1, RefillRefines
  <2>2. CASE \E bytes \in 0 .. N + 1 : Consume(bytes)
    <3>1. PICK bytes \in 0 .. N + 1 : Consume(bytes)
      BY <2>2
    <3>2. bytes \in Nat
      BY FileIsSeq DEF IInv, TypeOK
    <3> QED
      BY <3>1, <3>2, ConsumeRefines
  <2>3. CASE Reset
    BY <2>3, ResetRefines
  <2>4. CASE UNCHANGED mapped_vars
    BY <2>4 DEF mapped_vars, Feed!feed_vars, view, available
  <2> QED
    BY <2>1, <2>2, <2>3, <2>4 DEF Next
<1> QED
  BY <1>1, InitRefines, InductiveInvariant, PTL DEF Spec, ImplementsFeed, Feed!Spec
=============================================================================
