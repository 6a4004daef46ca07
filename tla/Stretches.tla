----------------------------- MODULE Stretches -----------------------------
(***************************************************************************)
(* Facts the proofs about several components use: about stretches           *)
(* s[a+1 .. b] of a sequence, the empty ones included, induction over the   *)
(* indices of a sequence, recursion along them, and multiples.              *)
(***************************************************************************)
EXTENDS Integers, Sequences, TLAPS, SequenceTheorems, WellFoundedInduction

\* A stretch of a stretch is a stretch, the empty ones included.
LEMMA StretchOfStretch ==
  ASSUME NEW S, NEW s \in Seq(S), NEW a \in Nat, NEW b \in Nat,
         a <= b, b <= Len(s), NEW m \in Nat, NEW n \in Nat, m <= n, n <= b - a
  PROVE  SubSeq(SubSeq(s, a + 1, b), m + 1, n) = SubSeq(s, a + m + 1, a + n)
<1>1. Len(s) \in Nat
  BY LenProperties
<1>2. CASE m = n
  BY <1>2, SubSeqEmpty
<1>3. CASE m < n
  <2>1. /\ a + 1 \in 1 .. Len(s) /\ b \in 1 .. Len(s)
        /\ m + 1 \in 1 .. b - (a + 1) + 1 /\ n \in 1 .. b - (a + 1) + 1
    BY <1>1, <1>3
  <2>2. SubSeq(SubSeq(s, a + 1, b), m + 1, n) = SubSeq(s, (a + 1) + (m + 1) - 1, (a + 1) + n - 1)
    BY <2>1, SubSeqOfSubSeq
  <2>3. (a + 1) + (m + 1) - 1 = a + m + 1 /\ (a + 1) + n - 1 = a + n
    OBVIOUS
  <2> QED
    BY <2>2, <2>3
<1> QED
  BY <1>2, <1>3

\* The length of a stretch.
LEMMA StretchLen ==
  ASSUME NEW S, NEW s \in Seq(S), NEW a \in Nat, NEW b \in Nat,
         a <= b, b <= Len(s)
  PROVE  Len(SubSeq(s, a + 1, b)) = b - a
<1>1. Len(s) \in Nat /\ \A i \in a + 1 .. b : s[i] \in S
  BY LenProperties, ElementOfSeq
<1>2. Len(SubSeq(s, a + 1, b)) = IF a + 1 <= b THEN b - (a + 1) + 1 ELSE 0
  BY <1>1, SubSeqProperties
<1> QED
  BY <1>2

\* A stretch of a sequence has its elements.
LEMMA StretchIsSeq ==
  ASSUME NEW S, NEW s \in Seq(S), NEW a \in Nat, NEW b \in Nat, b <= Len(s)
  PROVE  SubSeq(s, a + 1, b) \in Seq(S)
<1>1. Len(s) \in Nat /\ \A i \in a + 1 .. b : s[i] \in S
  BY LenProperties, ElementOfSeq
<1> QED
  BY <1>1, SubSeqProperties

\* The elements of a stretch.
LEMMA StretchAt ==
  ASSUME NEW S, NEW s \in Seq(S), NEW a \in Nat, NEW b \in Nat, b <= Len(s)
  PROVE  \A i \in 1 .. b - a : SubSeq(s, a + 1, b)[i] = s[a + i]
<1>1. Len(s) \in Nat /\ \A i \in a + 1 .. b : s[i] \in S
  BY LenProperties, ElementOfSeq
<1>2. \A i \in 1 .. b - (a + 1) + 1 : SubSeq(s, a + 1, b)[i] = s[a + 1 + i - 1]
  BY <1>1, SubSeqProperties
<1> DEFINE stretch == SubSeq(s, a + 1, b)
<1> HIDE DEF stretch
<1>3. ASSUME NEW i \in 1 .. b - a PROVE stretch[i] = s[a + i]
  <2>1. i \in 1 .. b - (a + 1) + 1 /\ a + 1 + i - 1 = a + i
    OBVIOUS
  <2> QED
    BY <1>2, <2>1 DEF stretch
<1> QED
  BY <1>3 DEF stretch

\* A stretch grows by the element behind it.
LEMMA StretchGrows ==
  ASSUME NEW S, NEW s \in Seq(S), NEW a \in Nat, NEW b \in Nat,
         a <= b, b < Len(s)
  PROVE  SubSeq(s, a + 1, b + 1) = Append(SubSeq(s, a + 1, b), s[b + 1])
<1> DEFINE short == SubSeq(s, a + 1, b)
           long  == SubSeq(s, a + 1, b + 1)
<1>1. Len(s) \in Nat /\ b + 1 \in Nat /\ a <= b + 1 /\ b + 1 <= Len(s) /\ b + 1 \in 1 .. Len(s)
  BY LenProperties
<1>2. short \in Seq(S) /\ long \in Seq(S) /\ Len(short) = b - a /\ Len(long) = b + 1 - a
  BY <1>1, StretchIsSeq, StretchLen
<1>3. /\ \A i \in 1 .. b - a : short[i] = s[a + i]
      /\ \A i \in 1 .. b + 1 - a : long[i] = s[a + i]
  <2>1. \A i \in 1 .. b - a : SubSeq(s, a + 1, b)[i] = s[a + 1 + i - 1]
    BY <1>1, SubSeqProperties, ElementOfSeq
  <2>2. \A i \in 1 .. b + 1 - a : SubSeq(s, a + 1, b + 1)[i] = s[a + 1 + i - 1]
    BY <1>1, SubSeqProperties, ElementOfSeq
  <2>3. \A i \in Int : a + 1 + i - 1 = a + i
    OBVIOUS
  <2> QED
    BY <2>1, <2>2, <2>3
<1>4. s[b + 1] \in S
  BY <1>1, ElementOfSeq
<1> HIDE DEF short, long
<1> DEFINE appended == Append(short, s[b + 1])
<1>5. /\ appended \in Seq(S) /\ Len(appended) = b + 1 - a
      /\ \A i \in 1 .. b - a : appended[i] = short[i]
      /\ appended[b + 1 - a] = s[b + 1]
  BY <1>2, <1>4, AppendProperties
<1>6. ASSUME NEW i \in 1 .. b + 1 - a PROVE long[i] = appended[i]
  <2>1. CASE i \in 1 .. b - a
    BY <1>3, <1>5, <2>1
  <2>2. CASE i = b + 1 - a
    BY <1>3, <1>5, <2>2
  <2>3. i \in 1 .. b - a \/ i = b + 1 - a
    OBVIOUS
  <2> HIDE DEF appended
  <2> QED
    BY <2>1, <2>2, <2>3
<1> HIDE DEF appended
<1>7. long = appended
  BY <1>2, <1>5, <1>6, SeqEqual
<1> QED
  BY <1>7 DEF long, short, appended

\* All but the last element.
LEMMA FrontOfAppend ==
  ASSUME NEW S, NEW s \in Seq(S), NEW e \in S
  PROVE  LET more == Append(s, e)
         IN  /\ more \in Seq(S) /\ Len(more) = Len(s) + 1 /\ Len(s) \in Nat /\ more # <<>>
             /\ more[Len(s) + 1] = e
             /\ \A k \in 1 .. Len(s) : more[k] = s[k]
             /\ SubSeq(more, 1, Len(s)) = s /\ SubSeq(more, 1, Len(more) - 1) = s
<1> DEFINE more == Append(s, e)
           n == Len(s)
           front == SubSeq(more, 0 + 1, n)
<1>1. /\ more \in Seq(S) /\ Len(more) = n + 1 /\ n \in Nat /\ more[n + 1] = e
      /\ \A k \in 1 .. n : more[k] = s[k]
  BY AppendProperties, LenProperties
<1>2. more # <<>>
  BY <1>1, EmptySeq
<1> HIDE DEF more, n
<1>3. front \in Seq(S) /\ Len(front) = n /\ \A k \in 1 .. n : front[k] = s[k]
  <2>1. front \in Seq(S) /\ Len(front) = n - 0
    BY <1>1, StretchIsSeq, StretchLen
  <2>2. \A k \in 1 .. n - 0 : front[k] = more[0 + k]
    BY <1>1, StretchAt
  <2> QED
    BY <1>1, <2>1, <2>2
<1> HIDE DEF front
<1>4. front = s
  BY <1>3, SeqEqual DEF n
<1>5. front = SubSeq(more, 1, n) /\ Len(more) - 1 = n
  BY <1>1 DEF front
<1> QED
  BY <1>1, <1>2, <1>4, <1>5 DEF more, n

-----------------------------------------------------------------------------
(***************************************************************************)
(* Induction over the indices up to n.  The claim is told by the set of the *)
(* indices it holds of.                                                     *)
(***************************************************************************)
\* Some numbers have a least one.
LEMMA LeastNumber ==
  ASSUME NEW S, S \subseteq Nat, S # {}
  PROVE  \E least \in S : \A y \in S : least <= y
<1>1. PICK least \in S : \A y \in S : <<y, least>> \notin OpToRel(<, Nat)
  BY NatLessThanWellFounded, WFMin
<1>2. ASSUME NEW y \in S PROVE least <= y
  <2>1. ~(y < least)
    BY <1>1 DEF OpToRel
  <2> QED
    BY <2>1
<1> QED
  BY <1>2

\* Induction over the indices up to n, told by the set of those the claim holds of.
LEMMA IndexInduction ==
  ASSUME NEW n \in Nat, NEW T, 0 \in T, \A i \in 1 .. n : i - 1 \in T => i \in T
  PROVE  0 .. n \subseteq T
<1> DEFINE rest == (0 .. n) \ T
<1> SUFFICES ASSUME rest # {} PROVE FALSE
  OBVIOUS
<1>1. PICK least \in rest : \A y \in rest : least <= y
  <2>1. rest \subseteq Nat
    OBVIOUS
  <2> HIDE DEF rest
  <2> QED
    BY <2>1, LeastNumber
<1>2. least \in 1 .. n /\ least \notin T /\ least - 1 \in 0 .. n
  OBVIOUS
<1>3. least - 1 \in T
  <2>1. ~(least <= least - 1)
    BY <1>2
  <2> QED
    BY <1>1, <1>2, <2>1
<1> QED
  BY <1>2, <1>3

\* n steps in S, and what they make of a first value.
Steps(S, n) == [1 .. n -> [S -> S]]

Iterates(f, first, step, n) ==
  f[0] = first /\ \A i \in 1 .. n : f[i] = step[i][f[i - 1]]

\* A function may be defined from its value at the index before.
LEMMA Recursion ==
  ASSUME NEW S, NEW n \in Nat, NEW first \in S, NEW step \in Steps(S, n)
  PROVE  \E f \in [0 .. n -> S] : Iterates(f, first, step, n)
<1> USE DEF Steps, Iterates
<1> DEFINE Runs(m, f) == f[0] = first /\ \A i \in 1 .. m : f[i] = step[i][f[i - 1]]
           T == {m \in 0 .. n : \E f \in [0 .. m -> S] : Runs(m, f)}
<1>1. 0 \in T
  <2> DEFINE g == [i \in 0 .. 0 |-> first]
  <2>1. g \in [0 .. 0 -> S] /\ Runs(0, g)
    OBVIOUS
  <2> HIDE DEF g, Runs
  <2>2. \E f \in [0 .. 0 -> S] : Runs(0, f)
    BY <2>1
  <2> QED
    BY <2>2
<1>2. ASSUME NEW m \in 1 .. n, m - 1 \in T PROVE m \in T
  <2>1. PICK f \in [0 .. m - 1 -> S] : Runs(m - 1, f)
    BY <1>2
  <2> DEFINE g == [i \in 0 .. m |-> IF i = m THEN step[m][f[m - 1]] ELSE f[i]]
  <2>2. f[m - 1] \in S /\ step[m] \in [S -> S]
    OBVIOUS
  <2>3. g \in [0 .. m -> S]
    BY <2>2
  <2>4. ASSUME NEW i \in 1 .. m PROVE g[i] = step[i][g[i - 1]]
    <3>1. CASE i = m
      BY <3>1
    <3>2. CASE i # m
      <4>1. i \in 1 .. m - 1 /\ i - 1 \in 0 .. m - 1 /\ i - 1 # m
        BY <3>2
      <4>2. g[i] = f[i] /\ g[i - 1] = f[i - 1]
        BY <4>1
      <4> QED
        BY <2>1, <4>1, <4>2
    <3> QED
      BY <3>1, <3>2
  <2>5. g[0] = first
    BY <2>1
  <2>6. Runs(m, g)
    BY <2>4, <2>5
  <2> HIDE DEF g, Runs
  <2>7. \E h \in [0 .. m -> S] : Runs(m, h)
    BY <2>3, <2>6
  <2> QED
    BY <2>7
<1>3. n \in T
  <2>1. \A i \in 1 .. n : i - 1 \in T => i \in T
    BY <1>2
  <2> HIDE DEF T
  <2>2. 0 .. n \subseteq T
    BY <1>1, <2>1, IndexInduction
  <2> QED
    BY <2>2
<1> QED
  BY <1>3

\* What is left of a division.
LEMMA Division ==
  ASSUME NEW w \in Nat \ {0}, NEW p \in Nat
  PROVE  /\ p % w \in 0 .. w - 1
         /\ p = (w * (p \div w)) + (p % w) /\ p \div w \in Nat
         /\ p - (p % w) \in Nat /\ (p - (p % w)) % w = 0
<1>1. p = (w * (p \div w)) + (p % w) /\ p \div w \in Nat /\ p % w \in 0 .. w - 1
  OBVIOUS
<1>2. w * (p \div w) \in Nat
  BY <1>1
<1> QED
  BY <1>1, <1>2

\* Two multiples of w are at least w apart.
LEMMA MultiplesApart ==
  ASSUME NEW w \in Nat \ {0}, NEW a \in Nat, NEW b \in Nat,
         a % w = 0, b % w = 0, a < b
  PROVE  a + w <= b
<1>1. /\ a = w * (a \div w) /\ a \div w \in Nat
      /\ b = w * (b \div w) /\ b \div w \in Nat
  <2>1. a = (w * (a \div w)) + (a % w) /\ a \div w \in Nat
    BY Division
  <2>2. b = (w * (b \div w)) + (b % w) /\ b \div w \in Nat
    BY Division
  <2> QED
    BY <2>1, <2>2
<1>2. ASSUME NEW q \in Nat, NEW r \in Nat, w * q < w * r
      PROVE  w * q + w <= w * r
  <2>1. q + 1 <= r
    <3>1. ~(r <= q)
      BY <1>2
    <3> QED
      BY <3>1
  <2>2. w * (q + 1) <= w * r /\ w * (q + 1) = w * q + w
    BY <2>1
  <2> QED
    BY <2>2
<1> QED
  BY <1>1, <1>2

\* The multiple of w behind a multiple of w.
LEMMA NextMultiple ==
  ASSUME NEW w \in Nat \ {0}, NEW a \in Nat, a % w = 0
  PROVE  (a + w) % w = 0
<1> DEFINE b == a + w
           r == b % w
           c == b - r
<1>1. b \in Nat /\ b - w = a
  OBVIOUS
<1>2. r \in 0 .. w - 1 /\ c \in Nat /\ c % w = 0
  BY <1>1, Division
<1>3. ASSUME r # 0 PROVE FALSE
  <2>1. a < c /\ c < a + w
    BY <1>1, <1>2, <1>3
  <2> HIDE DEF c
  <2>2. a + w <= c
    BY <1>2, <2>1, MultiplesApart
  <2> QED
    BY <1>2, <2>1, <2>2
<1> QED
  BY <1>3

\* Nothing is a multiple of everything.
LEMMA ZeroIsMultiple == ASSUME NEW w \in Nat \ {0} PROVE 0 % w = 0
<1>1. 0 % w \in 0 .. w - 1 /\ 0 - (0 % w) \in Nat
  BY Division
<1> QED
  BY <1>1
=============================================================================
