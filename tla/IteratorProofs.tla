--------------------------- MODULE IteratorProofs ---------------------------
(***************************************************************************)
(* Proofs about the iterator, for tables of any length and over any reader  *)
(* that keeps the contract of RowSource.                                    *)
(***************************************************************************)
EXTENDS Iterator, Stretches

TypeInv ==
  /\ line_number \in Nat
  /\ shown \in Nat
  /\ turned \in BOOLEAN

\* Where a loop can be, and with which iterator.
LoopInv ==
  /\ at_step \in {"none", "test", "body", "increment"}
  /\ phase # "ready" => at_step = "none"
  /\ at_step = "none" => it = "none"
  /\ at_step = "test" => it \in {"reader", "end"}
  /\ at_step \in {"body", "increment"} => it = "reader"

\* Which row the loop has at hand: behind the body it is the one looked at, and
\* before a later turn it is the next one.
RowInv ==
  /\ shown <= line_number
  /\ at_step \in {"test", "body"} /\ it = "reader" =>
       /\ line_number # 0
       /\ turned => line_number = shown + 1
  /\ at_step = "increment" => shown = line_number

IInv == TypeInv /\ LoopInv /\ RowInv

-----------------------------------------------------------------------------
\* What a call of next() does to the count.
LEMMA NextCounts ==
  ASSUME TypeInv, NextRow \/ ReportEnd \/ \E error \in NextErrors : Throw(error)
  PROVE  /\ line_number' \in Nat
         /\ (NextRow /\ line_number' = line_number + 1) \/ line_number' = line_number
BY DEF TypeInv, NextRow, HandOut, ReportEnd, Throw

LEMMA InitInv == Init => IInv
<1> SUFFICES ASSUME Init PROVE IInv
  OBVIOUS
<1>1. TypeInv
  BY DEF Init, SourceInit, TypeInv
<1>2. LoopInv /\ RowInv
  BY DEF Init, SourceInit, LoopInv, RowInv
<1> QED
  BY <1>1, <1>2 DEF IInv

\* The iterator moves on from a row that has been looked at, or makes the first.
LEMMA IncrementKeepsInv ==
  ASSUME IInv, Increment, shown = line_number, shown' = shown,
         turned' \in BOOLEAN
  PROVE  IInv'
<1>1. CASE NextRow /\ it' = "reader" /\ at_step' = "test"
  BY <1>1 DEF NextRow, HandOut, IInv, TypeInv, LoopInv, RowInv
<1>2. CASE ReportEnd /\ it' = "end" /\ at_step' = "test"
  BY <1>2 DEF ReportEnd, IInv, TypeInv, LoopInv, RowInv
<1>3. CASE (\E error \in NextErrors : Throw(error)) /\ it' = "none" /\ at_step' = "none"
  BY <1>3 DEF Throw, IInv, TypeInv, LoopInv, RowInv
<1> QED
  BY <1>1, <1>2, <1>3 DEF Increment

LEMMA BeginKeepsInv == ASSUME IInv, Begin PROVE IInv'
<1>1. turned' = FALSE /\ shown' = shown /\ at_step = "none" /\ phase = "ready"
  BY DEF Begin
<1>2. CASE line_number = 0 /\ Increment
  <2>1. shown = line_number
    BY <1>2 DEF IInv, TypeInv, RowInv
  <2> QED
    BY <1>1, <1>2, <2>1, IncrementKeepsInv
<1>3. CASE line_number # 0 /\ it' = "reader" /\ at_step' = "test" /\ UNCHANGED source_vars
  <2>1. phase' = phase /\ line_number' = line_number
    BY <1>3 DEF source_vars
  <2>2. TypeInv'
    BY <1>1, <2>1 DEF IInv, TypeInv
  <2>3. LoopInv'
    BY <1>1, <1>3, <2>1 DEF LoopInv
  <2>4. ~turned'
    BY <1>1
  <2>5. RowInv'
    BY <1>1, <1>3, <2>1, <2>4 DEF IInv, RowInv
  <2> QED
    BY <2>2, <2>3, <2>5 DEF IInv
<1> QED
  BY <1>2, <1>3 DEF Begin, MakeIterator

LEMMA NextKeepsInv == IInv /\ [Next]_vars => IInv'
<1> SUFFICES ASSUME IInv, [Next]_vars PROVE IInv'
  OBVIOUS
<1>1. CASE Construct
  BY <1>1 DEF Construct, Open, Refuse, loop_vars, IInv, TypeInv, LoopInv, RowInv
<1>2. CASE Begin
  BY <1>2, BeginKeepsInv
<1>3. CASE Test
  BY <1>3 DEF Test, source_vars, IInv, TypeInv, LoopInv, RowInv
<1>4. CASE Body
  BY <1>4 DEF Body, source_vars, IInv, TypeInv, LoopInv, RowInv
<1>5. CASE Advance
  <2>1. shown = line_number /\ shown' = shown /\ turned' \in BOOLEAN
    BY <1>5 DEF Advance, IInv, TypeInv, RowInv
  <2> QED
    BY <1>5, <2>1, IncrementKeepsInv DEF Advance
<1>6. CASE CallNext
  <2>1. /\ line_number' \in Nat /\ line_number' >= line_number
        /\ shown' = shown /\ turned' = turned /\ at_step' = at_step /\ it' = it
        /\ at_step = "none"
    BY <1>6, NextCounts DEF CallNext, loop_vars, IInv, TypeInv
  <2> QED
    BY <2>1 DEF IInv, TypeInv, LoopInv, RowInv
<1>7. CASE Look
  BY <1>7 DEF Look, source_vars, loop_vars, IInv, TypeInv, LoopInv, RowInv
<1>8. CASE UNCHANGED vars
  BY <1>8 DEF vars, source_vars, loop_vars, IInv, TypeInv, LoopInv, RowInv
<1> QED
  BY <1>1, <1>2, <1>3, <1>4, <1>5, <1>6, <1>7, <1>8 DEF Next, LoopStep

LEMMA InductiveInvariant == Spec => []IInv
BY InitInv, NextKeepsInv, PTL DEF Spec

-----------------------------------------------------------------------------
\* No loop runs its body before a row has been read.
THEOREM BodyRuns == Spec => []BodyHasRow
<1>1. IInv => BodyHasRow
  BY DEF IInv, LoopInv, RowInv, BodyHasRow
<1> QED
  BY <1>1, InductiveInvariant, PTL

\* No row is replaced before it has been looked at.
THEOREM RowsNotSkipped == Spec => NoRowSkipped
<1>1. IInv /\ [Next]_vars => [line_number' # line_number => shown = line_number]_vars
  <2> SUFFICES ASSUME IInv, Next, line_number' # line_number
               PROVE  shown = line_number
    BY DEF vars, source_vars
  <2>1. CASE Construct
    BY <2>1 DEF Construct, Open, Refuse
  <2>2. CASE Begin
    BY <2>2 DEF Begin, MakeIterator, source_vars, IInv, TypeInv, RowInv
  <2>3. CASE Test \/ Body \/ Look
    BY <2>3 DEF Test, Body, Look, source_vars
  <2>4. CASE Advance
    BY <2>4 DEF Advance, IInv, RowInv
  <2>5. CASE CallNext
    BY <2>5 DEF CallNext
  <2> QED
    BY <2>1, <2>2, <2>3, <2>4, <2>5 DEF Next, LoopStep
<1> QED
  BY <1>1, InductiveInvariant, PTL DEF Spec, NoRowSkipped

\* Every turn of a loop but the first shows the row after the last one shown.
THEOREM TurnsShowNewRows == Spec => NewRowEachTurn
<1>1. IInv => [Body /\ turned => shown' = shown + 1]_vars
  BY DEF Body, IInv, LoopInv, RowInv
<1> QED
  BY <1>1, InductiveInvariant, PTL DEF Spec, NewRowEachTurn

-----------------------------------------------------------------------------
(***************************************************************************)
(* The columns of a header.                                                 *)
(***************************************************************************)
\* The indexes that can be built of the columns called names.
Indexes(names) == UNION {[called -> Nat] : called \in SUBSET Range(names)}

\* The index with the column at i added to it.
WithColumn(index, names, i) ==
  [name \in DOMAIN index \cup {names[i]} |->
     IF name = names[i] THEN i - 1 ELSE index[name]]

\* What index has to say of the first n columns: which names occur, and where
\* each occurs last.
IndexOf(index, names, n) ==
  /\ DOMAIN index = {names[i] : i \in 1 .. n}
  /\ \A i \in 1 .. n : \E j \in i .. n :
       /\ names[j] = names[i] /\ index[names[i]] = j - 1
       /\ \A k \in j + 1 .. n : names[k] # names[i]

\* The index is built a column at a time.
LEMMA IndexByColumns ==
  ASSUME NEW names, names \in Seq(Range(names))
  PROVE  \E index : /\ index[0] = <<>>
                    /\ \A i \in 1 .. Len(names) :
                         index[i] = WithColumn(index[i - 1], names, i)
                    /\ init_headers(names) = index[Len(names)]
<1> DEFINE n == Len(names)
           first == <<>>
           step == [i \in 1 .. n |->
                      [index \in Indexes(names) |-> WithColumn(index, names, i)]]
           built[i \in 0 .. n] ==
             IF i = 0 THEN first ELSE WithColumn(built[i - 1], names, i)
<1>1. init_headers(names) = built[n]
  BY Zenon DEF init_headers, WithColumn
<1>2. n \in Nat /\ \A i \in 1 .. n : names[i] \in Range(names)
  BY LenProperties, ElementOfSeq
<1>3. first \in Indexes(names)
  <2>1. first \in [{} -> Nat]
    OBVIOUS
  <2> HIDE DEF first
  <2> QED
    BY <2>1 DEF Indexes
<1> HIDE DEF first, n, built
<1>4. ASSUME NEW index \in Indexes(names), NEW i \in 1 .. n
      PROVE  WithColumn(index, names, i) \in Indexes(names)
  <2>1. PICK called \in SUBSET Range(names) : index \in [called -> Nat]
    BY DEF Indexes
  <2>2. called \cup {names[i]} \in SUBSET Range(names)
    BY <1>2
  <2>3. WithColumn(index, names, i) \in [called \cup {names[i]} -> Nat]
    BY <1>2, <2>1 DEF WithColumn
  <2> QED
    BY <2>2, <2>3 DEF Indexes
<1>5. step \in Steps(Indexes(names), n)
  BY <1>4 DEF Steps
<1>6. PICK f \in [0 .. n -> Indexes(names)] : Iterates(f, first, step, n)
  <2> HIDE DEF step
  <2> QED
    BY <1>2, <1>3, <1>5, Recursion
<1>7. ASSUME NEW i \in 1 .. n PROVE f[i] = WithColumn(f[i - 1], names, i)
  <2>1. f[i - 1] \in Indexes(names)
    BY <1>2
  <2> QED
    BY <1>6, <2>1 DEF Iterates
<1>8. f = [i \in 0 .. n |-> IF i = 0 THEN first ELSE WithColumn(f[i - 1], names, i)]
  BY <1>2, <1>6, <1>7 DEF Iterates
<1>9. built = [i \in 0 .. n |->
                 IF i = 0 THEN first ELSE WithColumn(built[i - 1], names, i)]
  BY <1>8, Zenon DEF built
<1>10. built[0] = first /\ \A i \in 1 .. n : built[i] = WithColumn(built[i - 1], names, i)
  BY <1>2, <1>9
<1> QED
  BY <1>1, <1>10 DEF first, n

\* A column more.
LEMMA ColumnIndexed ==
  ASSUME NEW names, NEW n \in Nat \ {0}, NEW index, IndexOf(index, names, n - 1)
  PROVE  IndexOf(WithColumn(index, names, n), names, n)
<1> DEFINE next == WithColumn(index, names, n)
<1>1. /\ DOMAIN next = DOMAIN index \cup {names[n]}
      /\ next[names[n]] = n - 1
      /\ \A name \in DOMAIN index : name # names[n] => next[name] = index[name]
  BY DEF WithColumn
<1> HIDE DEF next
<1>2. DOMAIN next = {names[i] : i \in 1 .. n}
  <2>1. 1 .. n = (1 .. n - 1) \cup {n}
    OBVIOUS
  <2>2. DOMAIN next = {names[i] : i \in 1 .. n - 1} \cup {names[n]}
    BY <1>1 DEF IndexOf
  <2>3. {names[i] : i \in (1 .. n - 1) \cup {n}}
          = {names[i] : i \in 1 .. n - 1} \cup {names[n]}
    BY Zenon
  <2> QED
    BY <2>1, <2>2, <2>3
<1>3. ASSUME NEW i \in 1 .. n
      PROVE  \E j \in i .. n : /\ names[j] = names[i] /\ next[names[i]] = j - 1
                               /\ \A k \in j + 1 .. n : names[k] # names[i]
  <2>1. CASE names[i] = names[n]
    <3>1. n \in i .. n /\ \A k \in n + 1 .. n : names[k] # names[i]
      OBVIOUS
    <3> QED
      BY <1>1, <2>1, <3>1
  <2>2. CASE names[i] # names[n]
    <3>1. i \in 1 .. n - 1
      BY <2>2
    <3>2. PICK j \in i .. n - 1 : /\ names[j] = names[i] /\ index[names[i]] = j - 1
                                  /\ \A k \in j + 1 .. n - 1 : names[k] # names[i]
      BY <3>1 DEF IndexOf
    <3>3. names[i] \in DOMAIN index
      BY <3>1 DEF IndexOf
    <3>4. j \in i .. n /\ next[names[i]] = j - 1
      BY <1>1, <2>2, <3>2, <3>3
    <3>5. ASSUME NEW k \in j + 1 .. n PROVE names[k] # names[i]
      <4>1. k = n \/ k \in j + 1 .. n - 1
        OBVIOUS
      <4> QED
        BY <2>2, <3>2, <4>1
    <3> QED
      BY <3>2, <3>4, <3>5
  <2> QED
    BY <2>1, <2>2
<1> QED
  BY <1>2, <1>3 DEF IndexOf, next

\* init_headers keeps the last column of each name, and no others.
LEMMA LastColumnWins ==
  ASSUME NEW names, names \in Seq(Range(names))
  PROVE  IndexOf(init_headers(names), names, Len(names))
<1>1. PICK index : /\ index[0] = <<>>
                   /\ \A i \in 1 .. Len(names) :
                        index[i] = WithColumn(index[i - 1], names, i)
                   /\ init_headers(names) = index[Len(names)]
  BY IndexByColumns
<1> DEFINE n == Len(names)
           good == {i \in 0 .. n : IndexOf(index[i], names, i)}
<1>2. n \in Nat
  BY LenProperties
<1>3. 0 \in good
  BY <1>1, <1>2 DEF IndexOf
<1> HIDE DEF n
<1>4. \A i \in 1 .. n : i - 1 \in good => i \in good
  <2> SUFFICES ASSUME NEW i \in 1 .. n, i - 1 \in good PROVE i \in good
    OBVIOUS
  <2>1. i \in Nat \ {0} /\ IndexOf(index[i - 1], names, i - 1)
    BY <1>2
  <2>2. IndexOf(WithColumn(index[i - 1], names, i), names, i)
    BY <2>1, ColumnIndexed
  <2> QED
    BY <1>1, <1>2, <2>2 DEF n
<1>5. 0 .. n \subseteq good
  <2> HIDE DEF good
  <2> QED
    BY <1>2, <1>3, <1>4, IndexInduction
<1> QED
  BY <1>1, <1>2, <1>5 DEF n

\* By a name a row finds the last column of that name, and nothing when it is too
\* short to have it or no column has the name; at() and get<T>() agree on which.
THEOREM ColumnsAreFound == Spec => []ColumnsFound
<1>1. (headers \in Headers) => ColumnsFound
  <2> SUFFICES ASSUME headers \in Headers, NEW name \in Names
               PROVE  LET row == MakeRecord(current_record.fields, headers)
                          columns == {i \in 1 .. Len(headers) : headers[i] = name}
                      IN  IF columns = {}
                          THEN /\ at_column(row, name) = Thrown("RecordColumnNameError")
                               /\ \A T \in Types : get_column(row, name, T) = nullopt
                          ELSE /\ at_column(row, name) = at(row, Max(columns) - 1)
                               /\ \A T \in Types :
                                    get_column(row, name, T) = get(row, Max(columns) - 1, T)
    BY DEF ColumnsFound
  <2> DEFINE row == MakeRecord(current_record.fields, headers)
             index == init_headers(headers)
             columns == {i \in 1 .. Len(headers) : headers[i] = name}
  <2>1. headers \in Seq(Range(headers)) /\ Len(headers) \in Nat
    BY HeadersAssumption, LenProperties
  <2>2. IndexOf(index, headers, Len(headers))
    BY <2>1, LastColumnWins
  <2>3. row.headers = index
    BY DEF MakeRecord
  <2> HIDE DEF row, index
  <2>4. name \in DOMAIN index <=> columns # {}
    BY <2>2 DEF IndexOf
  <2>5. ASSUME columns # {} PROVE index[name] = Max(columns) - 1
    <3>1. PICK i \in 1 .. Len(headers) : headers[i] = name
      BY <2>5
    <3>2. PICK j \in i .. Len(headers) :
            /\ headers[j] = name /\ index[name] = j - 1
            /\ \A k \in j + 1 .. Len(headers) : headers[k] # name
      BY <2>2, <3>1 DEF IndexOf
    <3>3. j \in columns /\ \A k \in columns : j >= k
      BY <2>1, <3>2
    <3>4. ASSUME NEW m \in columns, \A k \in columns : m >= k PROVE m = j
      BY <2>1, <3>3, <3>4
    <3>5. Max(columns) = j
      <4> HIDE DEF columns
      <4> QED
        BY <3>3, <3>4 DEF Max
    <3> QED
      BY <3>2, <3>5
  <2> QED
    BY <2>3, <2>4, <2>5 DEF at_column, get_column, row, columns
<1>2. Init => headers \in Headers
  BY DEF Init
<1>3. (headers \in Headers) /\ [Next]_vars => (headers \in Headers)'
  BY DEF Next, LoopStep, vars, Construct, Begin, Test, Body, Advance, CallNext, Look
<1> QED
  BY <1>1, <1>2, <1>3, PTL DEF Spec

-----------------------------------------------------------------------------
(***************************************************************************)
(* The value of a numeral.  from_chars takes the digits from the first on,  *)
(* Number by their places from the last on: what the one has made of the    *)
(* digits in front of a place, times that place, is what the other has      *)
(* still to add.                                                            *)
(***************************************************************************)
LEMMA LeastOf ==
  ASSUME NEW S, S \subseteq Nat, S # {}
  PROVE  Min(S) \in S /\ \A y \in S : Min(S) <= y
<1>1. \E x \in S : \A y \in S : x <= y
  BY LeastNumber
<1> QED
  BY <1>1 DEF Min

LEMMA GreatestOf ==
  ASSUME NEW n \in Nat, NEW S, S \subseteq 1 .. n, S # {}
  PROVE  Max(S) \in S /\ \A y \in S : y <= Max(S)
<1> DEFINE behind == {n - x : x \in S}
<1>1. behind \subseteq Nat /\ behind # {}
  <2>1. \A x \in S : n - x \in Nat
    OBVIOUS
  <2> QED
    BY <2>1
<1>2. PICK least \in behind : \A y \in behind : least <= y
  <2> HIDE DEF behind
  <2> QED
    BY <1>1, LeastNumber
<1>3. PICK m \in S : least = n - m
  OBVIOUS
<1>4. ASSUME NEW y \in S PROVE m >= y /\ y \in Nat /\ m \in Nat
  <2>1. n - m <= n - y
    BY <1>2, <1>3
  <2> QED
    BY <2>1
<1>5. \E x \in S : \A y \in S : x >= y
  BY <1>4
<1>6. Max(S) \in S /\ \A y \in S : Max(S) >= y
  BY <1>5 DEF Max
<1> QED
  BY <1>4, <1>6

\* The values of the first digits, one digit after the other.
Horner(digits, h) ==
  /\ h[0] = 0
  /\ \A i \in 1 .. Len(digits) : h[i] = 10 * h[i - 1] + DigitValue[digits[i]]

\* FoldLeft is told by what it makes of a set of indices: of the first i of them it
\* makes the value of the first i digits.
LEMMA FoldByDigits ==
  ASSUME NEW digits, Len(digits) \in Nat, DOMAIN digits = 1 .. Len(digits),
         \A i \in 1 .. Len(digits) : DigitValue[digits[i]] \in Nat
  PROVE  \E h \in [0 .. Len(digits) -> Nat] :
           /\ Horner(digits, h)
           /\ FoldLeft(LAMBDA value, c : 10 * value + DigitValue[c], 0, digits)
                = h[Len(digits)]
<1> DEFINE n == Len(digits)
           d == [i \in 1 .. n |-> DigitValue[digits[i]]]
           More(g) == [s \in SUBSET (1 .. n) |->
                         IF s = {} THEN 0 ELSE 10 * g[s \ {Max(s)}] + d[Max(s)]]
           Values == [SUBSET (1 .. n) -> Nat]
           fold[s \in SUBSET DOMAIN digits] ==
             IF s = {} THEN 0
             ELSE LET x == Max(s) IN 10 * fold[s \ {x}] + DigitValue[digits[x]]
           first == [s \in SUBSET (1 .. n) |-> 0]
           step == [i \in 1 .. n + 1 |-> [g \in Values |-> More(g)]]
<1>1. FoldLeft(LAMBDA value, c : 10 * value + DigitValue[c], 0, digits) = fold[DOMAIN digits]
  BY Zenon DEF FoldLeft, MapThenFoldSet
<1>2. /\ n \in Nat /\ DOMAIN digits = 1 .. n
      /\ \A i \in 1 .. n : d[i] = DigitValue[digits[i]] /\ d[i] \in Nat
  OBVIOUS
<1> HIDE DEF n, d, fold
<1>3. ASSUME NEW s \in SUBSET (1 .. n), s # {}
      PROVE  /\ Max(s) \in s /\ Max(s) \in 1 .. n /\ \A y \in s : y <= Max(s)
             /\ s \ {Max(s)} \in SUBSET (1 .. n)
  <2>1. Max(s) \in s /\ \A y \in s : y <= Max(s)
    BY <1>2, <1>3, GreatestOf
  <2> QED
    BY <2>1
<1>4. ASSUME NEW g \in Values PROVE More(g) \in Values
  <2>1. ASSUME NEW s \in SUBSET (1 .. n), s # {}
        PROVE  10 * g[s \ {Max(s)}] + d[Max(s)] \in Nat
    <3>1. g[s \ {Max(s)}] \in Nat /\ d[Max(s)] \in Nat
      BY <1>2, <1>3, <2>1
    <3> QED
      BY <3>1
  <2> QED
    BY <2>1
\* What a step makes of g.
<1>5. \A g \in Values :
        /\ More(g)[{}] = 0
        /\ \A s \in SUBSET (1 .. n) :
             s # {} => More(g)[s] = 10 * g[s \ {Max(s)}] + d[Max(s)]
  OBVIOUS
<1>6. ASSUME NEW g \in Values, \A s \in SUBSET (1 .. n) : More(g)[s] = g[s]
      PROVE  g = More(g)
  <2>1. g = [s \in SUBSET (1 .. n) |-> g[s]]
    OBVIOUS
  <2>2. More(g) = [s \in SUBSET (1 .. n) |-> More(g)[s]]
    OBVIOUS
  <2> HIDE DEF More
  <2> QED
    BY <1>6, <2>1, <2>2
<1>7. step \in Steps(Values, n + 1) /\ first \in Values
  BY <1>4 DEF Steps
<1>8. first[{}] = 0 /\ \A i \in 1 .. n + 1 : step[i] = [g \in Values |-> More(g)]
  <2>1. {} \in SUBSET (1 .. n)
    OBVIOUS
  <2> HIDE DEF More, Values
  <2> QED
    BY <2>1
<1> HIDE DEF More, Values, step, first
<1>9. PICK f \in [0 .. n + 1 -> Values] : Iterates(f, first, step, n + 1)
  <2>1. n + 1 \in Nat
    BY <1>2
  <2> QED
    BY <1>7, <2>1, Recursion
<1>10. f[0] = first /\ \A i \in 1 .. n + 1 : f[i] = More(f[i - 1])
  <2>1. ASSUME NEW i \in 1 .. n + 1 PROVE f[i] = More(f[i - 1])
    <3>1. i - 1 \in 0 .. n + 1
      BY <1>2
    <3>2. f[i - 1] \in Values
      BY <3>1
    <3>3. f[i] = step[i][f[i - 1]]
      BY <1>9 DEF Iterates
    <3> QED
      BY <1>8, <3>2, <3>3
  <2> QED
    BY <1>9, <2>1 DEF Iterates
\* What has been made of the first i indices stays.
<1> DEFINE T == {i \in 0 .. n : \A s \in SUBSET (1 .. i) : f[i + 1][s] = f[i][s]}
<1>11. 0 \in T
  <2>1. ASSUME NEW s \in SUBSET (1 .. 0) PROVE f[1][s] = f[0][s]
    <3>1. s = {} /\ 1 \in 1 .. n + 1 /\ 1 - 1 = 0 /\ 0 \in 0 .. n + 1
      BY <1>2
    <3>2. f[1] = More(f[0]) /\ f[0] \in Values /\ f[0] = first
      BY <1>10, <3>1
    <3> QED
      BY <1>5, <1>8, <3>1, <3>2
  <2>2. 0 \in 0 .. n /\ 0 + 1 = 1
    BY <1>2
  <2> QED
    BY <2>1, <2>2
<1>12. ASSUME NEW i \in 1 .. n, i - 1 \in T, NEW s \in SUBSET (1 .. i)
      PROVE  f[i + 1][s] = f[i][s]
  <2>1. /\ s \in SUBSET (1 .. n) /\ i \in 1 .. n + 1 /\ i + 1 \in 1 .. n + 1
        /\ (i + 1) - 1 = i /\ (i - 1) + 1 = i /\ i \in 0 .. n + 1 /\ i - 1 \in 0 .. n + 1
    BY <1>2
  <2>2. /\ f[i + 1] = More(f[i]) /\ f[i] = More(f[i - 1])
        /\ f[i] \in Values /\ f[i - 1] \in Values
    BY <1>10, <2>1
  <2>3. CASE s = {}
    BY <1>5, <2>2, <2>3
  <2>4. CASE s # {}
    <3> DEFINE less == s \ {Max(s)}
    <3>1. less \in SUBSET (1 .. i - 1)
      <4>1. PICK m \in s : m = Max(s) /\ \A y \in s : y <= m
        BY <1>3, <2>1, <2>4
      <4>2. ASSUME NEW y \in s, y # m PROVE y \in 1 .. i - 1
        <5>1. y \in 1 .. i /\ m \in 1 .. i /\ y <= m
          BY <4>1
        <5> QED
          BY <4>2, <5>1
      <4> QED
        BY <4>1, <4>2
    <3>2. f[i][less] = f[i - 1][less]
      <4> HIDE DEF less
      <4>1. f[(i - 1) + 1][less] = f[i - 1][less]
        BY <1>12, <3>1
      <4> QED
        BY <2>1, <4>1
    <3>3. /\ f[i + 1][s] = 10 * f[i][less] + d[Max(s)]
          /\ f[i][s] = 10 * f[i - 1][less] + d[Max(s)]
      BY <1>5, <2>1, <2>2, <2>4
    <3> QED
      BY <3>2, <3>3
  <2> QED
    BY <2>3, <2>4
<1>13. f[n] = More(f[n]) /\ f[n] \in Values
  <2>1. n \in T
    <3>1. \A i \in 1 .. n : i - 1 \in T => i \in T
      <4>1. ASSUME NEW i \in 1 .. n, i - 1 \in T PROVE i \in T
        <5>1. \A s \in SUBSET (1 .. i) : f[i + 1][s] = f[i][s]
          BY <1>12, <4>1
        <5>2. i \in 0 .. n
          BY <1>2
        <5> QED
          BY <5>1, <5>2
      <4> HIDE DEF T
      <4> QED
        BY <4>1
    <3> HIDE DEF T
    <3>2. 0 .. n \subseteq T
      BY <1>2, <1>11, <3>1, IndexInduction
    <3> QED
      BY <1>2, <3>2
  <2>2. \A s \in SUBSET (1 .. n) : f[n + 1][s] = f[n][s]
    BY <2>1
  <2>3. f[n + 1] = More(f[n]) /\ f[n] \in Values
    <3>1. n + 1 \in 1 .. n + 1 /\ (n + 1) - 1 = n /\ n \in 0 .. n + 1
      BY <1>2
    <3> QED
      BY <1>10, <3>1
  <2> HIDE DEF T
  <2> QED
    BY <1>6, <2>2, <2>3
<1>14. f[n] = [s \in SUBSET DOMAIN digits |->
                 IF s = {} THEN 0
                 ELSE LET x == Max(s) IN 10 * f[n][s \ {x}] + DigitValue[digits[x]]]
  <2>1. ASSUME NEW s \in SUBSET (1 .. n), s # {} PROVE d[Max(s)] = DigitValue[digits[Max(s)]]
    BY <1>2, <1>3, <2>1
  <2>2. f[n] = [s \in SUBSET (1 .. n) |->
                  IF s = {} THEN 0 ELSE 10 * f[n][s \ {Max(s)}] + d[Max(s)]]
    BY <1>13 DEF More
  <2> QED
    BY <1>2, <2>1, <2>2
<1>15. fold = [s \in SUBSET DOMAIN digits |->
                 IF s = {} THEN 0
                 ELSE LET x == Max(s) IN 10 * fold[s \ {x}] + DigitValue[digits[x]]]
  BY <1>14, Zenon DEF fold
<1> DEFINE h == [i \in 0 .. n |-> fold[1 .. i]]
<1>16. \A i \in 0 .. n : h[i] = fold[1 .. i]
  OBVIOUS
<1>17. h = [i \in 0 .. n |-> h[i]]
  OBVIOUS
<1> HIDE DEF h
<1>18. h[0] = 0 /\ \A i \in 1 .. n : h[i] = 10 * h[i - 1] + DigitValue[digits[i]]
  <2>1. fold[{}] = 0 /\ 1 .. 0 = {}
    BY <1>15
  <2>2. ASSUME NEW i \in 1 .. n PROVE h[i] = 10 * h[i - 1] + DigitValue[digits[i]]
    <3>1. 1 .. i \in SUBSET (1 .. n) /\ 1 .. i # {} /\ i \in 1 .. i
      BY <1>2
    <3>2. Max(1 .. i) = i
      <4>1. Max(1 .. i) \in 1 .. i /\ i <= Max(1 .. i)
        BY <1>3, <3>1
      <4> QED
        BY <4>1
    <3>3. (1 .. i) \ {i} = 1 .. i - 1 /\ i \in 0 .. n /\ i - 1 \in 0 .. n
      BY <1>2
    <3>4. fold[1 .. i] = 10 * fold[(1 .. i) \ {i}] + DigitValue[digits[i]]
      <4>1. 1 .. i \in SUBSET DOMAIN digits
        BY <1>2, <3>1
      <4>2. \A s \in SUBSET DOMAIN digits :
              s # {} => fold[s] = 10 * fold[s \ {Max(s)}] + DigitValue[digits[Max(s)]]
        BY Zenon, <1>15
      <4> QED
        BY <3>1, <3>2, <4>1, <4>2
    <3> QED
      BY <1>16, <3>3, <3>4
  <2>3. h[0] = fold[1 .. 0]
    BY <1>2, <1>16
  <2> QED
    BY <2>1, <2>2, <2>3
<1>19. h \in [0 .. n -> Nat]
  <2> DEFINE good == {i \in 0 .. n : h[i] \in Nat}
  <2>1. 0 \in good
    BY <1>2, <1>18
  <2>2. ASSUME NEW i \in 1 .. n, i - 1 \in good PROVE i \in good
    <3>1. h[i - 1] \in Nat /\ h[i] = 10 * h[i - 1] + DigitValue[digits[i]]
      BY <1>18, <2>2
    <3>2. DigitValue[digits[i]] \in Nat /\ i \in 0 .. n
      BY <1>2
    <3> QED
      BY <3>1, <3>2
  <2> HIDE DEF good
  <2>3. \A i \in 1 .. n : i - 1 \in good => i \in good
    BY <2>2
  <2>4. 0 .. n \subseteq good
    BY <1>2, <2>1, <2>3, IndexInduction
  <2>5. \A i \in 0 .. n : h[i] \in Nat
    BY <2>4 DEF good
  <2> QED
    BY <1>17, <2>5
<1>20. FoldLeft(LAMBDA value, c : 10 * value + DigitValue[c], 0, digits) = h[n]
  <2>1. fold[DOMAIN digits] = h[n]
    BY <1>2, <1>16
  <2> QED
    BY <1>1, <2>1, Zenon
<1> QED
  BY <1>18, <1>19, <1>20 DEF Horner, n

\* The places from the last digit on, and what the digits at them add up to.
Places(digits, place, sum) ==
  /\ place[0] = 1 /\ sum[0] = 0
  /\ \A i \in 1 .. Len(digits) :
       /\ place[i] = 10 * place[i - 1]
       /\ sum[i] = sum[i - 1] + DigitValue[digits[Len(digits) - (i - 1)]] * place[i - 1]

LEMMA NumberByPlaces ==
  ASSUME NEW digits, Len(digits) \in Nat,
         \A i \in 1 .. Len(digits) : DigitValue[digits[i]] \in Nat
  PROVE  \E place \in [0 .. Len(digits) -> Nat], sum \in [0 .. Len(digits) -> Nat] :
           Places(digits, place, sum) /\ Number(digits) = sum[Len(digits)]
<1> DEFINE n == Len(digits)
           place[i \in 0 .. Len(digits)] == IF i = 0 THEN 1 ELSE 10 * place[i - 1]
           sum[i \in 0 .. Len(digits)] ==
             IF i = 0 THEN 0
             ELSE sum[i - 1] + DigitValue[digits[Len(digits) - (i - 1)]] * place[i - 1]
           nextPlace == [i \in 1 .. n |-> [p \in Nat |-> 10 * p]]
           nextSum == [i \in 1 .. n |->
                         [s \in Nat |-> s + DigitValue[digits[n - (i - 1)]] * place[i - 1]]]
<1>1. Number(digits) = sum[n]
  BY Zenon DEF Number
<1> HIDE DEF place, sum
<1>2. PICK f \in [0 .. n -> Nat] : Iterates(f, 1, nextPlace, n)
  <2>1. nextPlace \in Steps(Nat, n)
    BY DEF Steps
  <2> HIDE DEF nextPlace
  <2> QED
    BY <2>1, Recursion
<1>3. f = [i \in 0 .. n |-> IF i = 0 THEN 1 ELSE 10 * f[i - 1]]
  <2>1. f[0] = 1
    BY <1>2 DEF Iterates
  <2>2. ASSUME NEW i \in 1 .. n PROVE f[i] = 10 * f[i - 1]
    <3>1. f[i - 1] \in Nat /\ nextPlace[i] = [p \in Nat |-> 10 * p]
      OBVIOUS
    <3>2. f[i] = nextPlace[i][f[i - 1]]
      BY <1>2 DEF Iterates
    <3> QED
      BY <3>1, <3>2
  <2> QED
    BY <2>1, <2>2
<1>4. place = [i \in 0 .. n |-> IF i = 0 THEN 1 ELSE 10 * place[i - 1]]
  BY <1>3, Zenon DEF place
<1>5. place[0] = 1 /\ \A i \in 1 .. n : place[i] = 10 * place[i - 1]
  <2>1. place[0] = 1
    BY <1>4
  <2>2. ASSUME NEW i \in 1 .. n PROVE place[i] = 10 * place[i - 1]
    <3>1. i \in 0 .. n /\ i # 0
      OBVIOUS
    <3> QED
      BY <1>4, <3>1, Zenon
  <2> QED
    BY <2>1, <2>2
<1>6. place \in [0 .. n -> Nat]
  <2> DEFINE good == {i \in 0 .. n : place[i] \in Nat}
  <2>1. 0 \in good /\ \A i \in 1 .. n : i - 1 \in good => i \in good
    BY <1>5
  <2> HIDE DEF good
  <2>2. 0 .. n \subseteq good
    BY <2>1, IndexInduction
  <2> QED
    BY <1>4, <2>2 DEF good
<1>7. PICK g \in [0 .. n -> Nat] : Iterates(g, 0, nextSum, n)
  <2>1. ASSUME NEW i \in 1 .. n, NEW s \in Nat
        PROVE  s + DigitValue[digits[n - (i - 1)]] * place[i - 1] \in Nat
    <3>1. n - (i - 1) \in 1 .. n /\ i - 1 \in 0 .. n
      OBVIOUS
    <3>2. DigitValue[digits[n - (i - 1)]] \in Nat /\ place[i - 1] \in Nat
      BY <1>6, <3>1
    <3>3. \A a, b \in Nat : a * b \in Nat
      OBVIOUS
    <3>4. DigitValue[digits[n - (i - 1)]] * place[i - 1] \in Nat
      BY <3>2, <3>3
    <3> QED
      BY <3>4
  <2>2. nextSum \in Steps(Nat, n)
    BY <2>1 DEF Steps
  <2> HIDE DEF nextSum
  <2> QED
    BY <2>2, Recursion
<1>8. g = [i \in 0 .. n |->
             IF i = 0 THEN 0
             ELSE g[i - 1] + DigitValue[digits[n - (i - 1)]] * place[i - 1]]
  <2>1. g[0] = 0
    BY <1>7 DEF Iterates
  <2>2. ASSUME NEW i \in 1 .. n
        PROVE  g[i] = g[i - 1] + DigitValue[digits[n - (i - 1)]] * place[i - 1]
    <3>1. g[i - 1] \in Nat
      <4>1. i - 1 \in 0 .. n
        OBVIOUS
      <4> HIDE DEF n, nextPlace, nextSum
      <4> QED
        BY <4>1
    <3>2. nextSum[i] = [s \in Nat |-> s + DigitValue[digits[n - (i - 1)]] * place[i - 1]]
      BY Zenon
    <3>3. g[i] = nextSum[i][g[i - 1]]
      BY <1>7 DEF Iterates
    <3> HIDE DEF nextSum
    <3> QED
      BY <3>1, <3>2, <3>3
  <2> QED
    BY <2>1, <2>2
<1>9. sum = [i \in 0 .. n |->
               IF i = 0 THEN 0
               ELSE sum[i - 1] + DigitValue[digits[n - (i - 1)]] * place[i - 1]]
  BY <1>8, Zenon DEF sum
<1>10. /\ sum[0] = 0
       /\ \A i \in 1 .. n :
            sum[i] = sum[i - 1] + DigitValue[digits[n - (i - 1)]] * place[i - 1]
  BY <1>9
<1>11. sum \in [0 .. n -> Nat]
  <2> DEFINE good == {i \in 0 .. n : sum[i] \in Nat}
  <2>1. 0 \in good
    BY <1>10
  <2>2. ASSUME NEW i \in 1 .. n, sum[i - 1] \in Nat PROVE sum[i] \in Nat
    <3>1. n - (i - 1) \in 1 .. n /\ i - 1 \in 0 .. n
      OBVIOUS
    <3>2. DigitValue[digits[n - (i - 1)]] \in Nat /\ place[i - 1] \in Nat
      BY <1>6, <3>1
    <3>3. \A a, b \in Nat : a * b \in Nat
      OBVIOUS
    <3>4. DigitValue[digits[n - (i - 1)]] * place[i - 1] \in Nat
      BY <3>2, <3>3
    <3> QED
      BY <1>10, <2>2, <3>4
  <2>3. \A i \in 1 .. n : i - 1 \in good => i \in good
    BY <2>2
  <2> HIDE DEF good
  <2>4. 0 .. n \subseteq good
    BY <2>1, <2>3, IndexInduction
  <2> QED
    BY <1>9, <2>4 DEF good
<1> QED
  BY <1>1, <1>5, <1>6, <1>10, <1>11 DEF Places

\* One more digit by its place.
LEMMA DigitMoves ==
  ASSUME NEW s \in Nat, NEW h \in Nat, NEW d \in Nat, NEW p \in Nat
  PROVE  s + (10 * h + d) * p = (s + d * p) + h * (10 * p)
OBVIOUS

LEMMA ValueOfNumeral ==
  ASSUME NEW digits, Len(digits) \in Nat, DOMAIN digits = 1 .. Len(digits),
         \A i \in 1 .. Len(digits) : DigitValue[digits[i]] \in Nat
  PROVE  FoldLeft(LAMBDA value, c : 10 * value + DigitValue[c], 0, digits) = Number(digits)
<1> DEFINE n == Len(digits)
           value == FoldLeft(LAMBDA value, c : 10 * value + DigitValue[c], 0, digits)
<1>1. PICK h \in [0 .. n -> Nat] : Horner(digits, h) /\ value = h[n]
  BY FoldByDigits
<1>2. PICK place \in [0 .. n -> Nat], sum \in [0 .. n -> Nat] :
        Places(digits, place, sum) /\ Number(digits) = sum[n]
  BY NumberByPlaces
<1> HIDE DEF value
<1> DEFINE good == {k \in 0 .. n : sum[k] + h[n - k] * place[k] = h[n]}
<1>3. 0 \in good
  <2>1. sum[0] = 0 /\ place[0] = 1 /\ n - 0 = n /\ h[n] \in Nat
    BY <1>2 DEF Places
  <2>2. 0 + h[n] * 1 = h[n]
    BY <2>1
  <2> QED
    BY <2>1, <2>2
<1>4. ASSUME NEW k \in 1 .. n, k - 1 \in good PROVE k \in good
  <2> DEFINE m == n - (k - 1)
             d == DigitValue[digits[m]]
  <2>1. m \in 1 .. n /\ m - 1 = n - k /\ n - k \in 0 .. n /\ k - 1 \in 0 .. n
    OBVIOUS
  <2>2. /\ place[k] = 10 * place[k - 1] /\ sum[k] = sum[k - 1] + d * place[k - 1]
        /\ h[m] = 10 * h[n - k] + d
    BY <1>1, <1>2, <2>1 DEF Places, Horner
  <2>3. sum[k - 1] + h[m] * place[k - 1] = h[n]
    BY <1>4
  <2>4. d \in Nat /\ sum[k - 1] \in Nat /\ h[n - k] \in Nat /\ place[k - 1] \in Nat
    BY <2>1
  <2> HIDE DEF m, d
  <2>5. sum[k - 1] + (10 * h[n - k] + d) * place[k - 1]
          = (sum[k - 1] + d * place[k - 1]) + h[n - k] * (10 * place[k - 1])
    BY <2>4, DigitMoves
  <2>6. sum[k] + h[n - k] * place[k] = h[n]
    BY ONLY <2>2, <2>3, <2>5
  <2> QED
    BY <2>6
<1>5. n \in good
  <2>1. \A k \in 1 .. n : k - 1 \in good => k \in good
    BY <1>4
  <2> HIDE DEF good
  <2>2. 0 .. n \subseteq good
    BY <1>3, <2>1, IndexInduction
  <2> QED
    BY <2>2
<1>6. sum[n] + h[0] * place[n] = h[n] /\ h[0] = 0 /\ place[n] \in Nat /\ sum[n] \in Nat
  <2>1. n - n = 0 /\ n \in 0 .. n
    OBVIOUS
  <2> QED
    BY <1>1, <1>5, <2>1 DEF Horner
<1>7. 0 * place[n] = 0
  BY <1>6
<1>8. sum[n] = h[n]
  BY <1>6, <1>7
<1> QED
  BY <1>1, <1>2, <1>8 DEF value

-----------------------------------------------------------------------------
(***************************************************************************)
(* What convert_arithmetic takes for a numeral: a sign or none, digits       *)
(* str[b + 1 .. e] behind it, and blanks around them.                        *)
(***************************************************************************)
NumeralAt(str, T, sign, b, e) ==
  /\ b \in sign .. Len(str) /\ e \in b + 1 .. Len(str)
  /\ \A i \in 1 .. b - sign : str[i] \in Blanks
  /\ sign = 1 => str[b] = Minus /\ Min(T) < 0
  /\ \A i \in b + 1 .. e : str[i] \in DOMAIN DigitValue
  /\ \A i \in e + 1 .. Len(str) : str[i] \in Blanks

NumeralValue(str, sign, b, e) ==
  LET number == Number(SubSeq(str, b + 1, e)) IN IF sign = 1 THEN -number ELSE number

\* Where convert_arithmetic comes to in str: behind the blanks and the sign it is
\* at b, behind the digits at e.
ScannedTo(str, T, sign, b, e) ==
  /\ b \in sign .. Len(str) /\ e \in b .. Len(str)
  /\ \A i \in 1 .. b - sign : str[i] \in Blanks
  /\ b - sign < Len(str) => str[(b - sign) + 1] \notin Blanks
  /\ sign = 1 => str[b] = Minus /\ Min(T) < 0
  /\ sign = 0 => b = Len(str) \/ str[b + 1] # Minus \/ ~(Min(T) < 0)
  /\ \A i \in b + 1 .. e : str[i] \in DOMAIN DigitValue
  /\ e < Len(str) => str[e + 1] \notin DOMAIN DigitValue

LEMMA LeadingBytes ==
  ASSUME NEW S, NEW str \in Seq(S), NEW class
  PROVE  /\ Leading(class, str) \in 0 .. Len(str) /\ Len(str) \in Nat
         /\ \A i \in 1 .. Leading(class, str) : str[i] \in class
         /\ Leading(class, str) < Len(str) => str[Leading(class, str) + 1] \notin class
<1> DEFINE n == Len(str)
           others == {i \in 1 .. n : str[i] \notin class}
<1>1. n \in Nat
  BY LenProperties
<1>2. Leading(class, str) = IF others = {} THEN n ELSE Min(others) - 1
  BY Zenon DEF Leading
<1>3. CASE others = {}
  BY <1>1, <1>2, <1>3
<1>4. CASE others # {}
  <2>1. others \subseteq Nat
    BY <1>1
  <2>2. PICK m \in others : m = Min(others) /\ \A y \in others : m <= y
    <3> HIDE DEF others
    <3> QED
      BY <1>4, <2>1, LeastOf
  <2>3. m \in 1 .. n /\ str[m] \notin class /\ Leading(class, str) = m - 1
    BY <1>2, <1>4, <2>2
  <2>4. ASSUME NEW i \in 1 .. m - 1 PROVE str[i] \in class
    <3>1. i \in 1 .. n /\ ~(m <= i)
      BY <1>1, <2>3
    <3> QED
      BY <2>2, <3>1
  <2>5. m - 1 \in 0 .. n /\ (m - 1) + 1 = m
    BY <1>1, <2>3
  <2> QED
    BY <1>1, <2>3, <2>4, <2>5
<1> QED
  BY <1>3, <1>4

\* The same of what is left of str behind its first n bytes.
LEMMA LeadingFrom ==
  ASSUME NEW S, NEW str \in Seq(S), NEW class, NEW n \in 0 .. Len(str)
  PROVE  LET m == n + Leading(class, From(str, n))
         IN  /\ m \in n .. Len(str) /\ Leading(class, From(str, n)) \in Nat
             /\ Len(From(str, n)) = Len(str) - n /\ From(str, n) \in Seq(S)
             /\ \A i \in n + 1 .. m : str[i] \in class
             /\ m < Len(str) => str[m + 1] \notin class
<1> DEFINE rest == SubSeq(str, n + 1, Len(str))
           k == Leading(class, From(str, n))
<1>1. Len(str) \in Nat /\ n \in Nat /\ n <= Len(str)
  BY LenProperties
<1>2. rest \in Seq(S) /\ Len(rest) = Len(str) - n
  BY <1>1, StretchIsSeq, StretchLen
<1>3. \A i \in 1 .. Len(str) - n : rest[i] = str[n + i]
  BY <1>1, StretchAt
<1>4. From(str, n) = rest
  BY DEF From
<1> HIDE DEF rest
<1>5. /\ k \in 0 .. Len(rest) /\ \A i \in 1 .. k : rest[i] \in class
      /\ k < Len(rest) => rest[k + 1] \notin class
  BY <1>2, <1>4, LeadingBytes
<1> HIDE DEF k
<1>6. ASSUME NEW i \in n + 1 .. n + k PROVE str[i] \in class
  <2>1. i - n \in 1 .. k /\ i - n \in 1 .. Len(str) - n /\ n + (i - n) = i
    BY <1>1, <1>2, <1>5
  <2> QED
    BY <1>3, <1>5, <2>1
<1>7. ASSUME n + k < Len(str) PROVE str[(n + k) + 1] \notin class
  <2>1. k < Len(rest) /\ k + 1 \in 1 .. Len(str) - n /\ n + (k + 1) = (n + k) + 1
    BY <1>1, <1>2, <1>5, <1>7
  <2> QED
    BY <1>3, <1>5, <2>1
<1>8. n + k \in n .. Len(str) /\ k \in Nat
  BY <1>1, <1>2, <1>5
<1> QED
  BY <1>2, <1>4, <1>6, <1>7, <1>8 DEF k

\* What is left behind a first stretch and then a second one.
LEMMA FromFrom ==
  ASSUME NEW S, NEW str \in Seq(S), NEW m \in 0 .. Len(str), NEW n \in 0 .. Len(str) - m
  PROVE  /\ m + n \in 0 .. Len(str)
         /\ From(From(str, m), n) = From(str, m + n)
<1>1. Len(str) \in Nat /\ m \in Nat /\ n \in Nat /\ m <= Len(str) /\ n <= Len(str) - m
  BY LenProperties
<1>2. Len(SubSeq(str, m + 1, Len(str))) = Len(str) - m
  BY <1>1, StretchLen
<1>3. Len(str) - m \in Nat /\ m + (Len(str) - m) = Len(str) /\ m + n + 1 = (m + n) + 1
  BY <1>1
<1>4. SubSeq(SubSeq(str, m + 1, Len(str)), n + 1, Len(str) - m)
        = SubSeq(str, m + n + 1, m + (Len(str) - m))
  BY <1>1, <1>3, StretchOfStretch
<1>5. From(From(str, m), n)
        = SubSeq(SubSeq(str, m + 1, Len(str)), n + 1, Len(SubSeq(str, m + 1, Len(str))))
  BY Zenon DEF From
<1>6. From(str, m + n) = SubSeq(str, (m + n) + 1, Len(str))
  BY Zenon DEF From
<1>7. From(From(str, m), n) = From(str, m + n)
  BY ONLY Zenon, <1>2, <1>3, <1>4, <1>5, <1>6
<1>8. m + n \in 0 .. Len(str)
  BY <1>1
<1> QED
  BY <1>7, <1>8

\* A conversion scans the text once, and has a value just where it has come to is
\* where a numeral ends.
LEMMA ConversionScans ==
  ASSUME NEW S, NEW str \in Seq(S), NEW T
  PROVE  \E sign \in {0, 1} : \E b \in 0 .. Len(str), e \in 0 .. Len(str) :
           /\ ScannedTo(str, T, sign, b, e)
           /\ convert_arithmetic(str, T) =
                IF NumeralAt(str, T, sign, b, e) /\ NumeralValue(str, sign, b, e) \in T
                THEN Value(NumeralValue(str, sign, b, e)) ELSE nullopt
<1> DEFINE n      == Len(str)
           lead   == Leading(Blanks, str)
           text   == From(str, lead)
           sign   == IF Leading({Minus}, text) > 0 /\ Min(T) < 0 THEN 1 ELSE 0
           k      == Leading(DOMAIN DigitValue, From(text, sign))
           digits == SubSeq(text, sign + 1, sign + k)
           number == FoldLeft(LAMBDA v, c : 10 * v + DigitValue[c], 0, digits)
           value  == IF sign = 1 THEN -number ELSE number
           taken  == from_chars(text, T)
           rest   == From(str, lead + taken.ptr)
           b      == lead + sign
           e      == b + k
<1>1. taken = [ec    |-> IF digits = <<>> THEN "invalid_argument"
                         ELSE IF value \notin T THEN "result_out_of_range" ELSE "none",
               ptr   |-> sign + Len(digits),
               value |-> value]
  BY Zenon DEF from_chars
<1>2. convert_arithmetic(str, T) =
        IF str = <<>> \/ taken.ec # "none" \/ Leading(Blanks, rest) # Len(rest)
        THEN nullopt ELSE Value(taken.value)
  BY Zenon DEF convert_arithmetic
<1> HIDE DEF taken
<1>3. /\ n \in Nat /\ lead \in 0 .. n
      /\ \A i \in 1 .. lead : str[i] \in Blanks
      /\ lead < n => str[lead + 1] \notin Blanks
  BY LeadingBytes
<1> HIDE DEF lead
<1>4. /\ lead + Leading({Minus}, text) \in lead .. n /\ Leading({Minus}, text) \in Nat
      /\ \A i \in lead + 1 .. lead + Leading({Minus}, text) : str[i] = Minus
      /\ lead + Leading({Minus}, text) < n =>
           str[(lead + Leading({Minus}, text)) + 1] # Minus
  BY <1>3, LeadingFrom
<1>5. /\ sign \in {0, 1} /\ sign \in 0 .. n - lead
      /\ sign = 1 => str[lead + 1] = Minus /\ Min(T) < 0
      /\ sign = 0 => lead = n \/ str[lead + 1] # Minus \/ ~(Min(T) < 0)
  <2> DEFINE dashes == Leading({Minus}, text)
             signed == Min(T) < 0
  <2>1. sign = IF dashes > 0 /\ signed THEN 1 ELSE 0
    OBVIOUS
  <2> HIDE DEF dashes, signed, sign
  <2>2. CASE dashes > 0 /\ signed
    <3>1. lead + 1 \in lead + 1 .. lead + dashes /\ 1 \in 0 .. n - lead
      BY <1>3, <1>4, <2>2 DEF dashes
    <3>2. str[lead + 1] = Minus /\ sign = 1
      BY <1>4, <2>1, <2>2, <3>1 DEF dashes
    <3> QED
      BY <2>2, <3>1, <3>2 DEF signed
  <2>3. CASE ~(dashes > 0 /\ signed)
    <3>1. sign = 0 /\ 0 \in 0 .. n - lead
      BY <1>3, <2>1, <2>3
    <3>2. signed => dashes = 0
      BY <1>4, <2>3 DEF dashes
    <3>3. ASSUME signed, lead # n PROVE str[lead + 1] # Minus
      <4>1. dashes = 0 /\ lead + dashes < n /\ (lead + dashes) + 1 = lead + 1
        BY <1>3, <3>2, <3>3
      <4> QED
        BY <1>4, <4>1 DEF dashes
    <3> QED
      BY <3>1, <3>3 DEF signed
  <2> QED
    BY <2>2, <2>3
<1> HIDE DEF sign
<1>6. b \in 0 .. n /\ From(text, sign) = From(str, b)
  BY <1>3, <1>5, FromFrom
<1>7. b \in sign .. n /\ b - sign = lead /\ (sign = 1 => lead + 1 = b) /\ (sign = 0 => lead = b)
  BY <1>3, <1>5
<1>8. /\ k \in Nat /\ e \in b .. n /\ e \in 0 .. n
      /\ \A i \in b + 1 .. e : str[i] \in DOMAIN DigitValue
      /\ e < n => str[e + 1] \notin DOMAIN DigitValue
  <2> HIDE DEF b
  <2> DEFINE m == b + Leading(DOMAIN DigitValue, From(str, b))
  <2>1. /\ m \in b .. n /\ Leading(DOMAIN DigitValue, From(str, b)) \in Nat
        /\ \A i \in b + 1 .. m : str[i] \in DOMAIN DigitValue
        /\ m < n => str[m + 1] \notin DOMAIN DigitValue
    BY <1>6, LeadingFrom
  <2>2. e = m /\ k = Leading(DOMAIN DigitValue, From(str, b))
    BY <1>6
  <2> HIDE DEF m, e, k
  <2> QED
    BY <1>3, <1>6, <2>1, <2>2
<1> HIDE DEF k
<1>9. digits = SubSeq(str, b + 1, e)
  <2>1. /\ lead \in Nat /\ n \in Nat /\ lead <= n /\ n <= Len(str) /\ sign \in Nat
        /\ sign + k \in Nat /\ sign <= sign + k /\ sign + k <= n - lead
    BY <1>3, <1>5, <1>7, <1>8
  <2>2. SubSeq(SubSeq(str, lead + 1, n), sign + 1, sign + k)
          = SubSeq(str, lead + sign + 1, lead + (sign + k))
    <3> HIDE DEF n
    <3> QED
      BY <2>1, StretchOfStretch
  <2>3. lead + sign + 1 = b + 1 /\ lead + (sign + k) = e
    BY <1>8, <2>1
  <2>4. digits = SubSeq(SubSeq(str, lead + 1, n), sign + 1, sign + k)
    BY Zenon DEF From
  <2> HIDE DEF digits, b, e, n
  <2> QED
    BY <2>2, <2>3, <2>4
<1> HIDE DEF digits
<1>10. /\ Len(digits) = k /\ DOMAIN digits = 1 .. k /\ (digits = <<>> <=> k = 0)
       /\ \A i \in 1 .. k : DigitValue[digits[i]] \in Nat
  <2>1. b \in Nat /\ e \in Nat /\ b <= e /\ e <= Len(str) /\ e - b = k
    BY <1>3, <1>6, <1>8
  <2>2. ASSUME NEW i \in 1 .. k PROVE DigitValue[digits[i]] \in Nat
    <3>1. i \in 1 .. e - b /\ b + i \in b + 1 .. e
      BY <1>8, <2>1
    <3> HIDE DEF b, e
    <3>2. digits[i] = str[b + i]
      BY <1>9, <2>1, <3>1, StretchAt
    <3>3. DigitValue[digits[i]] \in 0 .. 9
      BY <1>8, <3>1, <3>2, DigitAssumption
    <3> QED
      BY <3>3
  <2> HIDE DEF b, e
  <2>3. digits \in Seq(S) /\ Len(digits) = k
    BY <1>9, <2>1, StretchIsSeq, StretchLen
  <2> QED
    BY <2>2, <2>3, LenProperties, EmptySeq
<1>11. value = NumeralValue(str, sign, b, e)
  <2>1. number = Number(digits)
    BY <1>8, <1>10, ValueOfNumeral
  <2> HIDE DEF number, b, e
  <2> QED
    BY <1>9, <2>1 DEF NumeralValue
<1> HIDE DEF number, value
<1>12. taken.ptr = sign + k /\ taken.value = value
       /\ (taken.ec = "none" <=> k # 0 /\ value \in T)
  BY <1>1, <1>10
<1>13. rest = From(str, e)
  <2>1. lead + (sign + k) = e
    BY <1>3, <1>5, <1>8
  <2> HIDE DEF e
  <2> QED
    BY <1>12, <2>1
<1>14. Leading(Blanks, rest) = Len(rest) <=> \A i \in e + 1 .. n : str[i] \in Blanks
  <2> HIDE DEF e, rest
  <2> DEFINE m == e + Leading(Blanks, From(str, e))
  <2>1. /\ m \in e .. n /\ Leading(Blanks, From(str, e)) \in Nat
        /\ Len(From(str, e)) = n - e
        /\ \A i \in e + 1 .. m : str[i] \in Blanks
        /\ m < n => str[m + 1] \notin Blanks
    BY <1>8, LeadingFrom
  <2>2. Leading(Blanks, rest) = Len(rest) <=> m = n
    BY <1>3, <1>8, <1>13, <2>1
  <2> HIDE DEF m
  <2>3. m # n => m + 1 \in e + 1 .. n /\ m < n
    BY <1>3, <1>8, <2>1
  <2> QED
    BY <2>1, <2>2, <2>3
<1>15. ScannedTo(str, T, sign, b, e)
  <2> HIDE DEF b, e
  <2> QED
    BY <1>3, <1>5, <1>7, <1>8 DEF ScannedTo
<1>16. NumeralAt(str, T, sign, b, e) <=> k # 0 /\ \A i \in e + 1 .. n : str[i] \in Blanks
  <2>1. e \in b + 1 .. n <=> k # 0
    BY <1>3, <1>6, <1>8
  <2> HIDE DEF b, e
  <2> QED
    BY <1>3, <1>5, <1>7, <1>8, <2>1 DEF NumeralAt
<1>17. str = <<>> => k = 0
  <2>1. str = <<>> => n = 0
    BY EmptySeq
  <2> QED
    BY <1>6, <1>8, <2>1
<1>18. convert_arithmetic(str, T) =
         IF NumeralAt(str, T, sign, b, e) /\ NumeralValue(str, sign, b, e) \in T
         THEN Value(NumeralValue(str, sign, b, e)) ELSE nullopt
  <2> HIDE DEF b, e, rest, n
  <2> QED
    BY <1>2, <1>11, <1>12, <1>14, <1>16, <1>17
<1> HIDE DEF b, e
<1> QED
  BY <1>5, <1>6, <1>8, <1>15, <1>18

\* The numeral of a text is where the conversion comes to.
LEMMA NumeralIsScanned ==
  ASSUME NEW S, NEW str \in Seq(S), NEW T,
         NEW sign \in {0, 1}, NEW b, NEW e, ScannedTo(str, T, sign, b, e),
         NEW s \in {0, 1}, NEW first, NEW last, NumeralAt(str, T, s, first, last)
  PROVE  s = sign /\ first = b /\ last = e
<1> DEFINE n == Len(str)
           lead == b - sign
           blanks == first - s
<1>1. n \in Nat
  BY LenProperties
<1>2. /\ b \in sign .. n /\ e \in b .. n
      /\ \A i \in 1 .. lead : str[i] \in Blanks
      /\ lead < n => str[lead + 1] \notin Blanks
      /\ sign = 1 => str[b] = Minus /\ Min(T) < 0
      /\ sign = 0 => b = n \/ str[b + 1] # Minus \/ ~(Min(T) < 0)
      /\ \A i \in b + 1 .. e : str[i] \in DOMAIN DigitValue
      /\ e < n => str[e + 1] \notin DOMAIN DigitValue
  BY DEF ScannedTo
<1>3. /\ first \in s .. n /\ last \in first + 1 .. n
      /\ \A i \in 1 .. blanks : str[i] \in Blanks
      /\ s = 1 => str[first] = Minus /\ Min(T) < 0
      /\ \A i \in first + 1 .. last : str[i] \in DOMAIN DigitValue
      /\ \A i \in last + 1 .. n : str[i] \in Blanks
  BY DEF NumeralAt
<1>4. /\ Minus \notin Blanks /\ Minus \notin DOMAIN DigitValue
      /\ Blanks \cap DOMAIN DigitValue = {}
  BY DigitAssumption
<1>5. lead \in 0 .. n /\ blanks \in 0 .. n /\ blanks < n /\ b = lead + sign /\ first = blanks + s
  BY <1>1, <1>2, <1>3
<1>6. first + 1 \in first + 1 .. last /\ str[first + 1] \in DOMAIN DigitValue
  BY <1>1, <1>3
<1>7. str[blanks + 1] \notin Blanks
  <2>1. CASE s = 0
    <3>1. blanks + 1 = first + 1
      BY <1>5, <2>1
    <3> HIDE DEF blanks
    <3> QED
      BY <1>4, <1>6, <3>1
  <2>2. CASE s = 1
    <3>1. blanks + 1 = first
      BY <1>3, <1>5, <2>2
    <3> HIDE DEF blanks
    <3> QED
      BY <1>3, <1>4, <2>2, <3>1
  <2> QED
    BY <2>1, <2>2
<1> HIDE DEF n, lead, blanks
<1>8. lead = blanks
  <2>1. ASSUME blanks < lead PROVE FALSE
    <3>1. blanks + 1 \in 1 .. lead
      BY <1>5, <2>1
    <3> QED
      BY <1>2, <1>7, <3>1
  <2>2. ASSUME lead < blanks PROVE FALSE
    <3>1. lead + 1 \in 1 .. blanks /\ lead < n
      BY <1>1, <1>5, <2>2
    <3> QED
      BY <1>2, <1>3, <3>1
  <2> QED
    BY <1>5, <2>1, <2>2
<1>9. s = sign
  <2>1. ASSUME s = 1, sign = 0 PROVE FALSE
    <3>1. b + 1 = first /\ b # n
      BY <1>1, <1>5, <1>8, <2>1
    <3> QED
      BY <1>2, <1>3, <2>1, <3>1
  <2>2. ASSUME s = 0, sign = 1 PROVE FALSE
    <3>1. b = first + 1
      BY <1>5, <1>8, <2>2
    <3> QED
      BY <1>2, <1>4, <1>6, <2>2, <3>1
  <2> QED
    BY <2>1, <2>2
<1>10. first = b
  BY <1>5, <1>8, <1>9
<1>11. last = e
  <2>1. b \in Nat /\ e \in Nat /\ last \in Nat /\ e <= n /\ last <= n /\ b <= e /\ b < last
    BY <1>1, <1>2, <1>3, <1>5, <1>10
  <2>2. ASSUME e < last PROVE FALSE
    <3>1. e + 1 \in first + 1 .. last /\ e < n
      BY <1>1, <1>10, <2>1, <2>2
    <3> QED
      BY <1>2, <1>3, <3>1
  <2>3. ASSUME last < e PROVE FALSE
    <3>1. last + 1 \in b + 1 .. e /\ last + 1 \in last + 1 .. n
      BY <1>1, <2>1, <2>3
    <3> QED
      BY <1>2, <1>3, <1>4, <3>1
  <2> QED
    BY <2>1, <2>2, <2>3
<1> QED
  BY <1>9, <1>10, <1>11

\* The readings of a text are the values of its numerals.
LEMMA NumeralIsReading ==
  ASSUME NEW S, NEW str \in Seq(S), NEW T, NEW sign \in {0, 1}, NEW b, NEW e,
         NumeralAt(str, T, sign, b, e), NumeralValue(str, sign, b, e) \in T
  PROVE  NumeralValue(str, sign, b, e) \in Readings(str, T)
<1> DEFINE n == Len(str)
           digits == SubSeq(str, b + 1, e)
           a == b - sign
           t == SubSeq(str, a + 1, e)
           numerals == {Number(u) : u \in {u \in Trimmed(str) : IsNumeral(u)}}
           negative == {u \in Trimmed(str) :
                          u # <<>> /\ u[1] = Minus /\ IsNumeral(Tail(u)) /\ Min(T) < 0}
           negatives == {-Number(Tail(u)) : u \in negative}
<1>1. Readings(str, T) = T \cap (numerals \cup negatives)
  BY Zenon DEF Readings
<1>2. n \in Nat
  BY LenProperties
<1>3. /\ b \in sign .. n /\ e \in b + 1 .. n
      /\ \A i \in 1 .. a : str[i] \in Blanks
      /\ sign = 1 => str[b] = Minus /\ Min(T) < 0
      /\ \A i \in b + 1 .. e : str[i] \in DOMAIN DigitValue
      /\ \A i \in e + 1 .. n : str[i] \in Blanks
  BY DEF NumeralAt
<1>4. /\ b \in Nat /\ e \in Nat /\ a \in Nat /\ e <= n /\ b < e /\ a + sign = b
      /\ a + 1 \in 1 .. n /\ e \in a + 1 .. n /\ e \in 1 .. n /\ b <= e /\ a <= e
  BY <1>2, <1>3
<1> HIDE DEF a
<1>5. digits \in Seq(S) /\ Len(digits) = e - b /\ digits # <<>>
  BY <1>4, StretchIsSeq, StretchLen, EmptySeq
<1>6. IsNumeral(digits)
  <2>1. ASSUME NEW i \in 1 .. e - b PROVE digits[i] \in DOMAIN DigitValue
    <3>1. b + i \in b + 1 .. e
      BY <1>4
    <3>2. digits[i] = str[b + i]
      BY <1>4, StretchAt
    <3> HIDE DEF digits
    <3> QED
      BY <1>3, <3>1, <3>2
  <2> HIDE DEF digits
  <2> QED
    BY <1>5, <2>1 DEF IsNumeral
<1>7. t \in Trimmed(str)
  <2> DEFINE p == <<a + 1, e>>
  <2>1. p \in (1 .. n) \X (1 .. n) /\ p[1] = a + 1 /\ p[2] = e
    BY <1>4
  <2>2. ASSUME NEW i \in 1 .. n, i < a + 1 \/ i > e PROVE str[i] \in Blanks
    <3>1. i \in 1 .. a \/ i \in e + 1 .. n
      BY <1>2, <1>4, <2>2
    <3> QED
      BY <1>3, <3>1
  <2>3. t = SubSeq(str, p[1], p[2])
    BY <2>1
  <2> HIDE DEF p, t
  <2> QED
    BY <2>1, <2>2, <2>3 DEF Trimmed
<1>8. CASE sign = 0
  <2>1. t = digits
    BY <1>4, <1>8
  <2>2. NumeralValue(str, sign, b, e) = Number(digits)
    BY <1>8 DEF NumeralValue
  <2> HIDE DEF t, digits
  <2>3. Number(digits) \in numerals
    BY <1>6, <1>7, <2>1
  <2> HIDE DEF numerals, negatives
  <2> QED
    BY <1>1, <2>2, <2>3
<1>9. CASE sign = 1
  <2>1. a + 1 = b /\ (a + 1) + 1 = b + 1
    BY <1>4, <1>9
  <2>2. Head(t) = str[a + 1] /\ Tail(t) = SubSeq(str, (a + 1) + 1, e)
    BY <1>4, HeadTailOfSubSeq
  <2>3. Tail(t) = digits /\ Head(t) = Minus
    BY <1>3, <1>9, <2>1, <2>2
  <2>4. t \in Seq(S) /\ Len(t) = e - a /\ t # <<>>
    BY <1>4, StretchIsSeq, StretchLen, EmptySeq
  <2>5. NumeralValue(str, sign, b, e) = -Number(digits)
    BY <1>9 DEF NumeralValue
  <2> HIDE DEF t, digits
  <2>6. t[1] = Minus
    BY <2>3, <2>4
  <2>7. t \in negative
    BY <1>3, <1>6, <1>7, <1>9, <2>3, <2>4, <2>6
  <2>8. -Number(digits) \in negatives
    <3> HIDE DEF negative
    <3> QED
      BY <2>3, <2>7
  <2> HIDE DEF numerals, negatives
  <2> QED
    BY <1>1, <2>5, <2>8
<1> QED
  BY <1>8, <1>9

LEMMA ReadingIsNumeral ==
  ASSUME NEW S, NEW str \in Seq(S), NEW T, NEW v \in Readings(str, T)
  PROVE  /\ v \in T
         /\ \E sign \in {0, 1} : \E b, e \in 0 .. Len(str) :
              NumeralAt(str, T, sign, b, e) /\ v = NumeralValue(str, sign, b, e)
<1> DEFINE n == Len(str)
           numerals == {Number(u) : u \in {u \in Trimmed(str) : IsNumeral(u)}}
           negative == {u \in Trimmed(str) :
                          u # <<>> /\ u[1] = Minus /\ IsNumeral(Tail(u)) /\ Min(T) < 0}
           negatives == {-Number(Tail(u)) : u \in negative}
<1>1. Readings(str, T) = T \cap (numerals \cup negatives)
  BY Zenon DEF Readings
<1>2. v \in T /\ (v \in numerals \/ v \in negatives)
  <2> HIDE DEF numerals, negatives
  <2> QED
    BY <1>1
<1>3. n \in Nat
  BY LenProperties
\* A trimmed text that is not empty.
<1>4. ASSUME NEW t \in Trimmed(str), t # <<>>
      PROVE  \E a \in 0 .. n - 1, e \in 1 .. n :
               /\ e \in a + 1 .. n
               /\ t = SubSeq(str, a + 1, e) /\ t \in Seq(S) /\ Len(t) = e - a
               /\ \A i \in 1 .. e - a : t[i] = str[a + i]
               /\ \A i \in 1 .. a : str[i] \in Blanks
               /\ \A i \in e + 1 .. n : str[i] \in Blanks
  <2>1. PICK p \in (1 .. n) \X (1 .. n) :
          /\ t = SubSeq(str, p[1], p[2])
          /\ \A i \in 1 .. n : i < p[1] \/ i > p[2] => str[i] \in Blanks
    BY DEF Trimmed
  <2>2. PICK x \in 1 .. n, e \in 1 .. n :
          /\ t = SubSeq(str, x, e)
          /\ \A i \in 1 .. n : i < x \/ i > e => str[i] \in Blanks
    BY <2>1
  <2>3. ~(e < x)
    BY <1>3, <1>4, <2>2, SubSeqEmpty
  <2>4. PICK a \in 0 .. n - 1 : a + 1 = x
    <3>1. x - 1 \in 0 .. n - 1 /\ (x - 1) + 1 = x
      BY <1>3
    <3> QED
      BY <3>1
  <2>5. a \in Nat /\ e \in Nat /\ a <= e /\ e <= n /\ e \in a + 1 .. n
    BY <1>3, <2>3, <2>4
  <2>6. t = SubSeq(str, a + 1, e)
    BY <2>2, <2>4
  <2>7. t \in Seq(S) /\ Len(t) = e - a /\ \A i \in 1 .. e - a : t[i] = str[a + i]
    BY <2>5, <2>6, StretchIsSeq, StretchLen, StretchAt
  <2>8. ASSUME NEW i \in 1 .. a PROVE str[i] \in Blanks
    <3>1. i \in 1 .. n /\ i < x
      BY <1>3, <2>4, <2>5
    <3> QED
      BY <2>2, <3>1
  <2>9. ASSUME NEW i \in e + 1 .. n PROVE str[i] \in Blanks
    <3>1. i \in 1 .. n /\ i > e
      BY <1>3, <2>5
    <3> QED
      BY <2>2, <3>1
  <2> QED
    BY <2>5, <2>6, <2>7, <2>8, <2>9
<1>5. CASE v \in numerals
  <2>1. PICK t \in Trimmed(str) : IsNumeral(t) /\ v = Number(t)
    BY <1>5
  <2>2. t # <<>> /\ \A i \in 1 .. Len(t) : t[i] \in DOMAIN DigitValue
    BY <2>1 DEF IsNumeral
  <2>3. PICK a \in 0 .. n - 1, e \in 1 .. n :
          /\ e \in a + 1 .. n
          /\ t = SubSeq(str, a + 1, e) /\ t \in Seq(S) /\ Len(t) = e - a
          /\ \A i \in 1 .. e - a : t[i] = str[a + i]
          /\ \A i \in 1 .. a : str[i] \in Blanks
          /\ \A i \in e + 1 .. n : str[i] \in Blanks
    BY <1>4, <2>2
  <2>4. ASSUME NEW i \in a + 1 .. e PROVE str[i] \in DOMAIN DigitValue
    <3>1. i - a \in 1 .. e - a /\ a + (i - a) = i
      BY <1>3
    <3> QED
      BY <2>2, <2>3, <3>1
  <2>5. a \in 0 .. n /\ e \in 0 .. n /\ a - 0 = a
    BY <1>3
  <2>6. NumeralAt(str, T, 0, a, e)
    BY <2>3, <2>4, <2>5 DEF NumeralAt
  <2>7. v = NumeralValue(str, 0, a, e)
    BY <2>1, <2>3 DEF NumeralValue
  <2> HIDE DEF n
  <2> QED
    BY <1>2, <2>5, <2>6, <2>7 DEF n
<1>6. CASE v \in negatives
  <2>1. PICK t \in negative : v = -Number(Tail(t))
    <3> HIDE DEF negative
    <3> QED
      BY <1>6
  <2>2. /\ t \in Trimmed(str) /\ t # <<>> /\ t[1] = Minus /\ Min(T) < 0
        /\ \A i \in 1 .. Len(Tail(t)) : Tail(t)[i] \in DOMAIN DigitValue
        /\ Tail(t) # <<>>
    BY DEF IsNumeral
  <2>3. PICK a \in 0 .. n - 1, e \in 1 .. n :
          /\ e \in a + 1 .. n
          /\ t = SubSeq(str, a + 1, e) /\ t \in Seq(S) /\ Len(t) = e - a
          /\ \A i \in 1 .. e - a : t[i] = str[a + i]
          /\ \A i \in 1 .. a : str[i] \in Blanks
          /\ \A i \in e + 1 .. n : str[i] \in Blanks
    BY <1>4, <2>2
  <2>4. PICK b \in 1 .. n : b = a + 1
    BY <1>3
  <2>5. b \in Nat /\ e \in Nat /\ b <= e /\ e <= n /\ b \in 1 .. n /\ e \in b .. n
    BY <1>3, <2>3, <2>4
  <2>6. Tail(t) = SubSeq(str, b + 1, e)
    BY <2>3, <2>4, <2>5, HeadTailOfSubSeq
  <2>7. Len(Tail(t)) = e - b /\ \A i \in 1 .. e - b : Tail(t)[i] = str[b + i]
    BY <2>5, <2>6, StretchLen, StretchAt
  <2>8. e # b
    <3>1. e = b => e < b + 1
      BY <2>5
    <3> QED
      BY <2>2, <2>5, <2>6, <3>1, SubSeqEmpty
  <2>9. ASSUME NEW i \in b + 1 .. e PROVE str[i] \in DOMAIN DigitValue
    <3>1. i - b \in 1 .. e - b /\ b + (i - b) = i
      BY <2>5
    <3> QED
      BY <2>2, <2>7, <3>1
  <2>10. str[b] = Minus
    <3>1. 1 \in 1 .. e - a /\ a + 1 = b
      BY <1>3, <2>3, <2>4
    <3> QED
      BY <2>2, <2>3, <3>1
  <2>11. b \in 0 .. n /\ e \in 0 .. n /\ e \in b + 1 .. n /\ b - 1 = a
    BY <1>3, <2>4, <2>5, <2>8
  <2>12. NumeralAt(str, T, 1, b, e)
    BY <2>2, <2>3, <2>9, <2>10, <2>11 DEF NumeralAt
  <2>13. v = NumeralValue(str, 1, b, e)
    BY <2>1, <2>6 DEF NumeralValue
  <2> HIDE DEF n
  <2> QED
    BY <1>2, <2>11, <2>12, <2>13 DEF n
<1> QED
  BY <1>2, <1>5, <1>6

\* A conversion has the one reading of the text, if it has one.
LEMMA ConversionReads ==
  ASSUME NEW S, NEW str \in Seq(S), NEW T
  PROVE  convert_arithmetic(str, T) =
           IF Readings(str, T) = {} THEN nullopt
           ELSE Value(CHOOSE v \in Readings(str, T) : TRUE)
<1>1. PICK sign \in {0, 1}, b \in 0 .. Len(str), e \in 0 .. Len(str) :
        /\ ScannedTo(str, T, sign, b, e)
        /\ convert_arithmetic(str, T) =
             IF NumeralAt(str, T, sign, b, e) /\ NumeralValue(str, sign, b, e) \in T
             THEN Value(NumeralValue(str, sign, b, e)) ELSE nullopt
  BY ConversionScans
<1> DEFINE value == NumeralValue(str, sign, b, e)
<1>2. ASSUME NEW v \in Readings(str, T)
      PROVE  NumeralAt(str, T, sign, b, e) /\ v = value /\ value \in T
  <2>1. PICK s \in {0, 1}, first \in 0 .. Len(str), last \in 0 .. Len(str) :
          NumeralAt(str, T, s, first, last) /\ v = NumeralValue(str, s, first, last)
    BY ReadingIsNumeral
  <2>2. s = sign /\ first = b /\ last = e
    BY <1>1, <2>1, NumeralIsScanned
  <2> QED
    BY <2>1, <2>2, ReadingIsNumeral
<1>3. CASE NumeralAt(str, T, sign, b, e) /\ value \in T
  <2>1. value \in Readings(str, T)
    BY <1>3, NumeralIsReading
  <2> HIDE DEF value
  <2>2. (CHOOSE v \in Readings(str, T) : TRUE) = value
    BY <1>2, <2>1
  <2> QED
    BY <1>1, <1>3, <2>1, <2>2 DEF value
<1>4. CASE ~(NumeralAt(str, T, sign, b, e) /\ value \in T)
  <2>1. Readings(str, T) = {}
    BY <1>2, <1>4
  <2> QED
    BY <1>1, <1>4, <2>1
<1> QED
  BY <1>3, <1>4

-----------------------------------------------------------------------------
\* The row at hand is one of the table.
TableInv == table \in Tables /\ line_number <= Len(table)

LEMMA TableKept == IInv /\ TableInv /\ [Next]_vars => TableInv'
<1> SUFFICES ASSUME IInv, TableInv, [Next]_vars PROVE TableInv'
  OBVIOUS
<1>1. table' = table /\ table \in Tables /\ line_number \in Nat /\ Len(table) \in Nat
  <2>1. Len(table) \in Nat
    BY TablesAssumption, LenProperties DEF TableInv, IsSequence
  <2> QED
    BY <2>1 DEF IInv, TypeInv, TableInv, Next, LoopStep, vars, Construct, Begin, Test,
       Body, Advance, CallNext, Look
<1>2. ASSUME NextRow \/ ReportEnd \/ \E error \in NextErrors : Throw(error)
      PROVE  TableInv'
  BY <1>1, <1>2 DEF NextRow, HandOut, ReportEnd, Throw, TableInv
<1>3. CASE line_number' = line_number
  BY <1>1, <1>3 DEF TableInv
<1>4. CASE Construct
  BY <1>3, <1>4 DEF Construct, Open, Refuse
<1>5. CASE Begin
  BY <1>2, <1>3, <1>5 DEF Begin, MakeIterator, Increment, source_vars
<1>6. CASE LoopStep
  BY <1>2, <1>3, <1>6 DEF LoopStep, Test, Body, Advance, Increment, source_vars
<1>7. CASE CallNext
  BY <1>2, <1>7 DEF CallNext
<1>8. CASE Look \/ UNCHANGED vars
  BY <1>3, <1>8 DEF Look, vars, source_vars
<1> QED
  BY <1>4, <1>5, <1>6, <1>7, <1>8 DEF Next

\* get<T>() has a value just when the field as a whole is a numeral of T, and then
\* the value of that numeral, for fields and types of any size.
THEOREM GetsNumerals == Spec => []GetReadsNumerals
<1>1. IInv /\ TableInv => GetReadsNumerals
  <2> SUFFICES ASSUME IInv, TableInv, NEW T \in Types,
                      NEW index \in 0 .. Len(current_record.fields)
               PROVE  LET readings == IF index < Len(current_record.fields)
                                      THEN Readings(current_record.fields[index + 1], T)
                                      ELSE {}
                      IN  get(current_record, index, T) =
                            IF readings = {} THEN nullopt
                            ELSE Value(CHOOSE v \in readings : TRUE)
    BY DEF GetReadsNumerals
  <2> DEFINE fields == current_record.fields
  <2>1. IsSequence(fields) /\ \A i \in 1 .. Len(fields) : IsSequence(fields[i])
    <3>1. CASE line_number = 0
      <4>1. fields = <<>>
        BY <3>1 DEF current_record, MakeRecord
      <4> HIDE DEF fields
      <4>2. Len(fields) = 0 /\ fields \in Seq(Range(fields))
        BY <4>1, EmptySeq
      <4> QED
        BY <4>2 DEF IsSequence
    <3>2. CASE line_number # 0
      <4>1. fields = table[line_number]
        BY <3>2 DEF current_record, MakeRecord
      <4>2. line_number \in 1 .. Len(table) /\ table \in Tables
        <5>1. Len(table) \in Nat
          BY TablesAssumption, LenProperties DEF TableInv, IsSequence
        <5> QED
          BY <3>2, <5>1 DEF IInv, TypeInv, TableInv
      <4> HIDE DEF fields
      <4> QED
        BY <4>1, <4>2, TablesAssumption
    <3> QED
      BY <3>1, <3>2
  <2>2. get(current_record, index, T) =
          IF index >= Len(fields) THEN nullopt ELSE convert_arithmetic(fields[index + 1], T)
    BY Zenon DEF get
  <2> HIDE DEF fields
  <2>3. Len(fields) \in Nat /\ index \in 0 .. Len(fields)
    BY <2>1, LenProperties DEF IsSequence, fields
  <2>4. CASE index < Len(fields)
    <3>1. index + 1 \in 1 .. Len(fields) /\ ~(index >= Len(fields))
      BY <2>3, <2>4
    <3>2. fields[index + 1] \in Seq(Range(fields[index + 1]))
      BY <2>1, <3>1 DEF IsSequence
    <3>3. convert_arithmetic(fields[index + 1], T) =
            IF Readings(fields[index + 1], T) = {} THEN nullopt
            ELSE Value(CHOOSE v \in Readings(fields[index + 1], T) : TRUE)
      BY <3>2, ConversionReads
    <3> QED
      BY <2>2, <2>4, <3>1, <3>3 DEF fields
  <2>5. CASE ~(index < Len(fields))
    <3>1. index >= Len(fields)
      BY <2>3, <2>5
    <3> QED
      BY <2>2, <2>5, <3>1 DEF fields
  <2> QED
    BY <2>4, <2>5
<1>2. Init => TableInv
  <2> SUFFICES ASSUME Init PROVE TableInv
    OBVIOUS
  <2>1. table \in Tables /\ line_number = 0
    BY DEF Init, SourceInit
  <2>2. Len(table) \in Nat
    BY <2>1, TablesAssumption, LenProperties DEF IsSequence
  <2> QED
    BY <2>1, <2>2 DEF TableInv
<1> QED
  BY <1>1, <1>2, TableKept, InductiveInvariant, PTL DEF Spec
=============================================================================
