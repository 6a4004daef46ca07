------------------------------ MODULE SimdScan ------------------------------
(***************************************************************************)
(* How the parsers without quoting find a line and cut it into fields.      *)
(* SimdParserBase compares a vector of LaneWidth bytes (16 in the code) as  *)
(* a whole, and the bytes behind the last full vector one by one.           *)
(* Positions count from 0 and a mask is the set of its bits.                *)
(***************************************************************************)
EXTENDS Csv, SequencesExt

CONSTANT LaneWidth  \* the bytes of a vector

ASSUME LaneAssumption == LaneWidth \in Nat \ {0}

NoPosition == -1

\* A std::string_view: where to look in a buffer, not what is there.
View == [from : Nat, len : Nat]

\* _mm_cmpeq_epi8 and _mm_movemask_epi8 on the vector that starts at i.
mask(buffer, i, c) == {bit \in 0 .. LaneWidth - 1 : buffer[i + bit + 1] = c}

ctz(bits_set) == Min(bits_set)

\* The vectors of the buffer by the index of their first byte.
Vectors(buffer) ==
  {i \in 0 .. Len(buffer) - LaneWidth : i % LaneWidth = 0}

NewlineVectors(buffer, newline_char) ==
  {i \in Vectors(buffer) : mask(buffer, i, newline_char) # {}}

\* Where the loop over vectors stops: the vector of the newline, or the tail.
ScanStop(buffer, newline_char) ==
  IF NewlineVectors(buffer, newline_char) # {}
  THEN Min(NewlineVectors(buffer, newline_char))
  ELSE Len(buffer) - (Len(buffer) % LaneWidth)

\* scan_for_structural_chars(): the newline's position and, before it, those
\* of the delimiters.
scan_for_structural_chars(buffer, newline_char) ==
  LET stop    == ScanStop(buffer, newline_char)
      passed  == UNION {{i + bit : bit \in mask(buffer, i, delimiter)} :
                          i \in {v \in Vectors(buffer) : v < stop}}
      bit_of_newline == ctz(mask(buffer, stop, newline_char))
      tail    == {i \in stop .. Len(buffer) - 1 : buffer[i + 1] = newline_char}
      limit   == IF tail = {} THEN Len(buffer) ELSE Min(tail)
  IN  IF NewlineVectors(buffer, newline_char) # {}
      THEN [newline_pos |-> stop + bit_of_newline,
            delim_positions |-> passed \cup
              {stop + bit : bit \in
                 {b \in mask(buffer, stop, delimiter) : b < bit_of_newline}}]
      ELSE [newline_pos |-> IF tail = {} THEN NoPosition ELSE limit,
            delim_positions |-> passed \cup
              {i \in stop .. limit - 1 : buffer[i + 1] = delimiter}]

\* The end of the line, without the '\r' before the newline when crlf.
line_end(buffer, newline_pos, crlf_ending) ==
  IF crlf_ending /\ newline_pos > 0 /\ buffer[newline_pos] = CR
  THEN newline_pos - 1 ELSE newline_pos

\* The next byte of a line, the i-th: a delimiter ends the field at hand and the
\* next one begins behind it, any other byte lengthens the field at hand.
TakeByte(cut, i, delim_positions) ==
  IF i - 1 \in delim_positions
  THEN Append(cut, [from |-> i, len |-> 0])
  ELSE [cut EXCEPT ![Len(cut)].len = @ + 1]

\* The fields of the line that ends at end, each as the index of its first byte
\* and its length: the stretches between the delimiters, the empty ones included.
Cut(delim_positions, end) ==
  LET cut[i \in 0 .. end] ==
        IF i = 0 THEN << [from |-> 0, len |-> 0] >>
        ELSE TakeByte(cut[i - 1], i, delim_positions)
  IN  cut[end]
=============================================================================
