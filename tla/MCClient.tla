------------------------------ MODULE MCClient ------------------------------
(***************************************************************************)
(* The iterator and the records on small tables: tables of up to three rows *)
(* for the loops, and single rows whose one field is any text of up to four *)
(* bytes for the conversions.                                               *)
(***************************************************************************)
EXTENDS Iterator

CONSTANT MaxLen

Bytes == {" ", "-", "0", "2", "x"}

MCDigitValue == [c \in {"0", "2"} |-> IF c = "0" THEN 0 ELSE 2]

\* A signed and an unsigned type of two digits.
MCTypes == {-21 .. 21, 0 .. 21}

Texts == UNION {[1 .. n -> Bytes] : n \in 0 .. MaxLen}

Rows == {<<>>, <<<<"2">>>>, <<<<"2">>, <<"-", "2">>, <<"0">>>>}

MCTables ==
  {<<>>} \cup {<< <<text>> >> : text \in Texts} \cup UNION {[1 .. n -> Rows] : n \in 1 .. 3}

MCHeaders == {<<>>, <<"k">>, <<"k", "m", "k">>}

\* begin() after the iteration is complete is end() (SPECIFICATION.md:537): a
\* loop over a reader that has reported the end never runs its body.
EndedLoopsAreEmpty == at_step = "body" => outcome # "end"
=============================================================================
