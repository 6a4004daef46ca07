--------------------------- MODULE MCStreamBuffer ---------------------------
(***************************************************************************)
(* StreamBuffer never looks at the bytes it moves, so files whose bytes are *)
(* all different show every loss, repetition and reordering.                *)
(***************************************************************************)
EXTENDS StreamBuffer

MCData == {"a", "b", "c", "d", "e", "f"}

Bytes == <<"a", "b", "c", "d", "e", "f">>

MCFiles == {SubSeq(Bytes, 1, n) : n \in 0 .. Len(Bytes)}

MCCapacities == 1 .. 4
=============================================================================
