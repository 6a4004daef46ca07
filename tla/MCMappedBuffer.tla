--------------------------- MODULE MCMappedBuffer ---------------------------
(***************************************************************************)
(* As in MCStreamBuffer, files whose bytes are all different; the empty     *)
(* file, which is not mapped, is one of them.                               *)
(***************************************************************************)
EXTENDS MappedBuffer

MCData == {"a", "b", "c", "d", "e", "f", "g", "h", "i", "j"}

Bytes == <<"a", "b", "c", "d", "e", "f", "g", "h", "i", "j">>

MCFiles == {SubSeq(Bytes, 1, n) : n \in 0 .. Len(Bytes)}
=============================================================================
