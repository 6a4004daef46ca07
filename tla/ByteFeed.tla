------------------------------ MODULE ByteFeed ------------------------------
(***************************************************************************)
(* What an IBuffer promises to its client, whatever it does with memory:    *)
(* the client sees a window on the file that starts at the first byte it    *)
(* has not consumed.  Refilling lengthens the window by the bytes that come *)
(* next, consuming shortens it from the left, and no byte is lost, repeated *)
(* or reordered.  At first, and after a reset, it starts at the first byte  *)
(* of the file; how much it shows of it then is the buffer's choice.        *)
(***************************************************************************)
EXTENDS Sequences, Naturals

CONSTANTS Files  \* the files that may stand behind the buffer

VARIABLES
  file,    \* the bytes of the file
  window,  \* what view() returns
  rest     \* what the window has not reached yet

feed_vars == <<file, window, rest>>

Drop(s, n) == SubSeq(s, n + 1, Len(s))

Init ==
  /\ file \in Files
  /\ \E n \in 0 .. Len(file) : /\ window = SubSeq(file, 1, n)
                              /\ rest = Drop(file, n)

\* The next n bytes join the window (n = 0: the refill brought nothing).
Refill(n) ==
  /\ window' = window \o SubSeq(rest, 1, n)
  /\ rest' = Drop(rest, n)
  /\ UNCHANGED file

Consume(n) ==
  /\ window' = Drop(window, n)
  /\ UNCHANGED <<file, rest>>

Reset ==
  /\ \E n \in 0 .. Len(file) : /\ window' = SubSeq(file, 1, n)
                              /\ rest' = Drop(file, n)
  /\ UNCHANGED file

Next ==
  \/ \E n \in 0 .. Len(rest) : Refill(n)
  \/ \E n \in 0 .. Len(window) : Consume(n)
  \/ Reset

Spec == Init /\ [][Next]_feed_vars
=============================================================================
