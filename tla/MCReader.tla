------------------------------ MODULE MCReader ------------------------------
(***************************************************************************)
(* The readers on small files, and the configurations each run asks about.  *)
(* The files are all those over an alphabet up to a length; and those over  *)
(* a smaller one up to a greater length, where quotes have room to pair up  *)
(* on both sides of a cut.                                                  *)
(***************************************************************************)
EXTENDS Reader

CONSTANTS Alphabet, MaxLen, LongAlphabet, LongLen

FilesOver(bytes, max) == UNION {[1 .. n -> bytes] : n \in 0 .. max}

MCFiles == FilesOver(Alphabet, MaxLen) \cup FilesOver(LongAlphabet, LongLen)

Base ==
  [has_header |-> FALSE, has_quoting |-> FALSE, mapped_buffer |-> FALSE,
   use_simd |-> FALSE, parse_mode |-> "strict", line_ending |-> "lf",
   policy |-> "flexible", record_size |-> 0]

Quoting(mode) ==
  {[Base EXCEPT !.has_quoting = TRUE, !.parse_mode = mode, !.line_ending = e] :
     e \in LineEnding}

OnMapped(configs) == {[c EXCEPT !.mapped_buffer = TRUE] : c \in configs}

\* Without quoting: the two parsers, each line ending, and the mapped file.
SimpleConfigs ==
  LET stream == {[Base EXCEPT !.line_ending = e, !.use_simd = s] :
                   e \in LineEnding, s \in BOOLEAN}
  IN  stream \cup OnMapped({c \in stream : c.line_ending = "crlf"})

StrictConfigs == Quoting("strict")

LenientConfigs == Quoting("lenient")

RecordConfigs == SimpleConfigs \cup StrictConfigs \cup LenientConfigs

\* Without quoting the quote character is data like "a": the files that hold it
\* are read with quoting only.
RecordInit ==
  /\ Init
  /\ config.has_quoting \/ \A i \in 1 .. Len(file) : file[i] # quote_char

RecordSpec == RecordInit /\ [][Next]_vars

\* Every record size policy, with and without a header, on both buffers; the
\* record size of strict_to_value is 2, or 0, which is refused.
PolicyConfigs ==
  {[Base EXCEPT !.policy = p, !.has_header = h, !.mapped_buffer = m,
                !.record_size = r, !.has_quoting = q] :
     p \in RecordSizePolicy, h \in BOOLEAN, m \in BOOLEAN, r \in {0, 2},
     q \in BOOLEAN}
=============================================================================
