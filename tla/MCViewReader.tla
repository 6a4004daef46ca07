---------------------------- MODULE MCViewReader ----------------------------
(***************************************************************************)
(* ViewReader on small files.  A view that has come to show other bytes     *)
(* than it should is noticed only if those bytes differ, so every data byte *)
(* of a file is different: byte i is Letters[i].                            *)
(***************************************************************************)
EXTENDS ViewReader

CONSTANTS
  Alphabet, MaxLen,       \* the files over an alphabet up to a length
  LongAlphabet, LongLen   \* and those over a smaller one of a greater length

Letters == <<"a", "b", "c", "d", "e", "f">>

MCData == {Letters[i] : i \in 1 .. Len(Letters)}

Labelled(f) ==
  SubSeq([i \in 1 .. Len(f) |-> IF f[i] = "a" THEN Letters[i] ELSE f[i]], 1, Len(f))

MCFiles ==
  {Labelled(f) : f \in UNION {[1 .. n -> Alphabet] : n \in 0 .. MaxLen}
                         \cup [1 .. LongLen -> LongAlphabet]}

Base ==
  [has_header |-> FALSE, has_quoting |-> FALSE, mapped_buffer |-> FALSE,
   use_simd |-> FALSE, parse_mode |-> "strict", line_ending |-> "lf",
   policy |-> "flexible", record_size |-> 0]

\* The two view parsers on a stream with "\n" and with CRLF, the mapped file, and
\* a header under strict_to_header; quoting and strict_to_header without a header
\* are refused.
ViewConfigs ==
  LET stream == {[Base EXCEPT !.line_ending = e, !.use_simd = s] :
                   e \in {"lf", "crlf"}, s \in BOOLEAN}
      mapped == [Base EXCEPT !.line_ending = "crlf", !.mapped_buffer = TRUE]
      header == {[Base EXCEPT !.policy = "strict_to_header", !.has_header = h,
                              !.use_simd = TRUE] : h \in BOOLEAN}
  IN  stream \cup {mapped, [Base EXCEPT !.has_quoting = TRUE]} \cup header

\* The last row of a file may lack its newline; its record is contiguous in the
\* block, "allowing valid string_view creation" (SPECIFICATION.md:1258), and the
\* views hold until the next call of next() (SPECIFICATION.md:1263): what is
\* handed out are the records of the file.
ViewsShowTheRecord ==
  outcome = "record" /\ ~failed =>
    parsed = SubSeq(AllRecords(config, file), 1, Len(parsed))

LfStream == {Base}
=============================================================================
