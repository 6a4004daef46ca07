--------------------------- MODULE MCReaderClaims ---------------------------
(***************************************************************************)
(* What the documentation, the comments and the tests say of the readers    *)
(* where the code does otherwise.  Each claim has a run that refutes it.    *)
(***************************************************************************)
EXTENDS MCReader, SequencesExt

StrictLf == {c \in StrictConfigs : c.line_ending = "lf"}

StrictCrlf == {c \in StrictConfigs : c.line_ending = "crlf"}

LenientLf == {c \in LenientConfigs : c.line_ending = "lf"}

SimpleCrlf ==
  {c \in SimpleConfigs : c.line_ending = "crlf" /\ ~c.mapped_buffer /\ ~c.use_simd}

\* The records so far are those of the file, whatever the chunks.
RecordsSoFar ==
  parsed = SubSeq(AllRecords(config, file), 1, Len(parsed))

\* A quote at the end of a chunk and another at the front of the next are one
\* literal quote (csvparser_strictquotingparser.cpp:183-184), so a file without
\* an error keeps its escaped quotes.
EscapedQuotesKept == ~Rejected(config, file) => RecordsSoFar

\* Strict mode rejects only what RFC 4180 does not allow (SPECIFICATION.md:351),
\* so a file of complete CRLF lines that keep to it is read without an error.
StrictAcceptsRfc4180 == failed => Reading(config, file).mode # "start"

\* Lenient mode: a quote in an unquoted field is a literal character and a pair
\* inside quotes is one quote (SPECIFICATION.md:374-376), at any cut.
LenientQuotesAsDocumented == RecordsSoFar

\* With CRLF line endings a line that ends in a bare '\n' is accepted with all
\* its bytes (csvparser_simple_test.cpp:182-186): read to its end, a file has
\* as many bytes of data as its records.
DataBytes(string) == Len(SelectSeq(string, LAMBDA c : c \in Data))

CrlfKeepsData ==
  outcome = "end" =>
    LET bytes == FlattenSeq(FlattenSeq(parsed))
    IN  DataBytes(bytes) = DataBytes(file)
=============================================================================
