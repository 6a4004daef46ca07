# csvengine in TLA+

Specifications of the CSV engine in `src/engine`: the buffers, the parsers, the
two readers, the iterator and the records, checked with TLC on small instances,
and theorems about them checked with TLAPS.  The code, read with its tests and
with `SPECIFICATION.md`, is the reference; where the two disagree the models
follow the code and the disagreement is listed under *Findings*.

## The system

csvengine reads a CSV file row by row.  It is sequential: a reader, its parser
and its buffer run on the caller's thread and are shared with nobody.  What makes
it hard is that a record reaches the parser in *chunks*.  The parser keeps flags
from one chunk to the next (a field that may go on, a `\r` that may be half of a
line ending, a quote that may be half of a pair), and every place where a chunk
can end is a separate case that no ordinary test file reaches with a 2048-byte
block.  `ViewReader` adds a second difficulty: its fields are views into a block
whose bytes the next refill moves.

| Component | Code (`src/engine`) | State | Operations |
|---|---|---|---|
| StreamBuffer | `inc/csvbuffer/csvstreambuffer.hpp` | block `data_`, `start_`, `size_`, the stream | `refill` (compacts, then reads), `consume`, `reset`, `view`, `empty`, `good` |
| MappedBuffer | `src/csvmappedbuffer.cpp` | mapping `data_`, `start_`, `size_` | the same interface, `IBuffer` |
| SimpleParser, SimdParser | `src/csvparser/simple/` | `fields_`, `incomplete_last_read_`, `pending_cr_`, `consumed_` | `parse`, `reset` |
| StrictQuotingParser, LenientQuotingParser | `src/csvparser/quoting/` | the same, `in_quotes_`, `pending_quote_` | `parse`, `reset` |
| Reader | `src/csvreader/csvreader.cpp`, `csvreaderbase.cpp` | `record_size_`, `line_number_`, `current_record_`, `headers_` | construction, `next` |
| ViewReader, view parsers | `csvviewreader.cpp`, `csvviewparser_*.cpp` | the same; the fields are views into the block | `next`, `shift_views` |
| Iterator | `csvreaderbase.cpp` | `reader_` | `begin`, `++`, `!=`, `*` |
| Record, RecordView | `inc/csvrecord/csvrecord.hpp` | fields, header index | `get`, `at`, conversions |
| Config, errors | `csvconfig.hpp`, `csverrors.hpp` | - | - |

How they interact.  `Reader::next()` resets its parser and loops.  When the buffer
is empty it refills it; at the end of the file whatever has been parsed is the
last record, and on any other failure `next()` returns false.  Otherwise it
parses the view, consumes what the parser took, and returns on a complete record,
throws on a parse error and goes on when the parser needs more data.  A row whose
size does not fit the policy throws, after its bytes are consumed; the caller may
call `next()` again after any exception.  With a header the constructor itself
calls `next()`.

`ViewReader::next()` does the same without copying: when the parser needs more
data the bytes of the record stay *unconsumed*, the refill moves them to the
front of the block, `shift_views` moves the views after them, and only then are
they consumed.  A record that does not fit in the block is refused with
`RecordTooLargeError`.

An `Iterator` calls `next()` when it is made over a reader that has handed out
nothing yet, and on every `++`; its user looks at `current_record()`, a record
made without headers.

What makes each part correct:

- *Buffers*: a client that refills and consumes sees the bytes of the file, each
  once and in order, and `refill` tells it why there are no more: `eof` means all of
  them were delivered, `fail` that the device failed, `buffer_full` that nothing
  can be read before something is consumed.
- *Parsers*: the records do not depend on where the chunks end; no index leaves
  the chunk; the room made for a field is what is written into it.
- *Readers*: records come out in file order, none is missing at the end, a
  `ParseError` is thrown exactly for the files the grammar rejects, rows agree with
  the size policy, rows are counted right whatever failed in between, the end is
  final, and every call returns.
- *ViewReader*: a view handed out shows the bytes of its field; merging two
  halves of a field takes in the bytes between; only lines that fill the block
  are refused.
- *Iterator*: no row is skipped or, within a loop, repeated; a loop ends, when
  `next()` has no more rows (a failed read included) or an exception leaves it; its
  body never runs without a row.
- *Record*: a field is a number exactly if all of it is one in range; a name
  finds the column it means.

## Modules

| Module | Models |
|---|---|
| `Csv` | the vocabulary: bytes, `Config`, result enumerations |
| `ByteFeed` | what an `IBuffer` promises (abstract): a window on the file that grows at one end and shrinks at the other |
| `StreamBuffer` | `StreamBuffer<N>` over a `std::istream` (external: a position and the state bits `refill` can tell apart) |
| `MappedBuffer` | the mapped file |
| `ParserBase` | the members every parser has, `ParserBase::reset`, the byte tests |
| `Parser` | the members and locals of the parsers that own their strings |
| `StrictQuotingParser`, `LenientQuotingParser` | `parse()`: three entry actions for what the last chunk left pending, then one action per branch of the loop |
| `SimdScan` | how a line is found and cut into fields, a vector at a time: for `SimdParser` and the view parser with vectors |
| `SimpleParser`, `SimdParser` | `parse()` as one step: it finds one newline and splits what lies before it |
| `ViewParser` | the two view parsers: a field is an index into the block and a length; `shift_views` |
| `CsvGrammar` | what a file means when it is read in one piece, a byte at a time: the reference, models no code |
| `RowSource` | what a reader promises its caller (abstract): rows are handed out and counted one by one, and the end is final |
| `ReaderBase` | what the readers share: construction, the buffer behind `IBuffer`, the record size policies, the ways `next()` ends |
| `Reader` | `next()` over the parser the configuration asks for; all of them are instances over the same variables |
| `ViewReader` | `next()` with the compaction protocol |
| `Record` | fields by index and by column, `init_headers`, `convert_arithmetic` |
| `Iterator` | range-based loops over any `RowSource`, in the hands of a user who leaves them early and calls `next()` in between |
| `MCStreamBuffer`, `MCMappedBuffer`, `MCReader`, `MCViewReader`, `MCClient` | instances for TLC |
| `MCReaderClaims` | claims of the documentation, comments and tests that the code does not keep (two more are in `MCViewReader` and `MCClient`) |
| `Stretches` | lemmas about stretches of sequences, induction over their indices, and recursive functions |
| `ReaderBaseProofs` | lemmas about `ReaderBase`, `SimdScan` and the pass of `CsvGrammar`, and about lines, pieces and fields, for both readers |
| `StreamBufferProofs`, `MappedBufferProofs`, `ReaderProofs`, `ReaderRecordsProofs`, `ViewReaderProofs`, `IteratorProofs` | theorems |

The composition goes through contracts.  `StreamBuffer` and `MappedBuffer`
implement `ByteFeed`; `Reader` and `ViewReader` run on the buffers themselves and
implement `RowSource`; `Iterator` runs on `RowSource`, so what is checked and
proved of it holds over either reader.

Names follow the code (`pending_cr_` is `pending_cr`, `buff_it` and `consumed_`
move together and are both `consumed`; the local `consumed` of
`ViewReader::next()` is `total`).  Indices into blocks and chunks count from 0 as
in the code; sequences count from 1.

A byte is a member of a small set: the delimiter, the quote, `\n`, `\r` or data.
The engine compares bytes with nothing else, so in `Reader` one data byte stands
for all (the grammar, the parsers and the buffers copy data bytes without looking
at them).  In `ViewReader` the data bytes of a file are all different, since a
view that shows a byte from another place is noticed only if the bytes differ.
Exception messages, error contexts and reserved capacities are left out.

`parse()` of the quoting parsers is modelled branch by branch because the
properties about indices speak of every turn of its loop; `ViewReader::next()` has
a step between `refill()` and `shift_views()` because the views dangle there.  A
call of `next()` is atomic to the caller, so nothing else interleaves with it;
the steps are there to be observed.

The state `undefined` of `status` stands for `pop_back()` on an empty string, or
`remove_suffix(1)` on an empty view, which is undefined behaviour; the models
stop there.  `Reader`'s `RecordsOfTheFile` says where it is never reached, and
`ViewReader`'s `TypeOK` that it is not reached at all on the checked files.

Definitions whose comment begins with *Mutant of* are plausible mistakes in the
definition they name.  They are used nowhere: replacing the definition by its
mutant must break the property named with it in `PROJECT.json`, which shows that
the property depends on the code it is about.

## What the runs check

| Run | Question | Bounds |
|---|---|---|
| `stream_buffer` | Any sequence of `refill`, `consume`, `reset`: types, `ViewIsUnread`, `RefillTellsWhy` (what `refill` returns is what has happened), and `ByteFeed` is implemented | files of 0-6 distinct bytes, capacity 1-4, the device may fail at any read |
| `mapped_buffer` | The same contract for the mapped file | files of 0-10 distinct bytes |
| `reader_records` | Every parser: records, errors, indices | every file of at most 5 bytes over data, delimiter, LF, CR (and the quote where there is quoting), and of 6 over data, delimiter, quote; blocks of 1, 2, 3 and 6 bytes, vectors of 2; the mapped file; LF, CRLF and CR; no read errors |
| `reader_policies` | Size policies, headers, counts, calls after an exception, records under read errors, the final end, termination | every file of at most 5 bytes over delimiter, quote, LF; block of 2 bytes and the mapped file; every policy, with and without header and quoting; read errors |
| `view_reader` | `ViewReader`: what the views show, where they lie, what is refused, the final end, termination | every file of at most 4 bytes over data, delimiter, LF, CR, and of 5 over data, delimiter, LF, the data bytes all different; blocks of 3 and 4 bytes, vectors of 2; both view parsers; LF and CRLF; the mapped file; a header under `strict_to_header`; read errors |
| `client` | Loops, exceptions, early exits, calls of `next()` between them; numbers and columns | tables of up to three rows of 0, 1 and 3 fields, and single rows whose field is any text of at most four bytes over blank, `-`, two digits and a letter; a signed and an unsigned type of two digits; headers with a name that occurs twice |

Why the bounds are enough.  The parsers' memory between chunks is a handful of
flags, and every decision looks at most two bytes ahead and one behind.  With
files of 5 bytes in blocks of 1, 2 and 3 bytes each pair of states at a chunk's
end and bytes around it occurs, with a record before and after it.
The files of 6 bytes in one block are long enough for two quoted fields with an
escaped quote, where a count that is not reset shows.
Blocks smaller, equal and larger than the file are in every reader run.  For
StreamBuffer files whose bytes are all different show every loss, repetition and
exchange, since the block never looks at them, and the proofs remove the bound.

In `view_reader` a file of 5 bytes in a block of 3 or 4 has records that fit,
that fit only after a compaction with another record before them, that are as
long as the block and that are longer, so every branch of the loop is taken on
both sides of its limit.  The texts of `client` include every shape a field can
have around a number: blanks before, behind, both and only; a sign alone, doubled
or in front of an unsigned type; digits with something behind them; and values on
either side of the limits of both types.

Deadlock is checked for the buffers.  For the readers it is switched off: a
reader whose constructor threw does nothing more, and neither does one whose
parser has met undefined behaviour.  `client` switches it off for a reader that
was never constructed.

**Sensitive cuts.**  The records are *not* always independent of the chunks.
`SimpleSensitive`, `StrictSensitive` and `LenientSensitive` in `Reader` say, from
the file and the block size alone, at which cuts the code misreads; everywhere
else `RecordsOfTheFile` and `ErrorsOfTheFile` must hold.  They are what a fix
should empty:

- without quoting, CRLF: a chunk that ends in a `\r` that is data, or a blank line
  cut between `\r` and `\n`;
- strict: a chunk that begins with a quote inside an unquoted field; a chunk that
  is only the second quote of a pair; in CRLF a chunk that begins with the `\r`
  behind a closing quote, or that follows a `\r` that is data;
- lenient: a chunk that begins with a quote, inside an unquoted field; or inside
  quotes, or with the second quote of a pair and another quote behind it, when the
  field has one more quote in the chunk.

With LF or CR line endings and without quoting there is no such cut at all, and a
mapped file has none.  In `ViewReader`:

- `CrSensitive`, CRLF on a stream: a `\r` at or behind the end of the first block
  that is data, or that begins a blank line;
- `LastLineMoves`: a last line of two bytes or more without its newline, behind
  another line of a stream.  There the record of that line keeps its number of
  fields, but what its views show is not promised (`claim_view_last_record`).
  The condition does not ask whether the moved bytes overlap the place they left,
  so it is wider than the misreading itself.

After an exception in the middle of a line (`failed`) the reader goes on from
inside it, or over the same line again, and its records are no longer compared
with the grammar's; the counts, the size policies, the final end and termination
hold there too.

**Fairness.**  `Reader!Spec` and `ViewReader!Spec` have weak fairness of
`NextStep`, the steps of a call of `next()`: the call runs on the caller's thread
without waiting for anybody, so it keeps going while it can.  Nothing makes the
caller call `next()`, and the buffer specifications, whose steps are calls of a
client, have no fairness.  `NextReturns` needs the fairness, and also that every
turn of the loop consumes something, brings bytes or ends the call; it is checked
with failing refills included.  `Iterator!Spec` has weak fairness of the steps of
a loop that has begun; `LoopsEnd` then says that the loop is over at some time,
even if its body never leaves it, which needs the finite table and that the end
is noticed.

## Findings

| Run | What the code does |
|---|---|
| `claim_escaped_quotes` | strict: an escaped quote whose second half is a chunk of its own is dropped (`csvparser_strictquotingparser.cpp:78`), against the comment at 183-184 |
| `claim_strict_crlf` | strict: `"..."` CR LF cut behind the closing quote throws `ParseError` (`:83`), against `SPECIFICATION.md:351` |
| `claim_lenient_quotes` | lenient: a literal quote at the front of a chunk is dropped (`csvparser_lenientquotingparser.cpp:43`), against `SPECIFICATION.md:375` |
| `claim_crlf_data` | without quoting, CRLF: a `\r` of data at a chunk's end later costs a field its last byte (`csvparser_simpleparserbase.cpp:70`), against the test at `csvparser_simple_test.cpp:182-186` |
| `claim_view_last_record` | `ViewReader`: the refill that meets the end of the file has moved the bytes of an unfinished last line, and its views go out unshifted (`csvviewreader.cpp:62`), against `SPECIFICATION.md:1258` and `:1263` |
| `claim_begin_after_end` | `begin()` after the iteration is complete is not `end()`: a second loop shows the last row again (`csvreaderbase.cpp:80`), against `SPECIFICATION.md:530-537` |

These are the disagreements that show in a few steps of the program.  The others
follow from reading; in them the models follow the code, so no property that holds
says anything in favour of the document:

| Where the document says | The code | In the models |
|---|---|---|
| an empty row is skipped silently (`SPECIFICATION.md:329-330`, `493-495`) | hands it out as a record, and the tests pin that (`csvparser_simple_test.cpp:152`; `csvparser_quoting_strict_test.cpp:473`; `EmptyLines` in `csvviewreader_test.cpp`, where it makes `RecordSizeError`) | `CsvGrammar!EndRecord`: a blank line is a record, and `RecordsOfTheFile` of either reader counts it |
| spaces around delimiters are removed (`SPECIFICATION.md:343`) | keeps them | a blank is data like any other byte |
| a quote open at the end of a record is an error in strict mode (`SPECIFICATION.md:355`) | at the end of the file accepts it (`csvreader.cpp:58`) | `CsvGrammar!LastRecord` accepts it, so `ErrorsOfTheFile` asks for no error there |
| strict, CRLF: "`\r` cannot be treated as data" (`csvparser_quoting_strict_test.cpp:409`, and cut behind the `\r` at 466-471 and 479-483) | fails when a chunk ends in the `\r`; inside a chunk takes it for data | `CsvGrammar` accepts it; the cut is in `StrictSensitive` |
| `ViewReader` refuses a record that is larger than the buffer (`SPECIFICATION.md:1271`), and a mapped file is never split (1249) | refuses a line of exactly as many bytes (`csvviewreader.cpp:56`), and so a mapped file that is one unfinished line | `RefusesOnlyLongLines` has `>=` |
| `line_number()` is the current line number (`README.md:79` of `src/`) | counts rows, as `SPECIFICATION.md:838` has it | `LineNumberCountsRows` |
| `get("name")` finds a column of the header (`README.md:155-165` of `src/`) | never, on a row of a reader: `save_record` makes records without headers | `Iterator!current_record`; `ColumnsFound` is about rows made with the headers |
| rows have the size of the header under `strict_to_header` | a blank header line turns the check off (`csvreaderbase.cpp:61`) | `RowsFitThePolicy` leaves a blank header out |

## What is proved

For every value of the constants, with TLAPS.

**StreamBuffer** (`StreamBufferProofs`).  From `CharAssumption` and
`StreamAssumption` (files are sequences of bytes, capacities at least one byte):

- `TypeCorrect` and `ViewCorrect`: `TypeOK` and `ViewIsUnread` always hold.
  `ViewIsUnread` speaks of the view, a sequence
  cut out of the block; what a step preserves is `BlockInv`, the same fact index by
  index: byte `i` of the block, between `start` and `size`, is byte
  `pos - size + i + 1` of the file.  The inductive invariant is `TypeOK /\ BlockInv`;
  without the types the cursor could pass `size`, and then a compaction would move
  bytes nobody has read.  `CompactedBytes` is the lemma about `compact()`, and
  `RefillWithKeepsInv` covers every outcome of a refill that reads.
- `RefillAnswers`, `Spec => RefillTellsWhy`: whatever came before, the value
  `refill()` returns tells what the call has done and why.  The case that needs more
  than the call itself is a refill of a stream whose bits are set: it answers by
  bits of an earlier one.  `EofInv` says that a stream with eofbit has
  handed over the whole file, and by its type one with another bit only has failed;
  `RefillTells` goes through the outcomes.
- `Implementation`: every step of `StreamBuffer` is a step of `ByteFeed` or a
  stutter, the window on the file being `pos - available` and `pos`.  It needs two
  facts about stretches of sequences, `StretchOfStretch` and `StretchLen`, in
  `Stretches`.

**MappedBuffer** (`MappedBufferProofs`), from `CharAssumption` and
`MappedAssumption`: `TypeCorrect`, and `Implementation` of the same `ByteFeed`.
The invariant is that the mapping is the file and `size` its length.

**Reader and ViewReader** (`ReaderBaseProofs` for what they share, then
`ReaderProofs` and `ViewReaderProofs`), from `CharAssumption`, `ReaderAssumption`
and, for the view parsers, `LaneAssumption`:

- `RowsFit` (`RowsFitThePolicy`) and `RowsCounted` (`LineNumberCountsRows` for
  `Reader`, its part `CountsRows` for `ViewReader`).  Neither is inductive.
  `ControlInv` adds where a call can be: nothing has been accepted before the
  constructor is done, and a reader that is ready has read its header if it has one.
  `SizeInv` adds what `record_size_` means under each policy: the configured value;
  the size of the header, if that has fields; or the size of every row with fields
  accepted so far, so that 0 says there has been none.  `ParserInv` adds that a parser
  has an answer only inside `next()`.  Nothing is assumed of what the parsers put into
  `fields`.
- `EndIsFinal`: `Spec => ImplementsSource`, the readers implement `RowSource`,
  with the phase of the source read off `pc` and `in_ctor`.  The step that needs
  an argument is the call of `next()` after one that returned false.  `EndInv` says
  what the first leaves behind, a buffer that is `spent`: it shows nothing, and
  the stream has met its end or failed; and that the second finds a parser without
  fields.  `RefillLeavesSpent` shows that every refill that is not ok leaves the
  buffer spent, and `SpentStaysSpent` that no later refill brings anything.
  For `Reader` that is nearly all, because it refills only an empty buffer.
  `ViewReader` refills a buffer that still holds the bytes of the record and
  consumes them afterwards, so `EndInv` alone is not inductive: `LoopInv` adds that
  whenever the loop is about to refill, the parser has taken every unread byte, so
  that the consume behind the refill drains the buffer.  That rests on what a
  parser answers (`ParseAnswers`: on need-more-data it has taken the whole chunk,
  else no more than the chunk), which rests on what the scans find (below).

**The vector scan** (`ReaderBaseProofs`), from `LaneAssumption` (a vector has at
least one lane).  `VectorScan`: for every width the scan finds the first newline,
and the delimiters before it, as a search byte by byte would; the argument is that
the full vectors and the bytes behind them cover the buffer without a gap.
`CutByBytes` and `CutSpans`: the fields it cuts between the delimiters are those
that grow a byte at a time, in order, one byte apart.

**The parsers of Reader** (`ReaderProofs`):

- `SimdIsSimple`: on the same members and the same buffer, `Simd!Parse` takes
  exactly the steps of `Simple!Parse`.  So a file read with `use_simd` is read as
  without it, and whatever is said of the simple parser holds of the other.
  The chain is `VectorScan`, then `ShownCut` (the strings between the cuts are the
  pieces `split` collects).
- `TypeCorrect` (`TypeOK`) and `CursorInBounds` (`FieldsInBounds`), for all four
  parsers, any chunks and any files.  The types need more than themselves: fields
  are strings only if the cursor stays in the chunk, and `fields_.back()` exists
  only if there is a field.  `OpenFieldInv` says that a field that may go on is
  there; `CursorInv` says that a field starts at the chunk, or behind a delimiter
  or quote, at or before the cursor (so the byte before it is not a `'\r'` of the
  field before), and that the count of quote literals is what the copy of the
  bytes read so far drops.  That last part is what makes the room `add_field`
  makes exactly enough; it is preserved because the copy grows a byte at a time
  (`StrictCopyGrows`).  `BytesInv` (the block holds bytes of the file) gives the
  chunk its type, and `SInv` keeps a parser that runs inside `next()`.

**The records of Reader** (`ReaderRecordsProofs`), for every parser, either buffer,
any file, block size and read error:

- `RecordsRead`, `Spec => []RecordsOfTheFile`;
- `ErrorsFound`, `Spec => []ErrorsOfTheFile`: a `ParseError` is thrown only for a file
  that strict quoting, as `CsvGrammar` has it, rejects, and no such file is read to
  its end without one.  Without strict quoting it says that nothing is thrown.

Both are the properties the runs check, their exception `Sensitive` included.  The
argument has five parts.

- *Two ways to read the same bytes.*  `At(i)` is where the grammar's pass stands
  after `i` bytes of the file; `ReadingGrows`, `PlainByte`, `StrictByte` and
  `LenientByte` give it a byte at a time (`ReaderBaseProofs`).
  Without quoting the parser finds a newline and splits what lies before it, and
  merges the first piece with the field the last chunk left open.  `StretchSplits`
  says that over a stretch without newlines the two agree: the open fields of
  `At(b)` are those of `At(a)` merged with the pieces of the bytes between, wherever
  `a` and `b` lie.  `SimpleReads` is the whole call: it takes all of the chunk and
  holds the open fields of `At`, or it completes the next record of the pass.
- *The strict parser inside a chunk.*  `Walking` is the invariant of its loop: the
  chunk is the next stretch of the file (`ShowsFile`); the flags tell the mode of the
  pass (`Standing`); the field read so far, its part held in `fields_` and the copy
  of its part in the chunk, is the text of the pass (`Copied`); and where the field
  can have begun (`Progress`).  It is the copy that makes this hard, because the
  parser counts literals while it walks and copies at the end of the field, where
  the pass appends as it goes: `CopiedMore`, `CopiedQuote` and `CopyPair` say what a
  byte, a quote and an escaped quote add to the copy.  There is one lemma for each
  branch of `parse()` (`NewlineAnswers` to `ClosingAnswers`), and one for each
  entry after a chunk that ended on a quote or a `'\r'` (`AfterQuoteAnswers`,
  `AfterCrAnswers`).  Each shows `Answers`: the loop goes on in `Walking`, or it has
  completed the next record, or it fails and the pass rejects the file, or it has
  taken the whole chunk and holds what the pass has open.
- *The lenient parser inside a chunk.* It decides twice what a quote means: when it
  looks for the end of the field, with its own rules, and when `add_field` copies the
  field, with others.  `FieldPass` is the second pass a byte at a time: the text made
  so far and what the copy takes the next byte for (`ReaderProofs`, where
  `UnquotedIsPass` says that it is what `add_field` makes).  `Told` is that pass over
  the bytes of the field in this chunk, begun as `quoted_field` tells it.
  `LenientWalking` says that the field held and the text of `Told` make the text of
  the pass (`LenientCopied`), and where the two decisions stand (`LenientProgress`):
  in the same mode, or the copy believes itself in quotes where the grammar is behind
  the closing quote or in plain text, which makes no difference when there is no
  further quote of the field in the chunk (`NoQuoteAhead`).  It can only come to that
  where a part of a field begins with a quote, and there `LenientSensitive` excepts
  the cuts with a further quote (`QuoteInside`, `LenientPairBegins`, `NoneFollows`).
- *Where a chunk may end.*  `FeedInv` says that the block is a stretch of the file,
  and that while the stream is good the position is a multiple of `N`: `Reader`
  refills only an empty block.  So a record that is parted is parted at a member of
  `Cuts`, the places `Sensitive` speaks of.  Where the exceptions are used:
  those of `SimpleSensitive` at a
  `'\r'` with no `'\n'` behind it and at a blank line parted by the chunk
  (`CrThenLf`, `SimpleReads`); those of `StrictSensitive` in `QuoteAnswers` (a quote
  in an unquoted field), `LastOfChunk` (the second quote of a pair alone in its
  chunk), `AfterQuoteAnswers` (a `'\r'` behind a closing quote) and
  `AfterCrAnswers` (a `'\r'` that is data); those of `LenientSensitive` in
  `QuoteInside` and `LenientPairBegins`.
- *What has been completed.*  `RecInv` says at each point of the loop which records
  `parsed` holds: between records those of `At(Taken)`, and inside one the same,
  with the parser holding what is open and the flags that tell where (`Within`).  A
  reader that has given up is `Done`: its buffer is `spent`, and if it met the end of
  the file, rather than a read error, nothing is missing (`LastRecords`).  After a
  read error the rest of the block is all there will be, and a quote that is the
  last byte of it may be dropped; `Lost` is that case, from which nothing more is
  completed.  That every completed list is a prefix of the file's records is
  `RecordsGrow`.  A reader that has thrown has met a file the pass rejects
  (`FailingRejects`), and stays there (`RecordsInv`).

**The views of ViewReader** (`ViewReaderProofs`): `TypeCorrect` (`TypeOK`) and
`ViewsCorrect` (`ViewsAdjoin`: the views of a record lie in the block, in order,
one byte apart, whatever was merged and shifted).  The invariant, `GeoInv`, says at
each point of the loop where the views lie: before a refill they reach the end of
the block's bytes (`AtTop`), behind it they are as long as what the parser has
taken, and may be elsewhere (`AtRefilled`), and when `parse()` is called again they
end where the unread bytes begin (`AtParse`).  The step from the second to the third
is `shift_views`, which is skipped when the compaction moved nothing; that this
leaves no view behind rests on `AtTop`: either the record begins where the unread
bytes do, or the refill brings nothing (`NoMoreToCome`) and the views are not
parsed on.

**The records of ViewReader** (`ViewReaderProofs`): `RecordsRead`,
`Spec => []RecordsOfTheFile`, for both view parsers, either buffer, any file, block
size and read error.  It says more than the same theorem about `Reader`, because a
view shows whatever the block holds when it is looked at.

- *A view read in the file.*  `FileText(views, b)` is what the views show if the
  block begins behind byte `b` of the file.  That changes only with the views, so
  what `parse()` does can be said of it without the block: `CutText` (the views cut
  from a stretch show its pieces), `JoinedText` (a view made longer shows the field
  merged) and `ShortenedText` (without its `'\r'`) carry the views through
  `insert_fields` and `remove_last_char_from_fields`, over the grammar's lemmas of
  `ReaderBaseProofs`.  `ViewReads` is the whole call.
- *Where the block has it.*  `Reads(b, t)` says that the views held, read with the
  block behind byte `b`, are what the grammar's pass has open behind byte `t`.
  `RecordsInv` names `b` at each point of the loop: the block's own beginning
  (`base`) before a refill and when `parse()` is called, and between the two the
  place from which the first view still points at the first unread byte.
  `RefillFile` says that the compaction and the read keep the block a stretch of the
  file and the reader where it was, and `SameFileText` that `shift_views` changes
  the views and `b` by the same distance.
- *At the end of the file.*  There the views go out unshifted.  `LastLineShown`: what
  a compaction writes over lies below the bytes it moved, so the views are hit only
  if the line is at least two bytes long and lies behind others, which is
  `LastLineMoves`, the exception the property makes.
- *Where a line is parted.*  Two facts bound the first chunk of a record in a stream:
  a refill that brings bytes with a record at hand finds the block full (`ViewFeed`)
  and the record behind its first byte, so the chunk ends no earlier than byte `N`.
  From there on CRLF is read wrongly only in the cases of `CrSensitive` (`CrHasLf`).

**Only long lines are refused** (`ViewReaderProofs`): `RefusesLong`,
`Spec => RefusesOnlyLongLines`, for every file, the exceptions of
`RecordsOfTheFile` included, because nothing of what the views show is needed.
`InLine(t)` says that the last `total` bytes before byte `t` of the file are bytes of
one line, the one behind as many newlines as records have been completed; `LinesRead`
names `t` at each point of the loop.  That `next()` counts a byte once, however often
the block is refilled under the record, rests on what `GeoInv` says of the bytes still
to be consumed.

Recursive functions (`copy[i] == ... copy[i - 1]`) are reasoned about an index at
a time: `Recursion` gives a function its value at each index from the one before,
and `IndexInduction` carries a claim from 0 to the length.  Both are in
`Stretches`, proved from the least element of a set of numbers, because the
library's induction rules cannot be instantiated here.

**Iterator** (`IteratorProofs`), over any reader that keeps the contract of
`RowSource`, so over both by the theorems above: `BodyRuns`, `RowsNotSkipped` and
`TurnsShowNewRows`, for tables of any length and any pattern of failures.  The
inductive invariant says where a loop can be and with which iterator (`LoopInv`), and
which row it has at hand (`RowInv`): behind the body the row at hand is the one looked
at, and before a later turn it is the one after it. `ColumnsAreFound` (`ColumnsFound`)
needs only that the header never changes; what it rests on is `LastColumnWins`, which
says what `init_headers` makes of any list of names, a column at a time
(`IndexByColumns`).

`GetsNumerals` (`GetReadsNumerals`), for fields and types of any size: `get<T>()`
has a value just when the whole field, blanks around it aside, is a numeral of a
value of T, and then that value.  `convert_arithmetic` scans the field once;
`ConversionScans` says where it comes to and that it has a value just where that
is the end of a numeral with nothing but blanks behind it; a field has at most one
numeral and the scan finds it (`NumeralIsScanned`, from `DigitAssumption`: no byte
is two of blank, digit and '-'); and the numerals are the readings of the
definition (`NumeralIsReading`, `ReadingIsNumeral`).  That both get the same value
of the digits is `ValueOfNumeral`: `from_chars` takes them from the first on, ten
times the value so far and the next digit, and `Number` adds them up by their
places from the last on, so what is added after k digits, and what the others have
come to times the k-th place, is always the whole value.  The library's `FoldLeft`
folds over sets of indices; `FoldByDigits` shows what it makes of the first i.
`Number` finds each place from the one before it, since no prover here knows the
powers of ten.  The invariant added is that the row at hand is one of the table
(`TableInv`).

`HeadersAssumption` and `TablesAssumption` say that headers, rows and fields are
sequences.

Not proved and left to TLC: liveness (`NextReturns`, `LoopsEnd`), which the provers
at hand cannot do.

## Not modelled, and the plan

Within reach:

1. The link between the contracts: that what `RowSource` counts are rows of the
   grammar is checked in each reader and not stated in `RowSource`.

Left out for good:

- failing system calls when a buffer is opened (they throw before a reader
  exists), and a file that changes while it is mapped;
- moving readers and buffers: moves of whole objects without a protocol;
- `Record`'s conversions to floating point, to strings and through a stream,
  which the standard library does, and `operator[]` by index, whose undefined
  behaviour is its caller's;
- the text of exceptions;
- a record's life beyond the next call of `next()`, which the code excludes by
  contract (`SPECIFICATION.md` 5.5.3): a view is looked at when it is handed out;
- the benchmarks, the demo and the tests, which drive the engine and keep no
  state of their own.
