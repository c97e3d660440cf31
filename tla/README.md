# timbre-tsf in TLA+

Timbre is a Rust library that stores time series in a columnar file: records or
tablets of a device go in, pages of encoded points come out, and a footer written
last makes the file readable. This directory models that program, checks the
models with TLC on small instances and proves some of the results with TLAPS for
every instance. Paths below are relative to `src/src/`.

## 1. Inventory

| component | state | operations | hard behaviour |
|---|---|---|---|
| `writer/chunk_writer.rs`, `writer/page_writer.rs`: one column | sealed pages; the open page's timestamps, values and statistic; a cached size estimate | `write_x` and `write_x_batch_with_bitmap` (six types), `seal_current_page`, `serialize_to`, `statistic` | pages end in the middle of batches; a refused write changes state; `finish` may fail or panic |
| `file/miniblock.rs` | none | `calculate_miniblock_count`, `split_into_ranges` | integer boundaries |
| `writer/file_writer.rs` | schemas per device, the open device, one chunk writer per column | `register_timeseries`, `register_device`, `write_record`, `write_tablet`, `flush`, `close` | the device changes between calls; a step in the middle fails; tablets bring their own columns |
| `writer/io_writer.rs` | the stream and its own idea of the position, metadata per device, totals, dictionary | `start_chunk_group`, `write_chunk`, `end_chunk_group`, `close` | offsets counted apart from the bytes; a crash between sections |
| `reader/*.rs` | device metadata, a cache of decoded chunks | `open`, `read`, `read_time_range`, `read_device`, `scan_with_predicate`, `clear_cache` | several chunks of one name, cache keys |
| `common/statistic.rs` | count, times, value aggregates | update, batch update, merge | who is merged when |
| `common/tablet.rs` | timestamps, columns, null bitmaps | `add_row`, `add_rows_bulk`, `clear` | a row refused halfway |
| `encoding/` | an encoder per column, reused for every mini-block | encode, flush, reset; decode | state left over between blocks; widths and overflow |
| `compress/` | none | third-party wrappers | none |
| `index/` | a radix tree, bitmaps of devices by tag, bit sets by page and file | insert, query, serialize, deserialize | keys that are prefixes of others, ids after a reload, what a reload forgets |
| `query/filter/`, `reader/scan.rs` | none | `evaluate`, `might_match_chunk`, `simplify`, `negate`, `execute_scan` | skipping what matches; nulls, NaN, nesting |
| `arrow/` | a writer or a reader it drives; the index of an iteration | batches to tablets and back | nulls and row alignment; a query in the middle of an iteration |
| `file/dictionary.rs`, `common/string_interner.rs` | interned names | intern | only membership matters here |
| `common/schema.rs`, `common/types.rs`, `file/byte_stream.rs`, `utils/`, `writer/page_writer_builder.rs` | none | conversions, heuristics, builders | none |

How they interact: `FileWriter` owns an `IOWriter` and the `ChunkWriter`s of the one
device whose group is open; a `ChunkWriter` owns a `PageWriter`. Everything is
called through `&mut self`, so calls do not interleave; what does interleave is
the *order* of calls, the point within a call where it fails, and the point where
the process dies. Readers come after the writer, on whatever is on disk; page
decoding is parallel, but an indexed parallel iterator is collected in order.
`PROJECT.json` lists the hazards, each at its line.

What makes each component correct: a column loses, repeats, reorders and mismatches no
point; page headers cover their pages; a page is bounded; the metadata addresses the
chunks; a file opens only if it is complete; reading returns what was written;
a failure stays within its device; a decoder returns what was encoded, whatever blocks came
before; statistics describe their points, and nothing that matches a query is skipped; a
tablet is the rows it accepted; an index never denies what it was given; an Arrow batch is
made of whole rows, and an iteration meets every device once.

## 2. The modules

    MiniBlocks ── ChunkOps ──┬── ChunkState ──┬── ChunkWriter ── MCChunkWriter  (refines SeriesLog)
                             │                └──┐
                             ├── IOWriter ───────┴── FileWriter ── TimbreFile ── MCTimbreFile
                             └── Statistics ── Query
    Picking, Maps ── Query
    Tablets, IOWriter, Statistics ── ArrowBridge
    ArrowBridge, Query ── Pipeline ── MCPipeline

    Words ──┬── IntegerCodecs ──┐
            ├── XorCodecs ──────┼── Codecs ── MCCodecs
            └── SprintzCodecs ──┘

    RadixTree, TagIndex, BloomLevels ── Indexes ── MCIndexes      (refines PrefixMap)

The proofs extend the modules they are named after, and each other:

    Induction ──┬── WriterOps_proofs ──┬── ChunkWriter_proofs
                │                      ├── TimbreFile_proofs
                │                      └── Query_proofs ── Pipeline_proofs
                ├── Indexes_proofs
                └── Codecs_proofs

`WriterOps_proofs` has the lemmas about the operators of ChunkOps and of IOWriter.

* **MiniBlocks** cuts a page of `total` points into ranges. The loop of
  `split_into_ranges` is written in closed form (`BlockEnd`).
* **ChunkOps** holds the operations of a chunk writer as operators from a writer to a
  writer and an outcome (`ok`, `err`, `panic`), so that a state machine of one writer
  and a file of many share them. A writer is a record: `pages`, `times`, `vals`, `stat`,
  `size`; `encodes` says whether its encoder accepts the column's type, which the code
  finds out at the first value. The six value types have one shape in the code and are
  one operator here.
* **ChunkState** has the types of a chunk writer, its pages and points, and the two
  statements about them that one writer and a file of many share: pages hold the points
  between their cuts (`PagesHold`), the open page holds the rest (`RestHolds`).
* **ChunkWriter** runs one writer: `WriteMatching`, `WriteMismatched`, `Serialize`, and
  a batch call unfolded into `StartBatch`, `NextRow` for each iteration and `EndBatch`,
  since the loop seals pages on its way. `given` and `cuts` are history variables: the
  points the writer took, and how many of them were there when each page began.
* **SeriesLog** is what a column promises, without pages: points wait, a seal moves all
  of them in order behind the stored ones, publishing hands out everything.
  `ChunkWriter` implements it (`ImplementsSeriesLog`), `stored` being what a reader
  decodes from the sealed pages.
* **IOWriter** is the physical file: a sequence of regions with true offsets and
  lengths, next to `pos`, the code's `current_position`. Lengths of what is written
  (`StreamBytes`, field by field) and lengths reported (`TotalBytes`) come from the two
  places of the code that compute them.
* **FileWriter** unfolds each call into the steps between which the process may die or
  the call may fail: the chunks of a flush one by one, opening the group, the points of
  a record or columns of a tablet, the four sections of `close`. `call.pc` says where it
  stands. `offered`, `damaged` and `refused` are history.
* **TimbreFile** adds the reader: `Open` on what is on disk after close, drop, panic or
  crash, `Read` with its cache, `ClearCache`.
* **Words** has machine integers as numbers with explicit casts (`Unsigned`, `Signed`,
  saturation), bit strings, the two zigzags of the code and the varint layout.
* **IntegerCodecs**, **XorCodecs** and **SprintzCodecs** are the encoders and decoders of
  `encoding/`, each a record of the fields of its Rust type with the buffer (`out`) or the
  position (`pos`) its caller passes. Widths, selectors, thresholds and block sizes are CONSTANTS.
  `spilled` and `lost` are history: a write that reached past the bit buffer, a prediction
  error that saturated.
* **Codecs** is `PageWriter::create_miniblock` around one of them: `StartBlock` (reset), `Encode`, with
  the type refused or the overflow that a debug build panics on, `BeginFlush`, `FinishOneWord` (one
  round of Simple8b's packing loop), `EndFlush`; with the factories, the batch calls and the two loops that
  `PageReader` decodes with. The encoder is the same record from block to block.
* **PrefixMap** is what the radix tree can promise: a map in which no key is a prefix of another.
* **RadixTree** keeps the tree as a function from paths to nodes, a node's kind growing 4, 16, 48, 256;
  **TagIndex** the ids and a set of ids per tag string; **BloomLevels** a filter per page and one of the
  file, with the hash function a CONSTANT. **Indexes** runs one of the three (`subject`) under any order of
  its calls and one reload from its own bytes.
* **Statistics** adds to the count and times of ChunkOps the aggregates of the six kinds of values,
  with infinities and NaN, a NaN comparing with nothing.
* **Query** has filters, predicates with `evaluate`, `might_match_chunk`, `simplify` and `negate`, and
  the scan of `reader/scan.rs` and `chunk_reader.rs`. Predicates nest up to `MaxNesting` (`PredicatesTo`), and the
  three recursions over them are functions, with one match of the code as an operator
  (`EvaluateStep`, `MightMatchStep`, `SimplifyStep`). **Picking** and **Maps** are the subsequence at given
  places and the insertion into a map.
* **Tablets** and **ArrowBridge** are operators on a caller's tablet, on a writer (`io`, the open device,
  its `writers`) and on an Arrow reader. `write_tablet` and `flush` are single steps here, made of the same
  `WriteChunk`, `BatchRow` and `BatchEnd` as in FileWriter, which takes them apart.
* **Pipeline** runs them: `Observe`, `ObserveBatch` and `SealPage` for statistics and the queries they answer; `AddOne`,
  `AddMany`, `ClearTablet`, `WriteIt`, `Import`, `Close`, `Open`, `NextBatch`, `QueryDevice` for a file.
  `kept`, `accepted`, `torn`, `damaged`, `yielded` are history. The order of a hash map is any order.

Failure is modelled where the code has it: a value of another type, an encoder that
refuses the column's type, a device without schemas, an unknown measurement, an empty
chunk at a flush, a slice out of range (a panic), the death of the process at any step with
any prefix of the stream on disk. A region cut in two counts as missing.

What is abstracted: in the modules about files, values are opaque and a mini-block is the points
encoded into it, so decoding is taken to invert encoding. `Codecs` says when that is so, and when not:

* a page of Date, Timestamp or String is refused by `PageReader` (`PageTypes`), and so is a delta-of-delta block of
  three values or more unless its column is Int64, for its decoder unpacks for the column's type what was packed for
  Int64 (`Refused`);
* a value comes back as another one when it or its delta of delta exceeds a word's payload, when a double's bits spill,
  when a Sprintz error saturates, or in Quantized when it lies off the multiples of the step;
* Simple8b has no decoder, and repeats the words of earlier blocks.

`TimbreFile` is about columns of a type and an encoding that none of this concerns: its reader refuses no chunk. In
`ArrowBridge` each series has a type and an encoding (`TypeOf`, `EncodingOf`): a chunk with a refused page or mini-block is an error
there (`ChunkReads`), and the encodings are those of `Faithful`, whose blocks come back with the values given or are
refused: plain, RLE, zigzag, dictionary and delta of delta, and the XOR codecs for types of 32 bits. The XOR codecs of 64 bits, Sprintz and
Simple8b are left to `Codecs`. With delta of delta, second differences of Int64 columns and of timestamps are taken to
fit a word's payload. A scan (`Query`) is of a chunk that can be read.

Checksums, compression, wording and the interner are left out; I/O errors of the file system are left out. A
fixed-width field in an encoded block is one symbol, not its bytes; the lengths that matter to a decoder's end of
input are kept. Arithmetic on floats is exact: the sum of an integer statistic, an `f64` in the code
(`common/statistic.rs:594`), loses no low bits in the model, and the doubles of Quantized are integers of a grid, so that the property is about the
steps and not about the last bits of a product.

## 3. The runs

| run | question | bounds |
|---|---|---|
| `chunk_writer` | does one column keep its points, and implement `SeriesLog`? | 5 points, batches of up to 3 rows, 2 refused timestamps, pages of 5 bytes at 2 bytes a point, 2 blocks a page |
| `timbre_file` | is a file that opens complete, addressed and readable? | 2 devices, 2 measurements, 3 calls, pages of two points |
| `block_times` | are a block's header times its minimum and maximum? (no) | as `chunk_writer` |
| `footer_totals` | are the footer's totals those of the file? (no) | as `timbre_file` |
| `read_all` | does `read` return all of a series? (no) | as `timbre_file` |
| `aligned_writers` | do the writers follow the schemas? (no) | as `timbre_file`, tablets with any columns |
| `codecs` | does a decoder read what was encoded, or refuse it, block after block? does a flush end? | every encoder, with types it takes and types it refuses; integers of 3 and 4 bits, 3 bits of payload, doubles of 16 bits over bytes of 4, Sprintz blocks of 3 and groups of 2; 2 blocks, the first of up to 4 to 9 values by encoder |
| `recommended_encoding` | can a column be read back that has its recommended encoding? (no) | as `codecs`, the columns of `recommended_for` |
| `lossless` | are Quantized and Sprintz lossless? (no; the trace is one of Quantized) | as `codecs`, their columns |
| `index` | do the three indexes answer what they were given, also after a reload? | 5 calls; 8 keys, nodes of 1, 2, 3 and 4 children, 3 devices with 4 lists of tags, filters of 5 bits with 2 hashes, after a reload of 3 bits with 1 |
| `pipeline` | do statistics, scans, tablets and Arrow batches keep rows whole? | 3 points over 8 types and about 30 predicates a type, nested up to 5 deep; 4 calls that change something, 5 batches, pages of three points in one mini-block; encodings plain, RLE, Gorilla, delta of delta |
| `default_encodings` | can a query read what was imported, whatever the number of rows? (no) | as `pipeline` |

Why the bounds are enough to be interesting. Five points at a limit of three per page
(the estimate reaches five bytes with the third) give a full page and an open one, a batch
that crosses a page and one that fills it exactly; with two blocks a page, odd pages have
blocks of unequal size; timestamps come in any order and repeat. A refused write needs one
timestamp too many to break a block, and two to reach a batch of refused rows. Three
calls over two devices are the shortest history in which a device is left and comes back;
tablets of three rows overflow a page of two, so every chunk may have a sealed and an
open page. The bounds `MaxGiven`, `MaxBatch`, `MaxGhosts`, `MaxCalls`, `MaxSchemas` are guards of
the actions that issue calls, and nothing else is bounded.

The codecs keep the proportions of the source: a value with all its bits does not fit the payload
of a word, the payload does not fill the word, a float is half of the bit buffer and a double all
of it, a Sprintz group is flushed both full and half full, selectors hold several values, one value and
padding zeros, and the forced packing is reached by eight zeros. A second block of two values is enough
to see what the first one left behind. Sample values are the ends of the range, zero and one in between,
for the XOR codecs bit patterns with many leading zeros, many trailing ones and neither.
In `index` every kind of node is outgrown, keys are prefixes of others, empty and too long, two pairs of tag
and value spell one string, and items share bits. In `pipeline` devices lie apart and next to each
other in a batch, there are nulls in columns and among devices and times, a number too large for its column,
a tablet that is written more than once, a column of delta of delta that is readable until a third point reaches its
mini-block, and one device none of whose columns can be read back. Calls
that change nothing do not count towards `MaxCalls`.

`AlignedTablets` and `LateSchemas` choose the caller. With `AlignedTablets` a tablet has
the columns registered for its device, as in every example of the repository; the code
does not ask for it, and `aligned_writers` shows what happens otherwise. With
`LateSchemas` a device may get schemas while its group is open, which makes the next
record panic (hazards at `writer/file_writer.rs:116` and `:153`); the panic is the code's behaviour and
no text of the repository denies it, so no run turns it on.

What holds. Pages hold exactly the given points, block by block (`PagesHoldGiven`,
`OpenPageHoldsRest`); their headers cover them (`StatsCoverPage`); a page of more than one point
is at most one point past the limit (`PageSizeBound`); a panic in `finish` is always the late
effect of a refused write (`PanicNeedsMismatch`). A file that opens, even after a crash,
holds every point of each device whose chunk writers refused nothing (`OpenedIsComplete`), and
of the others some points in order and no invented one (`NothingInvented`); metadata
entries and chunks correspond one to one (`MetadataAddressesChunks`); the footer finds the
metadata and the dictionary has every name (`FooterFindsMetadata`); what `read` returns is the
beginning of the series (`ReadIsPrefix`), from the cache as well (`CacheIsCoherent`).

Codecs: every block reads back or is refused, and never comes back as other values (`IntegersReadBack`, `XorReadsBack`,
`SprintzReadsBack`, `SeriesReadBack`), but for the values named in the property: Quantized keeps each value that is whole steps above the
smallest, and moves any other by less than a twentieth of a step. The time column never ends early
(`TimesReadBack`), floats never reach the case that breaks doubles (`FloatsNeverSpill`), an encoder
carries nothing from block to block (`ReuseIsClean`, not of Simple8b), and the packing loop terminates (`FlushEnds`).
Indexes: the tree hangs together through every growth (`TreeIsLinked`), finds what was inserted
(`KeysReadBack`) and implements `PrefixMap` (`ImplementsPrefixMap`), so a later key that extends an earlier one
overwrites its value; tag queries are right (`TagsAnswered`) and filters have no false negatives
(`FiltersNeverMiss`).
Pipeline: merged page by page a statistic is still that of its points (`StatisticsDescribe`), a query never skips a
chunk with a matching row, simplified or not (`PruningIsSound`), a scan answers exactly the matching
rows (`ScanReturnsMatching`), a filter and its negation share out the comparable values (`NegationIsOpposite`),
a tablet is the rows it accepted until a cell of a wrong type tears it (`TabletIsRows`), a closed file has
exactly the cells given, and a query answers the first chunk of them or an error (`StoredAsGiven`), a batch is made of the
rows given when no column had a null or may be refused (`RowsExported`), and an iteration meets each device once and ends, whatever is queried in between
(`IterationIsUndisturbed`, `ExportEnds`).

What does not, and is listed under `findings` with its lines: block times, footer totals,
`read` of a device that came back, writers against schemas, the recommended encoding of integers,
Quantized on values off the multiples (and Sprintz on distant ones), and Arrow's default encoding of Int32: a column of
delta of delta that cannot be decoded from its third value on.

Also in the models, without a run of its own:

* `last_device_group_offset` is always the first group's (`writer/io_writer.rs:189`, `Footer`).
* `write_bits` loses the upper bits of a field that does not fit the rest of its buffer: doubles of
  Gorilla and Chimp128 whose difference is wide (`encoding/gorilla.rs:234`); `XorReadsBack` leaves out
  exactly the blocks that `spilled`.
* Simple8b's output vector is never cleared (`encoding/simple8b.rs:293`): every block repeats the ones before.
* `execute_batch` for a device of which nothing can be read answers with the batch of a device behind it
  (`arrow/to_arrow.rs:443`); hence the condition `Readable(asked)` of `IterationIsUndisturbed`.
* The timestamps of a batch are those of its first column. With nulls, other columns have other
  rows: equal lengths make a batch with values at wrong times, others an error (`arrow/to_arrow.rs:161`).
  `RowsExported` asks for devices without nulls. A column that cannot be decoded is passed over
  (`arrow/to_arrow.rs:169`), and the batch is then short of an array.
* A reloaded multi-level filter no longer knows which pages a chunk has, and its chunk level denies every item
  (`index/multi_level_bloom.rs:324`); `FiltersNeverMiss` speaks of that level only before a reload.
  Such a filter makes its new pages for 1000 items at a rate of 0.01 (`index/multi_level_bloom.rs:330`), whatever was
  chosen before: `Chosen` and `Default` are two sizes. No item is missed for that.
* A torn tablet is accepted by `write_tablet`: values move up a row, or the writer panics when it
  reads past the shorter vector.
* A time column in microseconds panics on import; unsigned numbers wrap; Date, Timestamp and String columns can
  be written and not read.
* Scans never skip: `scan.rs` takes `i64::MIN` and `i64::MAX` for a chunk's times. `Not` never prunes.

Fairness. Two runs have a liveness property, each with weak fairness of one action.
`WF_vars(FinishOneWord)` in Codecs: the loop that packs pending words is part of one call of one thread,
which nothing but a panic can leave; `FlushEnds` then says that each round makes progress.
`WF_reader(Advance)` in Pipeline: whoever iterates over a `RecordBatchReader` asks for the next batch until there is
none, as `for` does; queries may come in between for ever and are given no fairness. `ExportEnds` says that
the iteration is not held up by devices with nothing to read or by batches that cannot be made.
Nothing else is fair: the library has no scheduler and no thread of its own that must make progress, and a
caller may stop calling at any time. For the same reason deadlock is not checked: a panicked, closed or bounded
system stops.

Each property of the passing runs has a mutant: an operator next to the definition it
alters, with a plausible bug, under which TLC finds the property violated.

## 4. The proofs

Every theorem below is proved for all values of the constants that the named assumptions
of the modules admit (TLC evaluates those assumptions in the runs): any number of devices, columns,
points and calls, any page limit, any mini-block layout, any hash functions, any predicates and rows. Every
invariant of the runs `chunk_writer`, `timbre_file`, `index` and `pipeline` is a theorem, so are three of those of
`codecs`, and so are the two refinements.

Models and proofs share their definitions. Where a definition could not be reasoned about it was
rewritten and the runs repeated: loops over a vector (the rows of a batch, the pages and
mini-blocks of a byte count, the values of a call of an encoder, the rounds of a flush) are recursive functions over its indices, and `IOWriter` writes down the
bytes of each serialized field, so that the count of `serialize_to` is compared with them and not with itself.

**Induction.** The prover cannot instantiate the library's induction theorems, whose
parameter is an operator. `Induction` restates them with a *set* of numbers: `LeastNumber`
from the well-foundedness of `<`, `InductiveSet` (a set with 0 and each successor holds
every number), and `RecursionDefines` (a recursion over an interval whose step is a function is a
function). Each proof by induction then defines the set of numbers for which its claim holds. This is how the
closed forms of the model's recursive functions are proved: sums, `NonNull`, the loop of a batch call,
`Joined`, paths of the tree, its depth-first order, `Picked`, the loops over chunks, columns and devices.

**Mini-blocks and chunk writers** (`WriterOps_proofs`). `RangesTile`: for any `MiniBlocksPerPage` and
`MinPointsPerMiniBlock` above zero and any positive total, the ranges begin at 0, meet end to start, are not empty and
end at the total. With zero the code divides by zero or indexes an empty slice, hence
`MiniBlockAssumption`. The other lemmas follow the code from the inside out: what `CreateMiniblock` and `FinishedPage`
return (a page that was finished without panic has as many values as timestamps), that
`SealCurrentPage` moves the open page to the end of the pages and leaves everything in
place when it fails, that `PushPoint` and `AppendBatch` extend the open page, then the calls `WriteValue`,
`BatchRow`, `BatchEnd`, `SerializeTo`, and by induction the whole of `WriteBatch`.

**One column** (`ChunkWriter_proofs`). `SpecTypeOK`, `SpecPagesHoldGiven`, `SpecOpenPageHoldsRest`,
`SpecPanicNeedsMismatch`. The inductive invariant `IInv` is

* `TypeOK`;
* `Good`: no cut exceeds the points given, and the sealed pages hold the points between the cuts
  (`PagesHoldGiven`). Without the bound on the cuts a page's points could not be found
  again in `given` after it grows;
* `RestHolds` (`OpenPageHoldsRest`) with the temporary vector of a matching batch, for it is this
  equation that a seal turns into one more page of `PagesHoldGiven`;
* `HasExtremes(batch.acc)`: the times of the temporary vector have a minimum and a maximum
  as soon as there is one, which the batch statistics take;
* outside a batch call there is no temporary vector.

`SpecPanicNeedsMismatch` goes by induction next to `IInv`: `FinishPanics` shows, from `RangesTile`, that
`finish` cannot panic on two vectors of one length, so a panic leaves more timestamps than values.

For what the pages say of themselves there is `FInv`: the open page's statistic spans exactly its points, an open page in step is
below the limit unless it has one point, and the cached estimate is never above the
real one. From it follow `SpecStatsCoverPage` and `SpecPageSizeBound`. `SpecImplementsSeriesLog` is the
refinement: with `IInv` and a first cut of 0, what `ReadChunk` joins from the sealed pages is the given
points up to the last cut, so each action is an append, a seal, a publication or a stutter of `SeriesLog`.

**The file** (`WriterOps_proofs` for the operators of IOWriter, `TimbreFile_proofs`). The invariant `Inv` is

* `Control`: the state is typed, and what the running call may be at each `call.pc`;
* `WritersFine`: each writer is typed, holds whole pages and encodes as its column does;
* `FileInv`: `IOFine` (regions lie end to end, entries and chunks correspond one to one by offset and name, the
  dictionary has every name, `pos` is the end of the stream while nothing but chunks was
  written), `OpenGroups` (the open device has an entry list), `Sections` (how far `close` has come, so
  that a footer in the stream means a complete one) and `Disk` (the file is a prefix of the
  stream, and an open reader has all of it).

`IOFine` holds of the byte counts because `BytesAgree` shows `TotalBytes(w) = StreamBytes(w)` for
every writer, by induction over pages and blocks. From `Inv`: `SpecTypeOK`, `SpecMetadataAddressesChunks` (with a
count of entries by finite-set theorems) and `SpecFooterFindsMetadata`.

Four theorems say more of the caller, in their statements:

* `SpecCacheIsCoherent`: device names have no `:`. The key joins device and
  measurement with that character, and the names `a`, `b:c` and `a:b`, `c` have one key.
  Measurements may contain it. The invariant `CacheFine` (each entry belongs to some pair with that key) needs no
  such hypothesis.
* `SpecPanicNeedsRefusal`: `AlignedTablets` and not `LateSchemas`, as in the run `timbre_file`. The
  invariant `Orderly` adds that the writers of the open group are those of its device's schemas
  (`Aligned`) and that, until a call is refused, every open page has as many values as timestamps
  (`Evenly`). Without the hypotheses the statement is false: see `aligned_writers` and the hazards.
* `SpecOpenedIsComplete`, `SpecNothingInvented`, `SpecReadIsPrefix`: the same, and no tablet names a column twice
  (`DistinctColumns`; MCTimbreFile's tablets satisfy it). With two writers of one name in a tablet the chunks
  of two calls come out as first, first, second, second, which is no order of the caller. Records need no such
  hypothesis: they reach only the first writer of a name. The invariant is `Series`: there is an
  assignment `P` of points to measurements such that the first writer of each name holds `P`
  (`Pending`), and what the stream has of a series, followed by its `P`, is what was offered, or of a
  damaged device a subsequence of it (`Complete`). A crash may lose the writers; then no footer follows, and no
  reader opens.

**Indexes** (`Indexes_proofs`). `InsertIs`: an insert, growing nodes or
replacing a subtree, leaves a `Sound` tree (linked, capacities kept, offsets only at leaves) whose
`Contents` changed by one put of `PrefixMap`. `ReloadKeepsContents`: inserting the leaves in depth-first order
again gives the same contents; this needs that the order enumerates each leaf once
(`PlacesAreTaken`, a count of predecessors). From `TreeInv`: `SpecTreeIsLinked`, `SpecKeysReadBack`, and
the refinement `SpecImplementsPrefixMap`. `TagsInv` (ids number the devices, and a bitmap has exactly the ids
registered with its tag) gives `SpecTagsAnswered`; `FiltersInv` (the bits of every added item are set in its page's
and in the file's filter) gives `SpecFiltersNeverMiss`. With all three, `SpecTypeOK`.

**Queries** (`Query_proofs`). Predicates nest, so both theorems go by induction on the depth (`PredicatesTo`).
`PruningKeepsMatches`: where a chunk's times and bounds cover a point (`CoversRow`) and a predicate is true of it,
`might_match_chunk` is true. Each filter has its lemma; a value filter compares only values of one type other
than NaN, so a bound can be compared with its argument whenever a value could.
`SimplifyKeepsMeaning`: a simplified predicate is a predicate of no greater depth and true of the
same points, so that flattening, dropping a single member and removing a double negation change no answer.

**Statistics, scans and tablets** (`Query_proofs`). `ColumnAssumption` says what a column is queried with and for:
values of its own type, sums that stay finite (`MaxPoints * F64Max < Inf`, for the model's sums of floats are exact),
predicates one level below the bound, so that two can be joined. The invariant `ColumnInv` is

* `Sound`, of the chunk's statistic and of the open page's: typed; as new when it counts nothing; its sum no
  further from zero than its values can bring it, which keeps sums finite; its bounds those it started from or
  tighter, and never NaN;
* their counts add up to the points of `seen`, which are typed and within `MaxPoints`;
* `Describes`, of the two *merged*: count, times, first, last, sum and bounds are those of `seen`. This is the
  statement itself, and `UpdateDescribes` and `MergeUpdates` carry it: an update of the page commutes with the merge
  into the chunk, and a seal moves the page's share over without changing the merged statistic. Infinities and NaN are why
  `Bounds` speaks of a bound as met by a value or still the one of a new statistic.

From it follow `SpecStatisticsDescribe`; `SpecPruningIsSound`, as the merged statistic covers each row and
`PruningKeepsMatches` does the rest, for the simplified query by `SimplifyKeepsMeaning`; `SpecNegationIsOpposite`, operator
by operator (`TimeNegation`, `ValueNegation`); and `SpecScanReturnsMatching`, as a scan's pre-filter sees all of time
and no bounds and so may only skip a chunk without a match.

`TabletAssumption` says only how things are typed: rows and bulks may have any number of cells of any type. The invariant
`TabletInv` (`Holds`) relates the tablet to the rows kept: each column's vector and bits are those rows' cells while
nothing is torn (`Filled`), no vector is longer than the timestamps, no bit is set past them (`Bounded`), and a torn
tablet has a column that is too short, which no later call can fill. From it, `SpecTabletIsRows`.

**From tablets and batches to a file and back** (`Pipeline_proofs`). The writer of `ArrowBridge` is made of the operators
of ChunkOps and IOWriter, so the lemmas of `WriterOps_proofs` serve here too. Those are stated over
two constants of `ChunkState` that `Pipeline` does not use, the points and the names of columns; the theorems take them,
as the assumption `Meant`, to be all times with all integers, and the names that have a type. It fixes what two
constants stand for that no action, state or property of `Pipeline` mentions, and so restricts no behaviour.
`FileAssumption` types the callers' tablets and batches; `EncodingAssumption` gives each series an encoding of `Faithful`. The invariant `PipelineInv` is

* `CountInv`: the points seen and the calls are within their bounds;
* `TabletInv`, above, and `TabletFits`: the tablet has a device and columns of `TABLETS`, and when it is whole as many
  cells in each column as times, so that a write of it reads no cell that is not there;
* `WriterInv`: while the writer has not panicked it is `Ready` (the file is `IOFine` and has no chunk without points; the open
  group's writers hold whole pages, and are those of one of the device's lists of columns); unless the file is lost,
  `Carries`: for every device not damaged and every series, what the file has of it followed by
  what its writer still holds is the points of the accepted rows, and the first chunks of the device's series hold
  the points of one and the same beginning of those rows (`FirstGroup`); closed, no group is open;
* `ReaderInv`: the reader's devices are those of the file, its index is at most one past them, what was yielded is the devices
  before it that can be read, and the last answer is the batch of its device, as the file and the reader's schema
  make it.

`Carries` is kept by a loop within a loop: `WriteStep` for a column, by induction `WriteLoop` for a tablet
(`WriteColumnsHold`), `ImportStep` and `ImportLoop` for the devices of a batch, `FlushLoop` for the chunks of a group.
Between them stands `Represents`: the cells of a tablet's columns are the points of its rows. `TabletRepresents` shows it for a
caller's tablet from `TabletInv`, `BatchRepresents` for a tablet made of a batch, where a slice of a column is the
same as picking its rows (`NumbersExtracted`, `NextToEachOther`) and unsigned numbers wrap (`Converted`).

From `PipelineInv`: `SpecPipelineTypeOK`, `SpecStoredAsGiven`, `SpecRowsExported` and `SpecIterationIsUndisturbed`. The second and
third have the condition `ColumnsAgree` in the property itself: of two lists of columns that a device is
written with, a name is never where the other has another name and the same kind of vector. Without it the
code stores a column under the name of another (`aligned_writers` shows it for `write_record`); the tablets and batches of
MCPipeline satisfy it. `FirstGroup` is there for `SpecRowsExported`: a batch is made of
the first chunks of its series, and only chunks of the same rows make whole rows again. What may be read of a series
depends on its mini-blocks, which the properties do not name: they ask `BlockReads` of the number of points given. `PagesTyped`
says that every chunk in the stream is made of pages that read as points, `BlockIsPart` that a block is no longer than its chunk, and `ShortReads`
that a chunk of few points is therefore read, whatever the layout of its pages. Of a longer series both theorems still say that
a query answers a beginning of it or nothing.

**Encoders** (`Codecs_proofs`). The theorems hold for any widths of a buffer, a byte, a value and its fields, any table of
selectors, any columns and any samples of them within four assumptions: of each column other than strings the samples
are integers, and those of floats are bit patterns of `HalfBits` (`CodecsAssumption`); a half-width value and what is
left of a byte fit the buffer together, and the fields hold the counts they are for (`XorAssumption`); a selector's
values fit the payload, and the last one takes a single value (`SelectorsAssumption`); the thresholds of packing are in
order (`WidthsAssumption`). The bounds need powers of two, which the provers do not have: `PowerDoubles` and
`PowerOfSum` take `2^n` as the number of subsets of `1..n` from the library's theorems on finite sets. An
encoder is treated as a function on its field names (`Shaped`), so that one lemma serves every record. The invariant
`CodecsInv` is

* `TypesInv`: the state is typed, and the block and what was written are those of the open column;
* `FormInv` (`HasForm`): each encoder keeps its fields and what it was made for. Of a half-width type, less than a
  byte is left in the bit buffer (`Clear`); of Gorilla, and of Chimp128 for floats, the last value is a bit pattern, and a
  remembered range of leading and trailing zeros lies within it (`RangeFits`, by `ZerosAround`). This is what bounds
  the next field: `GorillaEncodes` and `ChimpEncodes` show that it is kept and that no write of a field overflows;
* `CleanInv`, of every encoder but Simple8b, which `ReuseIsClean` excepts: an idle or flushed encoder is made new by its reset; one that is encoding equals a new one
  given the same block; delta of delta in the middle of a flush is what the rounds so far leave of a new
  one, and has at most as many values pending as rounds remain (`Drained`). `Alike` relaxes equality for Sprintz, whose predictor
  survives a reset: it is all that differs, and each block of it starts afresh.

From it: `SpecCodecsTypeOK`, `SpecFloatsNeverSpill`, `SpecReuseIsClean`, and `SpecRoundsShorten`, an action property: each
round of a flush takes a value from those pending (`FinishedWordTakes`), also when none fits a
selector. That is the safety half of `FlushEnds`; what is left to TLC is that rounds are taken.

**Model-checked only.**

* `FlushEnds`, `ExportEnds`: liveness, and ENABLED in their fairness.
* `IntegersReadBack`, `TimesReadBack`, `XorReadsBack`, `SprintzReadsBack`, `SeriesReadBack`: that a decoder returns
  the block. A decoder is a fold over what was written, by an operator, and that it inverts an encoder for
  every block is an induction over that data; the library's folds cannot be unfolded without theorems that take an
  operator as parameter, which the provers cannot instantiate. TLC checks them for every block up to its bound.
* The statements that the code does not keep: they are refuted by their runs.

## 5. Not modelled

* **Compression** (`compress/`): calls into third-party crates, no state.
* **Byte stream**, **page writer builder**, **encoding analyzer**: nothing in the write or read path
  uses them, and they keep nothing from call to call.
* Of parts that are modelled: checksums and byte layouts; errors of the operating system in the middle of a
  write (the process may die there instead); `aligned_buffer` and the encoding hints of `arrow/`; the sizing
  formulas of a Bloom filter and `BloomFilter::clear`; the round trip of type numbers; ids of the dictionary and
  the sharing of the interner.

## 6. Plan

Done: the column, the file, codecs, indexes, statistics and queries, tablets and Arrow; the proofs of the
column, the file, the indexes, the statistics, the queries, the tablet, of tablets and batches in a file, and of what
encoders keep. To do: the decoders, as recursive functions and one codec at a time: zigzag and its inverse, runs,
dictionaries and their indices, the predictors of Sprintz.
