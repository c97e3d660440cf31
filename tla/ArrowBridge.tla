---------------------------- MODULE ArrowBridge -----------------------------
(***************************************************************************)
(* Tablets and Arrow record batches on their way into a file, and batches  *)
(* on their way out (arrow/from_arrow.rs, arrow/to_arrow.rs, and           *)
(* FileWriter::write_tablet between them), as operators on the state of    *)
(* the writer and of the reader.  A call is one step here; FileWriter.tla  *)
(* takes write_tablet apart.                                               *)
(*                                                                         *)
(* A record batch to import is [unit, devices, times, columns]: a sequence *)
(* of devices and one of times, NoDevice and NullTime where they are null, *)
(* and columns [name, type, cells], a cell being <<v>> or <<>>.            *)
(***************************************************************************)
EXTENDS Tablets, IOWriter, Statistics, Picking

CONSTANTS
    NoDevice, NullTime,
    TypeOf, EncodingOf, \* the type and the encoding of the measurement of a name
    PARALLEL_THRESHOLD  \* devices from which all tablets are built first

\* The writer: the physical file, current_device and current_writers.
NewWriter == [io |-> NewIOWriter, cur |-> NoDevice, writers |-> <<>>]

Returned(w, out) == [w |-> w, out |-> out]
-----------------------------------------------------------------------------
(* flush_device: the chunks in order up to the first that fails, and the   *)
(* writers are gone either way.                                            *)
Flushed(r, d) == Returned([io |-> r.io, cur |-> NoDevice, writers |-> <<>>],
                       IF r.out = "ok" THEN EndChunkGroup(r.io, d) ELSE r.out)

FlushDevice(w) ==
    LET Step(acc, cw) == IF acc.out = "ok" THEN WriteChunk(acc.io, w.cur, cw) ELSE acc
        chunks[n \in 0..Len(w.writers)] ==
            IF n = 0 THEN [io |-> w.io, out |-> "ok"] ELSE Step(chunks[n - 1], w.writers[n])
    IN  Flushed(chunks[Len(w.writers)], w.cur)

Flush(w) == IF w.cur = NoDevice THEN Returned(w, "ok") ELSE FlushDevice(w)

(* A new group, with a writer for each of the tablet's columns.            *)
OpenGroup(w, tab) ==
    [io |-> StartChunkGroup(w.io, tab.device), cur |-> tab.device,
     writers |-> [c \in DOMAIN tab.columns |-> NewChunkWriter(tab.columns[c].name, TRUE)]]

(* write_column_batch and the loop it starts.  A row whose bit is clear    *)
(* reads the value of its index, which a shorter vector does not have.     *)
Missing(tab, c) == {r \in DOMAIN tab.timestamps :
                       ~IsNullAt(tab.bitmaps[c], r) /\ r > Len(tab.values[c])}

RowAtIndex(tab, c, r) ==
    [null |-> IsNullAt(tab.bitmaps[c], r),
     p |-> [t |-> tab.timestamps[r],
            v |-> IF r <= Len(tab.values[c]) THEN tab.values[c][r] ELSE Default]]

LoopEnded(b, matches, missing) ==
    IF b.out # "ok" THEN Outcome(b.cw, b.out)
    ELSE IF missing # {} THEN Outcome(b.cw, "panic")
    ELSE BatchEnd(b.cw, b.acc, matches)

WriteColumn(cw, tab, c) ==
    LET missing == Missing(tab, c)
        matches == Matrix(tab.columns[c].type) = Matrix(TypeOf[cw.name])
        reached == IF missing = {} THEN RowCount(tab) ELSE Min(missing) - 1
        rows == [r \in 1..reached |-> RowAtIndex(tab, c, r)]
    IN  LoopEnded(BatchLoop(cw, rows, matches), matches, missing)

ColumnWritten(w, c, r) == Returned([w EXCEPT !.writers[c] = r.cw], r.out)

(* One column after the other, by position: writer c takes column c.       *)
WriteColumns(opened, tab) ==
    LET Step(acc, c) ==
            IF acc.out # "ok" THEN acc
            ELSE IF c > Len(tab.columns) THEN Returned(acc.w, "panic")
            ELSE ColumnWritten(acc.w, c, WriteColumn(acc.w.writers[c], tab, c))
        written[n \in 0..Len(opened.w.writers)] ==
            IF n = 0 THEN opened ELSE Step(written[n - 1], n)
    IN  written[Len(opened.w.writers)]

\* Mutant: the open group is not flushed, its writers are only replaced.
GroupFor_Replaces(w, tab) ==
    IF w.cur = tab.device THEN Returned(w, "ok") ELSE Returned(OpenGroup(w, tab), "ok")

(* The group of the tablet's device: the open one, or after a flush a new. *)
GroupFor(w, tab) ==
    LET Opened(flushed) == IF flushed.out # "ok" THEN flushed
                           ELSE Returned(OpenGroup(flushed.w, tab), "ok")
    IN  IF w.cur = tab.device THEN Returned(w, "ok") ELSE Opened(Flush(w))

(* FileWriter::write_tablet                                                *)
WriteTablet(w, tab) ==
    LET Write(opened) == IF opened.out = "ok" THEN WriteColumns(opened, tab) ELSE opened
    IN  Write(GroupFor(w, tab))
-----------------------------------------------------------------------------
(* From Arrow.  Every Arrow type that has one is given a type of the file, *)
(* but not every column of such a type can be extracted.                   *)

ArrowToTimbre ==
    [Boolean |-> "Boolean", Int8 |-> "Int32", Int16 |-> "Int32", Int32 |-> "Int32",
     UInt8 |-> "Int32", UInt16 |-> "Int32", UInt32 |-> "Int32",
     Int64 |-> "Int64", UInt64 |-> "Int64", Timestamp |-> "Int64",
     Date32 |-> "Int64", Date64 |-> "Int64", Float16 |-> "Float",
     Float32 |-> "Float", Float64 |-> "Double", Utf8 |-> "Text", LargeUtf8 |-> "Text"]

NotExtracted == {"Timestamp", "Date32", "Date64", "Float16", "LargeUtf8"}

(* The times of a batch: Arrow's milliseconds or plain integers, a null    *)
(* time is 0.  A column in another unit is no array of milliseconds.       *)
TimesOutcome(batch) ==
    CASE batch.unit \in {"ms", "int64"} -> "ok"
      [] batch.unit = "us"              -> "panic"
      [] OTHER                          -> "err"

TimesOf(batch) ==
    [i \in DOMAIN batch.times |-> IF batch.times[i] = NullTime THEN 0 ELSE batch.times[i]]

Taken(cells, indices) ==
    [values |-> [i \in DOMAIN indices |->
                    IF cells[indices[i]] = <<>> THEN Default ELSE cells[indices[i]][1]],
     nulls  |-> {i \in DOMAIN indices : cells[indices[i]] = <<>>}]

\* Mutant: one index less is asked of a range.
IsContiguous_LastFree(indices) ==
    /\ Len(indices) > 1
    /\ \A i \in 1..(Len(indices) - 2) : indices[i + 1] = indices[i] + 1

IsContiguous(indices) ==
    /\ Len(indices) > 1
    /\ \A i \in 1..(Len(indices) - 1) : indices[i + 1] = indices[i] + 1

(* The numbers of a device: a slice of the buffer when they are next to    *)
(* each other and the column has no null at all, else one by one.          *)
ExtractNumbers(cells, indices) ==
    IF IsContiguous(indices) /\ \A i \in DOMAIN cells : cells[i] # <<>>
    THEN LET slice == SubSeq(cells, Head(indices), Last(indices))
         IN  [values |-> [i \in DOMAIN slice |-> slice[i][1]], nulls |-> {}]
    ELSE Taken(cells, indices)

\* `as i32` and `as i64` of an unsigned number
Wrapped(v, highest) == IF v > highest THEN v - 2 * (highest + 1) ELSE v

\* A number of an Arrow type as the column it goes to has it.
Converted(type, v) ==
    CASE type = "UInt32" -> Wrapped(v, I32Max) [] type = "UInt64" -> Wrapped(v, I64Max)
      [] OTHER -> v

ExtractUnsigned(cells, indices, type) ==
    LET taken == Taken(cells, indices)
    IN  [taken EXCEPT !.values = [i \in DOMAIN @ |-> Converted(type, @[i])]]

ExtractColumn(column, indices) ==
    CASE column.type \in {"Int32", "Int64", "Float32", "Float64"} ->
            ExtractNumbers(column.cells, indices)
      [] column.type \in {"UInt32", "UInt64"} ->
            ExtractUnsigned(column.cells, indices, column.type)
      [] OTHER -> Taken(column.cells, indices)

\* The rows of a device, in order; those of no device are left out.
RowsOf(batch, d) == Picked([i \in DOMAIN batch.devices |-> i],
                           {i \in DOMAIN batch.devices : batch.devices[i] = d})

\* The columns of the tablets of a batch.
ColumnsOf(batch) ==
    [c \in DOMAIN batch.columns |-> [name |-> batch.columns[c].name,
                                     type |-> ArrowToTimbre[batch.columns[c].type]]]

BuildTablet(batch, d) ==
    LET indices == RowsOf(batch, d)
        columns == ColumnsOf(batch)
        taken == [c \in DOMAIN columns |-> ExtractColumn(batch.columns[c], indices)]
        times == TimesOf(batch)
    IN  [NewTablet(d, columns, Len(indices), FALSE) EXCEPT
            !.timestamps = [i \in DOMAIN indices |-> times[indices[i]]],
            !.values  = [c \in DOMAIN columns |-> taken[c].values],
            !.bitmaps = [c \in DOMAIN columns |->
                            [nulls |-> taken[c].nulls, size |-> Len(indices)]]]

Extractable(batch) ==
    \A c \in DOMAIN batch.columns :
        /\ batch.columns[c].type \in DOMAIN ArrowToTimbre
        /\ batch.columns[c].type \notin NotExtracted

(* write_batch with its devices in the order a hash map gives them: all    *)
(* tablets first when there are many, else each before it is written.      *)
WriteBatchOf(w, batch, order) ==
    LET Step(acc, d) ==
            IF acc.out # "ok" THEN acc
            ELSE IF ~Extractable(batch) THEN Returned(acc.w, "err")
            ELSE WriteTablet(acc.w, BuildTablet(batch, d))
        written[n \in 0..Len(order)] ==
            IF n = 0 THEN Returned(w, "ok") ELSE Step(written[n - 1], order[n])
    IN  IF TimesOutcome(batch) # "ok" THEN Returned(w, TimesOutcome(batch))
        ELSE IF Len(order) >= PARALLEL_THRESHOLD /\ ~Extractable(batch)
             THEN Returned(w, "err")
        ELSE written[Len(order)]
-----------------------------------------------------------------------------
(* To Arrow, over the metadata `groups` of the file in io.                 *)

Unreadable == {"Date", "Timestamp", "String"}

TimbreToArrow ==
    [Boolean |-> "Boolean", Int32 |-> "Int32", Int64 |-> "Int64",
     Float |-> "Float32", Double |-> "Float64", Text |-> "Utf8"]

MeasurementsOf(io, d) == [i \in DOMAIN io.groups[d] |-> io.groups[d][i].name]

(* IOReader::read_chunk: the first chunk of that name.                     *)
FirstChunk(io, d, m) ==
    LET chunks == io.groups[d]
    IN  chunks[Min({i \in DOMAIN chunks : chunks[i].name = m})]

ReadFirst(io, d, m) == ChunkContent(io.stream, FirstChunk(io, d, m))

(* A mini-block of delta of delta is packed for Int64 and unpacked for the *)
(* type of its column: of another type, the third value is an error.       *)
UnpackedAsPacked(m) == EncodingOf[m] # "DeltaOfDelta" \/ TypeOf[m] = "Int64"

BlockReads(m, points) == UnpackedAsPacked(m) \/ points <= 2

(* PageReader decodes pages of six of the types, of the others none, and   *)
(* one mini-block that is refused makes an error of the chunk.             *)
ChunkReads(io, d, m) ==
    LET pages == RegionAt(io.stream, FirstChunk(io, d, m).off).pages
    IN  /\ TypeOf[m] \notin Unreadable
        /\ \/ UnpackedAsPacked(m)
           \/ \A page \in ToSet(pages) : \A block \in ToSet(page.blocks) :
                 BlockReads(m, Len(block.times))

OpenReader(io, order) ==
    LET names == MeasurementsOf(io, order[1])
        convertible == \A i \in DOMAIN names : TypeOf[names[i]] \in DOMAIN TimbreToArrow
    IN  [devices |-> order, index |-> 1,
         ok |-> order # <<>> /\ convertible,
         schema |-> IF convertible
                    THEN [i \in DOMAIN names |-> [name |-> names[i],
                                                  type |-> TimbreToArrow[TypeOf[names[i]]]]]
                    ELSE <<>>]

Decodable(io, d) ==
    LET names == MeasurementsOf(io, d)
    IN  Picked(names, {i \in DOMAIN names : ChunkReads(io, d, names[i])})

\* The arrays of a device: those of the chunks that can be read.
ArraysOf(io, d) ==
    LET names == Decodable(io, d)
    IN  [i \in DOMAIN names |-> [type |-> TimbreToArrow[TypeOf[names[i]]],
                                 points |-> ReadFirst(io, d, names[i])]]

(* RecordBatch::try_new, as far as the reader relies on it: as many arrays *)
(* as fields, each of its field's type and of the first array's length.    *)
BatchFits(schema, arrays) ==
    /\ Len(arrays) = Len(schema)
    /\ \A i \in DOMAIN arrays : /\ arrays[i].type = schema[i].type
                                /\ Len(arrays[i].points) = Len(arrays[1].points)

NoBatch == [kind |-> "none", device |-> NoDevice, rows |-> <<>>]

(* The times are the first array's, the names those of the schema.         *)
BatchOf(schema, d, arrays) ==
    IF ~BatchFits(schema, arrays) THEN [NoBatch EXCEPT !.kind = "err", !.device = d]
    ELSE [kind |-> "batch", device |-> d,
          rows |-> [i \in DOMAIN arrays[1].points |->
                       [t |-> arrays[1].points[i].t,
                        cells |-> [c \in DOMAIN arrays |-> arrays[c].points[i].v]]]]

(* read_next_batch, the index first: devices of which nothing can be read  *)
(* are skipped, and it moves on before the batch is made.                  *)
NextDevice(io, r) ==
    Min({i \in r.index..Len(r.devices) : Decodable(io, r.devices[i]) # <<>>}
            \cup {Len(r.devices) + 1})

\* Mutant: a device of which nothing can be read is not passed.
Advanced_Stays(io, r) ==
    IF Decodable(io, r.devices[r.index]) = <<>> THEN r ELSE [r EXCEPT !.index = @ + 1]

Advanced(io, r) ==
    [r EXCEPT !.index = Smaller(NextDevice(io, r), Len(r.devices)) + 1]

ReadNextBatch(io, r) ==
    LET at == NextDevice(io, r)
        d  == r.devices[at]
    IN  IF at > Len(r.devices) THEN NoBatch ELSE BatchOf(r.schema, d, ArraysOf(io, d))

At(r, d) == [r EXCEPT !.index = CHOOSE i \in DOMAIN r.devices : r.devices[i] = d]

\* Mutant: the index stays where the query left it.
ExecuteBatch_KeepsIndex(io, r, d) ==
    LET batch == ReadNextBatch(io, At(r, d))
    IN  [r |-> Advanced(io, At(r, d)),
         batch |-> IF batch.kind = "none" THEN [NoBatch EXCEPT !.kind = "err"] ELSE batch]

(* QueryBuilder::execute_batch borrows the index and gives it back.  It    *)
(* skips as the iterator does, to the batch of a device behind the asked.  *)
ExecuteBatch(io, r, d) ==
    LET batch == ReadNextBatch(io, At(r, d))
    IN  [r |-> r,
         batch |-> IF batch.kind = "none" THEN [NoBatch EXCEPT !.kind = "err"] ELSE batch]

(* QueryBuilder::execute, the rows of one measurement of a device.         *)
ExecuteColumn(io, d, m) ==
    IF d \in DOMAIN io.groups /\ m \in ToSet(Decodable(io, d))
    THEN [out |-> "ok", rows |-> ReadFirst(io, d, m)]
    ELSE [out |-> "err", rows |-> <<>>]
=============================================================================
