------------------------------ MODULE Pipeline ------------------------------
(***************************************************************************)
(* Rows on their way through the library: a caller's tablet and Arrow      *)
(* batches into a file, the file out again as Arrow batches; and the       *)
(* statistics of a column with the queries that filter it and that would   *)
(* skip it.  The two share no state, so that a behaviour is about one of   *)
(* them, its subject.                                                      *)
(***************************************************************************)
EXTENDS ArrowBridge, Query

CONSTANTS
    TYPES, TIMES, VALUES,   \* types, times, and the values of a type
    PREDICATES,             \* what a column of a type is queried for
    TABLETS,                \* the caller's new tablets
    ROWS, BULKS, BATCHES,   \* rows [t, cells], bulks [times, columns], imports
    MaxPoints, MaxCalls     \* bounds: points of the column, writing calls

(* Times are i64s and values are of their type, sums of them at no limit;  *)
(* two predicates of a query can be joined.                                *)
Numbers ==
    [Boolean |-> {0, 1}, Int32 |-> I32Min..I32Max, Int64 |-> I64Min..I64Max,
     Float |-> (-F32Max)..F32Max \cup {Inf, -Inf, NaN},
     Double |-> (-F64Max)..F64Max \cup {Inf, -Inf, NaN}, String |-> Int]

ASSUME ColumnAssumption ==
    /\ TYPES \subseteq STRING /\ TIMES \subseteq I64Min..I64Max
    /\ \A y \in TYPES : VALUES[y] \subseteq [type : {y}, v : Numbers[Family(y)]]
    /\ MaxPoints \in Nat /\ MaxPoints * F64Max < Inf
    /\ \A y \in TYPES : PREDICATES[Family(y)] \subseteq PredicatesTo[MaxNesting - 1]

(* A tablet starts empty; a row or a bulk may be of any shape.             *)
Cells == {<<>>} \cup [1..1 -> TsValue]

ASSUME TabletAssumption ==
    /\ Default \in Int
    /\ \A x \in TABLETS :
          /\ x = NewTablet(x.device, x.columns, x.max_rows, x.aligned)
          /\ x.columns \in Seq([name : Seq(STRING), type : STRING])
          /\ x.max_rows \in Nat /\ x.aligned \in BOOLEAN
    /\ ROWS \subseteq [t : I64Min..I64Max, cells : Seq(Cells)]
    /\ BULKS \subseteq [times : Seq(I64Min..I64Max), columns : Seq(Seq(Cells))]

Devices == ({t.device : t \in TABLETS} \cup
               UNION {ToSet(b.devices) : b \in BATCHES}) \ {NoDevice}

(* A batch has a device, a time and a cell of each column for its rows, or *)
(* a null; what is written under a name has a type.                        *)
NumberCells == {<<>>} \cup [1..1 -> Int]

ASSUME FileAssumption ==
    /\ MaxCalls \in Nat /\ DOMAIN TypeOf \subseteq Seq(STRING)
    /\ \A x \in TABLETS : /\ x.device # NoDevice
                          /\ \A c \in DOMAIN x.columns : x.columns[c].name \in DOMAIN TypeOf
    /\ \A b \in BATCHES :
          /\ b.devices \in Seq(Devices \cup {NoDevice})
          /\ b.times \in Seq((I64Min..I64Max) \cup {NullTime})
          /\ b.columns \in Seq([name : DOMAIN TypeOf, type : STRING, cells : Seq(NumberCells)])
          /\ Len(b.times) = Len(b.devices)
          /\ \A c \in DOMAIN b.columns : Len(b.columns[c].cells) = Len(b.devices)

(* The encodings whose mini-blocks, unless they are refused, come back     *)
(* whatever their values are, as Codecs has it; and of Int64 delta of      *)
(* delta, as for the times, where no second difference outgrows a word.    *)
Faithful ==
    {"Plain"} \X STRING
    \cup {"Rle"} \X {"Boolean", "Int32", "Int64", "Date", "Timestamp"}
    \cup {"Zigzag"} \X {"Int32", "Int64", "Date", "Timestamp"}
    \cup {"DeltaOfDelta"} \X {"Int32", "Int64", "Date", "Float"}
    \cup {"Gorilla"} \X {"Int32", "Float"}
    \cup {"Chimp128"} \X {"Float"}
    \cup {"Dictionary"} \X {"Text", "String"}

ASSUME EncodingAssumption ==
    /\ DOMAIN EncodingOf = DOMAIN TypeOf
    /\ \A m \in DOMAIN TypeOf : <<EncodingOf[m], TypeOf[m]>> \in Faithful

VARIABLES
    subject,
    type, page, chunk,      \* the column's type, the statistics of its open
                            \*   page and of the pages before it
    seen,                   \* history: the points, [t, value]
    tab, w,                 \* the caller's tablet; the writer
    phase,                  \* "writing", "closed", "reading", "gone", "panicked"
    reader, out,            \* the Arrow reader, and its last answer
    kept, torn,             \* history: the tablet's rows, has it lost a cell
    accepted, damaged,      \* history: rows by device, devices of failed calls
    yielded, asked,         \* history: devices iterated over, the one queried
    calls

statVars == <<type, page, chunk, seen>>
tabletVars == <<tab, kept, torn>>
writerVars == <<w, phase, accepted, damaged>>
readerVars == <<reader, out, yielded, asked>>
vars == <<subject, statVars, tabletVars, writerVars, readerVars, calls>>

NoReader == [devices |-> <<>>, index |-> 1, ok |-> FALSE, schema |-> <<>>]

Init ==
    /\ subject \in {"statistic", "file"}
    /\ type \in IF subject = "statistic" THEN TYPES ELSE {"Boolean"}
    /\ page = StatisticNew(type) /\ chunk = StatisticNew(type) /\ seen = <<>>
    /\ IF subject = "file" THEN tab \in TABLETS
                           ELSE tab = NewTablet(NoDevice, <<>>, 0, FALSE)
    /\ w = NewWriter /\ phase = "writing"
    /\ reader = NoReader /\ out = NoBatch
    /\ kept = <<>> /\ torn = FALSE
    /\ accepted = [d \in Devices |-> <<>>] /\ damaged = {}
    /\ yielded = <<>> /\ asked = NoDevice
    /\ calls = 0
-----------------------------------------------------------------------------
(* The statistics of a column: every value to the open page's, whose       *)
(* statistic is merged into the chunk's when it is sealed.  A call of      *)
(* another family's update changes nothing.                                *)
Observe(t, value) ==
    /\ subject = "statistic" /\ Len(seen) < MaxPoints
    /\ value.type = type \/ Family(value.type) # Family(type)
    /\ page' = StatisticUpdate(type, page, t, value)
    /\ seen' = IF value.type = type
               THEN Append(seen, [t |-> t, value |-> value]) ELSE seen
    /\ UNCHANGED <<subject, type, chunk, tabletVars, writerVars, readerVars, calls>>

(* A batch of values of the column's type.                                 *)
ObserveBatch(points) ==
    /\ subject = "statistic" /\ Len(seen) + Len(points) <= MaxPoints
    /\ page' = StatisticBatch(type, page, points)
    /\ seen' = seen \o points
    /\ UNCHANGED <<subject, type, chunk, tabletVars, writerVars, readerVars, calls>>

SealPage ==
    /\ subject = "statistic" /\ page.base.count > 0
    /\ chunk' = StatisticMerge(type, chunk, page)
    /\ page' = StatisticNew(type)
    /\ UNCHANGED <<subject, type, seen, tabletVars, writerVars, readerVars, calls>>
-----------------------------------------------------------------------------
Writing == subject = "file" /\ phase = "writing"

(* A call of the caller's, of which those that change nothing do not count *)
(* towards the bound.                                                      *)
Call == Writing /\ calls < MaxCalls /\ UNCHANGED <<subject, statVars, readerVars>>
Counted == calls' = IF tab' = tab /\ w' = w THEN calls ELSE calls + 1

(* What a call on the tablet answered; `rows` are those it was for.        *)
TabletAnswered(answer, rows) ==
    /\ tab' = answer.tab
    /\ kept' = IF answer.out = "ok" THEN kept \o rows ELSE kept
    /\ torn' = (torn \/ (answer.out = "err" /\ answer.tab # tab))
    /\ UNCHANGED writerVars

AddOne(row) ==
    /\ Call
    /\ TabletAnswered(AddRow(tab, row.t, row.cells), <<row>>)
    /\ Counted

AddMany(bulk) ==
    /\ Call
    /\ TabletAnswered(AddRowsBulk(tab, bulk.times, bulk.columns),
          [i \in DOMAIN bulk.times |->
              [t |-> bulk.times[i],
               cells |-> [c \in DOMAIN bulk.columns |-> bulk.columns[c][i]]]])
    /\ Counted

ClearTablet ==
    /\ Call
    /\ tab' = Clear(tab) /\ kept' = <<>> /\ torn' = FALSE
    /\ UNCHANGED writerVars
    /\ Counted

(* What a writing call answered, that was for the rows given[d] of each    *)
(* device d.  One that fails halfway may have written some of them, and    *)
(* lost the group that was open before.                                    *)
WriterAnswered(answer, given, hurt) ==
    LET new(d) == IF answer.out = "ok" /\ d \in DOMAIN given THEN given[d] ELSE <<>>
        lost == IF answer.out = "ok" \/ answer.w = w THEN {} ELSE DOMAIN given \cup {w.cur}
    IN  /\ w' = answer.w
        /\ phase' = IF answer.out = "panic" THEN "panicked" ELSE "writing"
        /\ accepted' = [d \in Devices |-> accepted[d] \o new(d)]
        /\ damaged' = damaged \cup hurt \cup (lost \ {NoDevice})

NamesOf(columns) == [c \in DOMAIN columns |-> columns[c].name]

\* A row as the file knows it: its time, and a cell for each name.
RowOf(names, t, cells) ==
    [t |-> t, cells |-> [m \in ToSet(names) |->
        cells[CHOOSE c \in DOMAIN names : names[c] = m]]]

\* The bare numbers of cells that are typed values, and of a batch's row.
NumbersOf(cells) ==
    [c \in DOMAIN cells |-> IF cells[c] = <<>> THEN <<>> ELSE <<cells[c][1].v>>]

CellsAt(batch, i) ==
    LET cell(c) == batch.columns[c].cells[i]
    IN  [c \in DOMAIN batch.columns |->
            IF cell(c) = <<>> THEN <<>>
            ELSE <<Converted(batch.columns[c].type, cell(c)[1])>>]

WriteIt ==
    /\ Call
    /\ LET rows == [i \in DOMAIN kept |->
                       RowOf(NamesOf(tab.columns), kept[i].t, NumbersOf(kept[i].cells))]
       IN  WriterAnswered(WriteTablet(w, tab), Only(tab.device, rows),
                          IF torn THEN {tab.device} ELSE {})
    /\ UNCHANGED tabletVars
    /\ Counted

Import(batch) ==
    LET devices == ToSet(batch.devices) \ {NoDevice}
        Rows(d) == LET indices == RowsOf(batch, d)
                   IN  [i \in DOMAIN indices |->
                          RowOf(NamesOf(batch.columns), TimesOf(batch)[indices[i]],
                                CellsAt(batch, indices[i]))]
    IN  /\ Call
        /\ \E order \in SetToSeqs(devices) :
              WriterAnswered(WriteBatchOf(w, batch, order), [d \in devices |-> Rows(d)], {})
        /\ UNCHANGED tabletVars
        /\ Counted

(* FileWriter::close: a flush that fails drops the file without a footer.  *)
Close ==
    /\ Writing
    /\ LET flushed == Flush(w)
       IN  /\ w' = flushed.w
           /\ phase' = IF flushed.out = "ok" THEN "closed"
                       ELSE IF flushed.out = "panic" THEN "panicked" ELSE "gone"
    /\ UNCHANGED <<subject, statVars, tabletVars, accepted, damaged, readerVars, calls>>
-----------------------------------------------------------------------------
Reading == phase = "reading"
Reads == UNCHANGED <<subject, statVars, tabletVars, w, accepted, damaged, calls>>

(* RecordBatchReader::try_new: the devices in the order of a hash map.     *)
Open ==
    /\ phase = "closed" /\ DOMAIN w.io.groups # {}
    /\ \E order \in SetToSeqs(DOMAIN w.io.groups) : reader' = OpenReader(w.io, order)
    /\ phase' = "reading"
    /\ Reads /\ UNCHANGED <<out, yielded, asked>>

Usable == Reading /\ reader.ok

(* read_next_batch: it moves on, and answers a batch, an error or the end. *)
Advance ==
    /\ Usable /\ reader.index <= Len(reader.devices)
    /\ reader' = Advanced(w.io, reader)

NextBatch ==
    /\ Advance
    /\ out' = ReadNextBatch(w.io, reader)
    /\ yielded' = IF out'.kind = "none" THEN yielded ELSE Append(yielded, out'.device)
    /\ asked' = NoDevice
    /\ Reads /\ UNCHANGED phase

QueryDevice(d) ==
    /\ Usable /\ d \in ToSet(reader.devices)
    /\ LET read == ExecuteBatch(w.io, reader, d)
       IN  reader' = read.r /\ out' = read.batch
    /\ asked' = d
    /\ Reads /\ UNCHANGED <<phase, yielded>>

Next ==
    \/ \E t \in TIMES, v \in UNION {VALUES[y] : y \in TYPES} : Observe(t, v)
    \/ \E n \in 1..(MaxPoints - Len(seen)) :
          \E points \in [1..n -> [t : TIMES, value : VALUES[type]]] : ObserveBatch(points)
    \/ SealPage
    \/ \E row \in ROWS : AddOne(row)
    \/ \E bulk \in BULKS : AddMany(bulk)
    \/ ClearTablet
    \/ WriteIt
    \/ \E batch \in BATCHES : Import(batch)
    \/ Close
    \/ Open
    \/ NextBatch
    \/ \E d \in Devices : QueryDevice(d)

(* Whoever iterates asks for the next batch until there is none.           *)
Spec == Init /\ [][Next]_vars /\ WF_reader(Advance)
-----------------------------------------------------------------------------
(* The tablet has a vector and a bitmap for each column, the writer keeps  *)
(* to the devices there are, and nothing is read before the file is whole. *)
TypeOK ==
    /\ subject \in {"statistic", "file"} /\ type \in TYPES \cup {"Boolean"}
    /\ Len(seen) <= MaxPoints /\ calls \in 0..MaxCalls
    /\ DOMAIN tab.values = DOMAIN tab.columns /\ DOMAIN tab.bitmaps = DOMAIN tab.columns
    /\ RowCount(tab) <= tab.max_rows
    /\ \A c \in DOMAIN tab.columns : tab.bitmaps[c].nulls \subseteq 1..RowCount(tab)
    /\ w.cur \in Devices \cup {NoDevice} /\ DOMAIN w.io.groups \subseteq Devices
    /\ phase \in {"writing", "closed", "reading", "gone", "panicked"}
    /\ reader # NoReader => phase = "reading" /\ w.cur = NoDevice
    /\ out.kind \in {"none", "err", "batch"} /\ damaged \subseteq Devices

\* The sum of numbers, one by one.
Total(real, numbers) ==
    LET sum[n \in 0..Len(numbers)] ==
            IF n = 0 THEN 0
            ELSE IF real THEN FloatAdd(sum[n - 1], numbers[n]) ELSE sum[n - 1] + numbers[n]
    IN  sum[Len(numbers)]

(* Merged page by page or kept in one, a statistic is that of its points:  *)
(* their number and times, the first and the last in the order they came,  *)
(* the sum, and bounds that every value but NaN is within, and that are    *)
(* met unless nothing but NaN and infinities beyond them was seen.         *)
StatisticsDescribe ==
    LET s == StatisticMerge(type, chunk, page)
        stamps == {seen[i].t : i \in DOMAIN seen}
        numbers == [i \in DOMAIN seen |-> seen[i].value.v]
        Plain == ToSet(numbers) \ {NaN}
        Finite == Plain \ {Inf, -Inf}
        real == Family(type) \in {"Float", "Double"}
    IN  seen # <<>> =>
        /\ s.base = [count |-> Len(seen), start |-> Min(stamps), end |-> Max(stamps)]
        /\ s.first = Head(numbers) /\ s.last = Last(numbers)
        /\ Family(type) # "String" => s.sum = Total(real, numbers)
        /\ HasRange(type, s) =>
              /\ \A v \in Plain : s.min <= v /\ v <= s.max
              /\ Finite # {} => s.min = Min(Plain) /\ s.max = Max(Plain)

Column == "x"
Row(i) == Only(Column, <<seen[i].value>>)

(* A chunk is never skipped that has a row the query is for: neither by    *)
(* its times nor by the bounds of its values, with values the filter does  *)
(* not compare with, NaN among them, and for a query that was simplified.  *)
PruningIsSound ==
    LET s == StatisticMerge(type, chunk, page)
        Might(p) == MightMatchChunk(p, <<s.base.start, s.base.end>>,
                                    Only(Column, [type |-> type, stat |-> s]))
    IN  \A p \in PREDICATES[Family(type)] :
            (\E i \in DOMAIN seen : Evaluate(p, seen[i].t, Row(i)))
            => Might(p) /\ Might(Simplify(p))

(* A scan answers exactly the rows that all of its predicates are true of, *)
(* in their order, however they are nested; so does a range of times.      *)
ScanReturnsMatching ==
    LET stored == [name |-> Column, type |-> type,
                   points |-> [i \in DOMAIN seen |->
                                  [t |-> seen[i].t, v |-> seen[i].value.v]]]
        Matching(ps) == Picked(stored.points,
            {i \in DOMAIN seen : \A k \in DOMAIN ps : Evaluate(ps[k], seen[i].t, Row(i))})
        P == PREDICATES[Family(type)]
        Nested == {p \in P : p.kind \in {"And", "Or"}}
    IN  subject = "statistic" /\ type \notin Unreadable =>
        /\ \A p \in P : ExecuteScan(stored, <<p>>).points = Matching(<<p>>)
        /\ \A p \in Nested, q \in Nested :
              ExecuteScan(stored, <<p, q>>).points = Matching(<<p, q>>)
        /\ \A lo \in TIMES, hi \in TIMES :
              FilterTimeRange(stored, lo, hi).points =
                 Matching(<<TimeFilter("Between", <<lo, hi>>)>>)

(* A filter and its negation share out the values that compare with the    *)
(* filter's own: exactly one of them holds.  No value but null satisfies   *)
(* both, and a null satisfies neither, unless it is asked for.  Intervals  *)
(* have no negation.                                                       *)
NegationIsOpposite ==
    \A p \in PREDICATES[Family(type)], i \in DOMAIN seen :
        LET f == p.filter
            val == seen[i].value
        IN  /\ p.kind = "Time" /\ f.op # "Between" =>
                  TimeMatches(NegateTime(f), seen[i].t) = ~TimeMatches(f, seen[i].t)
            /\ p.kind = "Value" =>
                  LET opposite == NegateValue(f)
                  IN  /\ ~(ValueMatches(f, <<val>>) /\ ValueMatches(opposite, <<val>>))
                      /\ (\A k \in DOMAIN f.args : Comparable(val, f.args[k])) =>
                            (ValueMatches(f, <<val>>) \/ ValueMatches(opposite, <<val>>))
                      /\ f.op \in Operators =>
                            ~ValueMatches(f, <<>>) /\ ~ValueMatches(opposite, <<>>)

(* A tablet holds the rows of the calls that succeeded since it was        *)
(* cleared and nothing of the others, nulls where they were given.  Only   *)
(* a cell of a wrong type, found when the timestamp is in, leaves a        *)
(* column short of a value, and until clear nothing makes up for it.       *)
TabletIsRows ==
    LET cells(c) == [i \in DOMAIN kept |-> kept[i].cells[c]]
        rows == DOMAIN tab.timestamps
    IN  /\ torn <=> (\E c \in DOMAIN tab.columns : Len(tab.values[c]) # RowCount(tab))
        /\ ~torn =>
              /\ tab.timestamps = [i \in DOMAIN kept |-> kept[i].t]
              /\ \A c \in DOMAIN tab.columns, i \in rows :
                    IF cells(c)[i] = <<>> THEN IsNullAt(tab.bitmaps[c], i)
                    ELSE /\ ~IsNullAt(tab.bitmaps[c], i)
                         /\ tab.values[c][i] = cells(c)[i][1].v

(* Columns go to the writers of the open group by their places, whatever   *)
(* their names.  A caller that means names keeps to lists of columns, for  *)
(* each device, that differ in a place by the vector of its type as well.  *)
ColumnLists(d) ==
    {x.columns : x \in {x \in TABLETS : x.device = d}} \cup
    {ColumnsOf(b) : b \in {b \in BATCHES : /\ d \in ToSet(b.devices)
                                          /\ TimesOutcome(b) = "ok" /\ Extractable(b)}}

Agree(A, B) ==
    /\ Len(A) = Len(B)
    /\ \A i, j \in DOMAIN A : A[i].name = A[j].name => i = j
    /\ \A i \in DOMAIN A : A[i].name # B[i].name =>
          Matrix(TypeOf[A[i].name]) # Matrix(B[i].type)

ColumnsAgree == \A d \in Devices : \A A, B \in ColumnLists(d) : Agree(A, B)

\* The points of a series m in rows.
PointsOf(m, rows) ==
    Joined([i \in 1..Len(rows) |-> LET r == rows[i] IN
        IF m \in DOMAIN r.cells /\ r.cells[m] # <<>>
        THEN <<[t |-> r.t, v |-> r.cells[m][1]]>> ELSE <<>>])

Given(d, m) == PointsOf(m, accepted[d])

(* A file that was closed has, in the chunks of each series, the cells of  *)
(* the rows that were accepted for it and no others, in order and at their *)
(* times: from tablets that were used again and batches that mix devices,  *)
(* for every device that no call failed for.  A query for one series gets  *)
(* the first of them or nothing, whatever the nulls in the series beside   *)
(* it: and it does get some of a type that can be read, unless there are   *)
(* so many that a mini-block of them may be refused.                       *)
StoredAsGiven ==
    ColumnsAgree /\ phase = "closed" =>
        \A d \in Devices \ damaged, m \in DOMAIN TypeOf :
            LET read == ExecuteColumn(w.io, d, m)
            IN  /\ Content(w.io.groups, w.io.stream, d, m) = Given(d, m)
                /\ IsPrefix(read.rows, Given(d, m))
                /\ read.rows # <<>> => TypeOf[m] \notin Unreadable
                /\ /\ Given(d, m) # <<>> /\ TypeOf[m] \notin Unreadable
                   /\ BlockReads(m, Len(Given(d, m)))
                   => read.rows # <<>>

(* What is imported can be read: the module is a conversion both ways that *)
(* selects encodings itself, and a query for a series of a type that has   *)
(* an Arrow type answers some of it, however many rows there were.         *)
ImportsComeBack ==
    ColumnsAgree /\ phase = "closed" =>
        \A d \in Devices \ damaged, m \in DOMAIN TypeOf :
            Given(d, m) # <<>> /\ TypeOf[m] \in DOMAIN TimbreToArrow =>
                ExecuteColumn(w.io, d, m).rows # <<>>

Readable(d) == Decodable(w.io, d) # <<>>

(* A batch has whole rows: for a device of whose rows none had a null, and *)
(* whose columns are those of the file's first device and not so long that *)
(* a mini-block of them may be refused, the batch is made, and is the rows *)
(* first accepted for it.                                                  *)
RowsExported ==
    LET d == out.device
        names == MeasurementsOf(w.io, d)
        dense == \A i \in DOMAIN accepted[d] : LET r == accepted[d][i] IN
                    \A m \in ToSet(names) : m \in DOMAIN r.cells /\ r.cells[m] # <<>>
        fields == [c \in DOMAIN names |->
                      [name |-> names[c], type |-> TimbreToArrow[TypeOf[names[c]]]]]
        Exported(r) == [t |-> r.t, cells |-> [c \in DOMAIN names |-> r.cells[names[c]][1]]]
        readable == \A i \in DOMAIN names :
                       /\ TypeOf[names[i]] \notin Unreadable
                       /\ BlockReads(names[i], Len(accepted[d]))
    IN  ColumnsAgree /\ out.kind # "none" /\ d \notin damaged \cup {NoDevice}
            /\ dense /\ readable /\ reader.schema = fields
        => /\ out.kind = "batch"
           /\ Len(out.rows) <= Len(accepted[d])
           /\ \A i \in DOMAIN out.rows : out.rows[i] = Exported(accepted[d][i])

(* Queries in between do not disturb an iteration: it has met every device *)
(* up to where it stands that something can be read of, once and in order. *)
(* And a query for such a device is answered with that device.             *)
IterationIsUndisturbed ==
    reader.ok =>
        LET passed == SubSeq(reader.devices, 1,
                             Smaller(reader.index - 1, Len(reader.devices)))
        IN  /\ yielded = Picked(passed, {i \in DOMAIN passed : Readable(passed[i])})
            /\ asked # NoDevice /\ Readable(asked) =>
                  out.device = asked /\ out.kind \in {"batch", "err"}

(* An iteration comes to its end, whatever the batches in between: one     *)
(* that cannot be made is passed over.                                     *)
ExportEnds == reader.ok ~> reader.index > Len(reader.devices)
=============================================================================
