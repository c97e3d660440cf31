------------------------------ MODULE FileWriter ------------------------------
(* The high-level writer (writer/file_writer.rs) over the physical file: one    *)
(* open device group at a time, one chunk writer per column of it.  A call is  *)
(* unfolded into the steps between which the process may die: the chunks a     *)
(* flush writes one by one, the group it opens, the points or columns it       *)
(* writes, and the sections of close.  `&mut self` keeps other calls out.      *)
EXTENDS IOWriter, ChunkState

CONSTANTS Devices,        \* names, sequences of characters, as the measurements
          NoDevice,       \* current_device = None
          TypeOf,         \* [Measurements -> types], a column's data type
          Encodes,        \* [Measurements -> BOOLEAN], its encoder takes that type
          SchemaLists,    \* the lists of measurements a caller registers
          RecordShapes,   \* the records: sequences of [m, cell]
          TabletColumns,  \* the column lists of a caller's tablets
          TabletRows,     \* their rows: sequences of sets of null columns
          AlignedTablets, \* TRUE: a tablet has the columns registered for its device
          LateSchemas,    \* TRUE: a device may get schemas while its group is open
          MaxSchemas,     \* bound: schemas of one device
          MaxCalls        \* bound: calls that write or flush

\* The point of measurement m in row r of call n.
NewPoint(m, n, r) == [t |-> n, v |-> [m |-> m, call |-> n, row |-> r]]

ASSUME FileAssumption ==
    /\ NoDevice \notin Devices
    /\ \A m \in Measurements : Len(m) \in Nat
    /\ Encodes \in [Measurements -> BOOLEAN]
    /\ SchemaLists \subseteq Seq(Measurements)
    /\ TabletColumns \subseteq Seq(Measurements)
    /\ \A points \in RecordShapes : Len(points) \in Nat
    /\ \A rows \in TabletRows : Len(rows) \in Nat
    /\ \A m \in Measurements, n \in 1..MaxCalls :
          /\ \A points \in RecordShapes : \A r \in 1..Len(points) : NewPoint(m, n, r) \in Points
          /\ \A rows \in TabletRows : \A r \in 1..Len(rows) : NewPoint(m, n, r) \in Points
    /\ AlignedTablets \in BOOLEAN /\ LateSchemas \in BOOLEAN
    /\ MaxSchemas \in Nat /\ MaxCalls \in Nat

VARIABLES schemas,   \* schemas: per device, the measurements in order registered
          cur,       \* current_device
          writers,   \* current_writers
          io,        \* the IOWriter
          call,      \* the running call
          phase,     \* "open", "closed", "panicked" or "gone" (dropped or killed)
          file,      \* what is on disk once the writer is done with it
          calls,     \* history: calls made; it numbers the points
          offered,   \* history: per device and measurement, the points that
                     \* reached a column, the refused ones of a damaged device too
          damaged,   \* history: devices for which a chunk writer refused a call
          refused    \* history: whether a call returned an error

writerVars == <<schemas, cur, writers, io, call, phase, file, calls, offered, damaged,
                refused>>

NoCall == [op |-> "none", pc |-> "idle", dev |-> NoDevice, group |-> NoDevice,
           input |-> <<>>, next |-> 1]

NewWriters(columns) ==
    [i \in 1..Len(columns) |-> NewChunkWriter(columns[i], Encodes[columns[i]])]

\* The point of measurement m in row r of the current call.
Point(m, r) == NewPoint(m, calls, r)

-------------------------------------------------------------------------------
WriterInit ==
    /\ schemas = [d \in Devices |-> <<>>]
    /\ cur = NoDevice /\ writers = <<>>
    /\ io = NewIOWriter
    /\ call = NoCall
    /\ phase = "open" /\ file = <<>>
    /\ calls = 0 /\ damaged = {} /\ refused = FALSE
    /\ offered = [d \in Devices |-> [m \in Measurements |-> <<>>]]

Idle == phase = "open" /\ call.pc = "idle"

(* register_device and, with a list of one, register_timeseries.  Neither      *)
(* looks for a schema of that name nor touches an open group's writers.        *)
Register(d, list) ==
    /\ Idle
    /\ Len(schemas[d]) + Len(list) <= MaxSchemas
    /\ LateSchemas \/ cur # d
    /\ schemas' = [schemas EXCEPT ![d] = @ \o list]
    /\ UNCHANGED <<cur, writers, io, call, phase, file, calls, offered, damaged, refused>>

(* The process dies: any prefix of what was handed to the buffered file is on  *)
(* disk.  A region cut in two reads as one that is missing.  Dropping the      *)
(* writer without close is the same, with everything on disk.                  *)
Die(fate) ==
    /\ phase' = fate
    /\ \E n \in 0..Len(io'.stream) : file' = SubSeq(io'.stream, 1, n)
    /\ call' = NoCall
    /\ UNCHANGED refused

(* What becomes of the call when a step of it answered `out`: it goes on, it   *)
(* returns the error, or the thread unwinds.  close has consumed the writer,   *)
(* so its error drops it.                                                      *)
Answered(out, goOn) ==
    \/ out = "ok" /\ call' = goOn /\ UNCHANGED <<phase, file, refused>>
    \/ out = "err" /\ call.op # "close"
       /\ call' = NoCall /\ refused' = TRUE /\ UNCHANGED <<phase, file>>
    \/ out = "err" /\ call.op = "close" /\ Die("gone")
    \/ out = "panic" /\ Die("panicked")

Damage(d, out) == damaged' = IF out = "ok" THEN damaged ELSE damaged \cup {d}

At(pc) == phase = "open" /\ call.pc = pc

(* Every call that writes first compares its device with the open group's;     *)
(* current_device is taken, so it is None when the flush of that group fails.    *)
StartWrite(op, d, input) ==
    /\ Idle
    /\ calls < MaxCalls
    /\ calls' = calls + 1
    /\ call' = [op |-> op, dev |-> d, group |-> cur, input |-> input, next |-> 1,
                pc |-> IF cur = d THEN "columns"
                       ELSE IF cur # NoDevice THEN "flush" ELSE "group"]
    /\ cur' = IF cur = d THEN cur ELSE NoDevice
    /\ UNCHANGED <<schemas, writers, io, phase, file, offered, damaged, refused>>

StartRecord(d, points) == StartWrite("record", d, points)

StartTablet(d, columns, rows) ==
    /\ AlignedTablets => columns = schemas[d]
    /\ StartWrite("tablet", d, [columns |-> columns, rows |-> rows])

(* flush and close: close consumes the writer and flushes first.               *)
StartFlush(op) ==
    /\ Idle
    /\ op = "flush" => calls < MaxCalls
    /\ calls' = IF op = "flush" THEN calls + 1 ELSE calls
    /\ LET after == IF op = "flush" THEN "idle" ELSE "dictionary"
       IN  call' = [op |-> op, dev |-> NoDevice, group |-> cur, input |-> <<>>, next |-> 1,
                    pc |-> IF cur = NoDevice THEN after ELSE "flush"]
    /\ cur' = NoDevice
    /\ UNCHANGED <<schemas, writers, io, phase, file, offered, damaged, refused>>

(* One iteration of flush_device.  The loop drains the writers: when a chunk   *)
(* cannot be written, those behind it are dropped with it.                     *)
FlushChunk ==
    /\ At("flush") /\ writers # <<>>
    /\ LET r == WriteChunk(io, call.group, Head(writers))
       IN  /\ io' = r.io
           /\ writers' = IF r.out = "ok" THEN Tail(writers) ELSE <<>>
           /\ Damage(call.group, r.out)
           /\ Answered(r.out, call)
    /\ UNCHANGED <<schemas, cur, calls, offered>>

FlushEnd ==
    /\ At("flush") /\ writers = <<>>
    /\ LET after == CASE call.op = "flush" -> NoCall
                      [] call.op = "close" -> [call EXCEPT !.pc = "dictionary"]
                      [] OTHER             -> [call EXCEPT !.pc = "group"]
       IN  Answered(EndChunkGroup(io, call.group), after)
    /\ UNCHANGED <<schemas, cur, writers, io, calls, offered, damaged>>

(* Mutant: the writers are not rebuilt for the new group.                      *)
OpenGroup_OldWriters ==
    /\ At("group")
    /\ io' = StartChunkGroup(io, call.dev)
    /\ cur' = call.dev
    /\ Answered("ok", [call EXCEPT !.pc = "columns"])
    /\ UNCHANGED <<schemas, writers, calls, offered, damaged>>

(* Opening a group: a record takes the columns registered for the device, a    *)
(* tablet its own.  A record for a device without schemas is refused, and the  *)
(* group stays open with no writers.                                           *)
OpenGroup ==
    /\ At("group")
    /\ io' = StartChunkGroup(io, call.dev)
    /\ cur' = call.dev
    /\ LET columns == IF call.op = "record" THEN schemas[call.dev]
                                            ELSE call.input.columns
           unknown == call.op = "record" /\ columns = <<>>
       IN  /\ Answered(IF unknown THEN "err" ELSE "ok", [call EXCEPT !.pc = "columns"])
           /\ writers' = IF unknown THEN writers ELSE NewWriters(columns)
    /\ UNCHANGED <<schemas, calls, offered, damaged>>

(* Column `col` answered r to the points of measurement m.  After an error the *)
(* earlier points and columns of the call stay written.                        *)
WroteColumn(col, r, m, points) ==
    /\ writers' = [writers EXCEPT ![col] = r.cw]
    /\ offered' = [offered EXCEPT ![call.dev][m] = @ \o points]
    /\ Damage(call.dev, r.out)
    /\ Answered(r.out, [call EXCEPT !.next = @ + 1])

(* One point of write_record.  The column is the first schema of that name;    *)
(* its writer is indexed before the value is looked at, a null's too.          *)
RecordPoint ==
    /\ At("columns") /\ call.op = "record" /\ call.next <= Len(call.input)
    /\ UNCHANGED <<schemas, cur, io, calls>>
    /\ LET point   == call.input[call.next]
           columns == {i \in DOMAIN schemas[call.dev] : schemas[call.dev][i] = point.m}
           col     == Min(columns)
           p       == Point(point.m, call.next)
           matches == point.cell = "ok" /\ TypeOf[point.m] = TypeOf[writers[col].name]
           keep    == UNCHANGED <<writers, offered, damaged>>
       IN  IF columns = {} THEN keep /\ Answered("err", call)
           ELSE IF col > Len(writers) THEN keep /\ Answered("panic", call)
           ELSE IF point.cell = "null"
                THEN keep /\ Answered("ok", [call EXCEPT !.next = @ + 1])
           ELSE WroteColumn(col, WriteValue(writers[col], p, matches), point.m, <<p>>)

(* The rows of column `col` of the running tablet, as write_column_batch       *)
(* passes them on, and the points among them.                                  *)
ColumnRows(col) ==
    [r \in 1..Len(call.input.rows) |->
        [p |-> Point(call.input.columns[col], r), null |-> col \in call.input.rows[r]]]

ColumnPoints(col) == NonNull(ColumnRows(col))

(* One column of write_tablet: writer i takes the tablet's column i, whatever  *)
(* the names of the two.                                                       *)
TabletColumn ==
    /\ At("columns") /\ call.op = "tablet" /\ call.next <= Len(writers)
    /\ UNCHANGED <<schemas, cur, io, calls>>
    /\ LET col     == call.next
           m       == call.input.columns[col]
           matches == TypeOf[m] = TypeOf[writers[col].name]
       IN  IF col > Len(call.input.columns)
           THEN Answered("panic", call) /\ UNCHANGED <<writers, offered, damaged>>
           ELSE WroteColumn(col, WriteBatch(writers[col], ColumnRows(col), matches),
                            m, ColumnPoints(col))

(* The call returns Ok.  Columns a tablet has beyond the writers are dropped   *)
(* without a word; the history counts them, since the caller was told Ok.      *)
ReturnWrite ==
    /\ At("columns")
    /\ IF call.op = "record"
       THEN call.next > Len(call.input) /\ UNCHANGED offered
       ELSE /\ call.next > Len(writers)
            /\ offered' = [offered EXCEPT ![call.dev] = [m \in Measurements |->
                  LET beyond == {i \in call.next..Len(call.input.columns) :
                                    call.input.columns[i] = m}
                  IN  IF beyond = {} THEN @[m] ELSE @[m] \o ColumnPoints(Min(beyond))]]
    /\ Answered("ok", NoCall)
    /\ UNCHANGED <<schemas, cur, writers, io, calls, damaged>>

(* The sections of close, in order.  Seeking back to rewrite the header        *)
(* flushes the buffer first, and the last flush completes the file.            *)
CloseDictionary == /\ At("dictionary")
                   /\ io' = WriteDictionary(io)
                   /\ Answered("ok", [call EXCEPT !.pc = "metadata"])

CloseMetadata == /\ At("metadata")
                 /\ io' = WriteMetadata(io)
                 /\ Answered("ok", [call EXCEPT !.pc = "footer"])

CloseFooter == /\ At("footer")
               /\ io' = WriteFooter(io)
               /\ Answered("ok", [call EXCEPT !.pc = "complete"])

CloseComplete == /\ At("complete")
                 /\ phase' = "closed" /\ file' = io.stream
                 /\ call' = NoCall
                 /\ UNCHANGED <<io, refused>>

Close ==
    /\ CloseDictionary \/ CloseMetadata \/ CloseFooter \/ CloseComplete
    /\ UNCHANGED <<schemas, cur, writers, calls, offered, damaged>>

Crash ==
    /\ phase = "open"
    /\ UNCHANGED <<schemas, cur, writers, io, calls, offered, damaged>>
    /\ Die("gone")

WriterNext ==
    \/ \E d \in Devices :
         \/ \E list \in SchemaLists : Register(d, list)
         \/ \E points \in RecordShapes : StartRecord(d, points)
         \/ \E columns \in TabletColumns, rows \in TabletRows : StartTablet(d, columns, rows)
    \/ \E op \in {"flush", "close"} : StartFlush(op)
    \/ FlushChunk \/ FlushEnd \/ OpenGroup
    \/ RecordPoint \/ TabletColumn \/ ReturnWrite
    \/ Close
    \/ Crash
===============================================================================
