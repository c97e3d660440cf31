--------------------------- MODULE TimbreFile_proofs ---------------------------
(* What a timbre file promises, for every set of devices, columns, points,     *)
(* schemas, records and tablets and every page size.                           *)
EXTENDS TimbreFile, WriterOps_proofs

-------------------------------------------------------------------------------
(* The control of the writer.                                                  *)
Tablets == [columns : TabletColumns, rows : TabletRows]

Ops == {"none", "record", "tablet", "flush", "close"}
Pcs == {"idle", "flush", "group", "columns", "dictionary", "metadata", "footer", "complete"}

Calls == [op : Ops, pc : Pcs,
          dev : Devices \cup {NoDevice}, group : Devices \cup {NoDevice},
          input : RecordShapes \cup {<<>>} \cup Tablets, next : Nat \ {0}]

CallFine ==
    /\ call \in Calls
    /\ call.op = "record" => call.input \in RecordShapes
    /\ call.op = "tablet" => call.input \in Tablets
    /\ call.op \in {"record", "tablet"} => call.dev \in Devices /\ calls \in 1..MaxCalls
    /\ call.pc \in {"group", "columns"} => call.op \in {"record", "tablet"}
    /\ call.pc \in {"dictionary", "metadata", "footer", "complete"} => call.op = "close"
    /\ call.pc = "flush" => call.op # "none" /\ call.group \in Devices
    /\ call.pc = "columns" => cur = call.dev
    /\ call.pc \notin {"idle", "columns"} => cur = NoDevice

Control ==
    /\ schemas \in [Devices -> Seq(Measurements)]
    /\ cur \in Devices \cup {NoDevice}
    /\ phase \in {"open", "closed", "panicked", "gone"}
    /\ calls \in 0..MaxCalls
    /\ damaged \subseteq Devices
    /\ refused \in BOOLEAN
    /\ opened \in BOOLEAN
    /\ opened => phase # "open"
    /\ offered \in [Devices -> [Measurements -> Seq(Points)]]
    /\ CallFine
    /\ phase # "open" => call = NoCall
    /\ phase = "open" /\ cur = NoDevice /\ call.pc # "flush" => writers = <<>>

LEMMA NoCallTyped == NoCall \in Calls
  BY DEF NoCall, Calls, Ops, Pcs

LEMMA CallFields ==
    ASSUME call \in Calls
    PROVE  /\ call.op \in Ops /\ call.pc \in Pcs /\ call.next \in Nat \ {0}
           /\ call.dev \in Devices \cup {NoDevice} /\ call.group \in Devices \cup {NoDevice}
           /\ \A pc \in Pcs : LET c == [call EXCEPT !.pc = pc]
                              IN  /\ c \in Calls /\ c.pc = pc /\ c.op = call.op
                                  /\ c.dev = call.dev /\ c.input = call.input
                                  /\ c.group = call.group /\ c.next = call.next
           /\ LET c == [call EXCEPT !.next = @ + 1]
              IN  /\ c \in Calls /\ c.pc = call.pc /\ c.op = call.op
                  /\ c.dev = call.dev /\ c.input = call.input
                  /\ c.group = call.group /\ c.next = call.next + 1
<1>1. /\ call.op \in Ops /\ call.pc \in Pcs /\ call.next \in Nat \ {0}
      /\ call.dev \in Devices \cup {NoDevice} /\ call.group \in Devices \cup {NoDevice}
  BY DEF Calls
<1>2. ASSUME NEW pc \in Pcs
      PROVE  LET c == [call EXCEPT !.pc = pc]
             IN  /\ c \in Calls /\ c.pc = pc /\ c.op = call.op
                 /\ c.dev = call.dev /\ c.input = call.input
                 /\ c.group = call.group /\ c.next = call.next
  BY DEF Calls
<1>3. LET c == [call EXCEPT !.next = @ + 1]
      IN  /\ c \in Calls /\ c.pc = call.pc /\ c.op = call.op
          /\ c.dev = call.dev /\ c.input = call.input
          /\ c.group = call.group /\ c.next = call.next + 1
  BY DEF Calls
<1> QED BY <1>1, <1>2, <1>3

(* The points of a call, and the rows of a tablet's column.                    *)
LEMMA RecordPoints ==
    ASSUME calls \in 1..MaxCalls, NEW points \in RecordShapes, NEW r \in 1..Len(points),
           NEW m \in Measurements
    PROVE  Point(m, r) \in Points
  BY FileAssumption DEF Point

LEMMA TabletRowsAre ==
    ASSUME calls \in 1..MaxCalls, call.input \in Tablets,
           NEW col \in 1..Len(call.input.columns)
    PROVE  /\ call.input.columns \in Seq(Measurements)
           /\ call.input.columns[col] \in Measurements
           /\ AreRows(ColumnRows(col))
           /\ ColumnPoints(col) \in Seq(Points)
<1>1. call.input.columns \in TabletColumns /\ call.input.rows \in TabletRows
  BY DEF Tablets
<1>2. PICK columns \in Seq(Measurements) : columns = call.input.columns
  BY <1>1, FileAssumption
<1>3. call.input.columns[col] \in Measurements
  BY <1>2
<1>4. PICK n \in Nat : n = Len(call.input.rows)
  BY <1>1, FileAssumption
<1>5. \A r \in 1..n : Point(call.input.columns[col], r) \in Points
  BY <1>1, <1>3, <1>4, FileAssumption DEF Point
<1>6. /\ Len(ColumnRows(col)) = n
      /\ \A r \in 1..n : ColumnRows(col)[r].p = Point(call.input.columns[col], r)
  <2> DEFINE row(r) == [p |-> Point(call.input.columns[col], r),
                        null |-> col \in call.input.rows[r]]
  <2>1. ColumnRows(col) = [r \in 1..n |-> row(r)]
    BY <1>4 DEF ColumnRows
  <2>2. \A r \in 1..n : row(r).p = Point(call.input.columns[col], r)
    OBVIOUS
  <2> HIDE DEF row
  <2> QED BY <2>1, <2>2
<1>7. AreRows(ColumnRows(col))
  BY <1>5, <1>6 DEF AreRows, IsRow
<1>8. NonNull(ColumnRows(col)) \in Seq(Points)
  <2>1. PICK kept \in [0..Len(ColumnRows(col)) -> Seq(Points)] :
            NonNull(ColumnRows(col)) = kept[Len(ColumnRows(col))]
    BY <1>7, KeptRecursion
  <2> QED BY <1>6, <2>1
<1> QED BY <1>2, <1>3, <1>7, <1>8 DEF ColumnPoints

(* The least element of a set of numbers is one of it.                         *)
LEMMA MinIsLeast ==
    ASSUME NEW S \in SUBSET Nat, S # {}
    PROVE  Min(S) \in S /\ \A x \in S : Min(S) <= x
<1>1. PICK x \in S : \A y \in S : x <= y
  BY LeastNumber
<1> QED BY <1>1 DEF Min

THEOREM ControlInit == Init => Control
<1> SUFFICES ASSUME Init PROVE Control
  OBVIOUS
<1>1. WriterInit /\ opened = FALSE
  BY DEF Init
<1>2. <<>> \in Seq(Measurements) /\ <<>> \in Seq(Points) /\ 0 \in 0..MaxCalls
  BY FileAssumption
<1>3. /\ schemas \in [Devices -> Seq(Measurements)]
      /\ offered \in [Devices -> [Measurements -> Seq(Points)]]
  BY <1>1, <1>2 DEF WriterInit
<1>4. CallFine
  BY <1>1, NoCallTyped DEF WriterInit, CallFine, NoCall
<1> QED BY <1>1, <1>2, <1>3, <1>4 DEF WriterInit, Control

(* The outcome of a step of a call: it goes on, fails, or the writer is gone.  *)
LEMMA AnsweredIs ==
    ASSUME NEW out, NEW goOn, Answered(out, goOn), phase = "open"
    PROVE  \/ /\ out = "ok" /\ call' = goOn /\ phase' = "open" /\ refused' = refused
              /\ file' = file
           \/ /\ out = "err" /\ call.op # "close" /\ call' = NoCall /\ phase' = "open"
              /\ refused' = TRUE /\ file' = file
           \/ /\ out \in {"err", "panic"} /\ call' = NoCall /\ refused' = refused
              /\ out = "err" => call.op = "close"
              /\ phase' = IF out = "panic" THEN "panicked" ELSE "gone"
              /\ \E n \in 0..Len(io'.stream) : file' = SubSeq(io'.stream, 1, n)
  BY DEF Answered, Die

(* What a step of a call has to keep of the control.                           *)
LEMMA ControlAfter ==
    ASSUME Control, phase = "open", schemas' = schemas, calls' = calls, opened' = opened,
           cur' \in Devices \cup {NoDevice}, damaged' \subseteq Devices,
           offered' \in [Devices -> [Measurements -> Seq(Points)]],
           NEW out, NEW goOn, Answered(out, goOn),
           out = "ok" /\ call' = goOn => CallFine',
           cur' = NoDevice /\ ~(out = "ok" /\ goOn.pc = "flush") => writers' = <<>>
    PROVE  Control'
<1>1. /\ schemas' \in [Devices -> Seq(Measurements)] /\ calls' \in 0..MaxCalls
      /\ opened' = FALSE /\ refused \in BOOLEAN
  BY DEF Control
<1>2. CASE out = "ok" /\ call' = goOn /\ phase' = "open" /\ refused' = refused
  BY <1>1, <1>2 DEF Control
<1>3. CASE call' = NoCall /\ phase' \in {"open", "panicked", "gone"} /\ refused' \in BOOLEAN
           /\ ~(out = "ok")
  <2>1. CallFine'
    BY <1>3, NoCallTyped DEF CallFine, NoCall
  <2>2. NoCall.pc # "flush"
    BY DEF NoCall
  <2> QED BY <1>1, <1>3, <2>1, <2>2 DEF Control
<1> QED BY <1>1, <1>2, <1>3, AnsweredIs

LEMMA ControlRegister ==
    ASSUME Control, NEW d \in Devices, NEW list \in SchemaLists, Register(d, list),
           opened' = opened
    PROVE  Control'
<1>1. list \in Seq(Measurements) /\ schemas[d] \in Seq(Measurements)
  BY FileAssumption DEF Control
<1>2. schemas[d] \o list \in Seq(Measurements)
  BY <1>1, ConcatParts
<1>3. schemas' \in [Devices -> Seq(Measurements)]
  BY <1>2 DEF Control, Register
<1>4. CallFine'
  BY DEF Control, CallFine, Register
<1> QED BY <1>3, <1>4 DEF Control, Register

LEMMA ControlStartWrite ==
    ASSUME Control, NEW op, NEW d \in Devices, NEW input, StartWrite(op, d, input),
           \/ op = "record" /\ input \in RecordShapes
           \/ op = "tablet" /\ input \in Tablets,
           opened' = opened
    PROVE  Control'
<1>1. /\ Idle /\ calls < MaxCalls /\ calls' = calls + 1
      /\ call' = [op |-> op, dev |-> d, group |-> cur, input |-> input, next |-> 1,
                  pc |-> IF cur = d THEN "columns"
                         ELSE IF cur # NoDevice THEN "flush" ELSE "group"]
      /\ cur' = IF cur = d THEN cur ELSE NoDevice
      /\ UNCHANGED <<schemas, writers, io, phase, file, offered, damaged, refused>>
  BY DEF StartWrite
<1>2. calls' \in 1..MaxCalls
  BY <1>1, FileAssumption DEF Control
<1>3. /\ cur \in Devices \cup {NoDevice} /\ d # NoDevice
      /\ phase = "open" /\ call.pc = "idle"
  BY <1>1, FileAssumption DEF Control, Idle
<1>4. call' \in Calls
  BY <1>1, <1>3 DEF Calls, Ops, Pcs
<1>5. /\ call'.op = op /\ call'.dev = d /\ call'.group = cur /\ call'.input = input
      /\ call'.pc = IF cur = d THEN "columns" ELSE IF cur # NoDevice THEN "flush" ELSE "group"
  BY <1>1
<1>6. CallFine'
  <2>1. op # "none"
    OBVIOUS
  <2> QED BY <1>1, <1>2, <1>3, <1>4, <1>5, <2>1 DEF CallFine
<1>7. phase' = "open" /\ cur' = NoDevice /\ call'.pc # "flush" => writers' = <<>>
  <2>1. cur' = NoDevice /\ call'.pc # "flush" => cur = NoDevice
    BY <1>1, <1>3, <1>5
  <2>2. cur = NoDevice => writers = <<>>
    BY <1>3 DEF Control
  <2> QED BY <1>1, <2>1, <2>2
<1>8. calls' \in 0..MaxCalls
  BY <1>2
<1>9. cur' \in Devices \cup {NoDevice}
  BY <1>1, <1>3
<1> QED BY <1>1, <1>3, <1>6, <1>7, <1>8, <1>9 DEF Control

LEMMA ControlStartFlush ==
    ASSUME Control, NEW op \in {"flush", "close"}, StartFlush(op), opened' = opened
    PROVE  Control'
<1> DEFINE after == IF op = "flush" THEN "idle" ELSE "dictionary"
<1>1. /\ Idle
      /\ op = "flush" => calls < MaxCalls
      /\ calls' = IF op = "flush" THEN calls + 1 ELSE calls
      /\ call' = [op |-> op, dev |-> NoDevice, group |-> cur, input |-> <<>>, next |-> 1,
                  pc |-> IF cur = NoDevice THEN after ELSE "flush"]
      /\ cur' = NoDevice
      /\ UNCHANGED <<schemas, writers, io, phase, file, offered, damaged, refused>>
  BY DEF StartFlush
<1>2. /\ cur \in Devices \cup {NoDevice} /\ phase = "open" /\ call.pc = "idle"
      /\ calls' \in 0..MaxCalls
  BY <1>1, FileAssumption DEF Control, Idle
<1>3. call' \in Calls
  BY <1>1, <1>2 DEF Calls, Ops, Pcs
<1>4. /\ call'.op = op /\ call'.group = cur
      /\ call'.pc = IF cur = NoDevice THEN after ELSE "flush"
  BY <1>1
<1>5. CallFine'
  BY <1>1, <1>2, <1>3, <1>4 DEF CallFine
<1>6. call'.pc # "flush" => writers' = <<>>
  <2>1. cur = NoDevice => writers = <<>>
    BY <1>2 DEF Control
  <2> QED BY <1>1, <1>4, <2>1
<1> QED BY <1>1, <1>2, <1>5, <1>6 DEF Control

LEMMA ControlFlushChunk ==
    ASSUME Control, FlushChunk, opened' = opened
    PROVE  Control'
<1> DEFINE r == WriteChunk(io, call.group, Head(writers))
<1>1. /\ phase = "open" /\ call.pc = "flush"
      /\ writers' = IF r.out = "ok" THEN Tail(writers) ELSE <<>>
      /\ Damage(call.group, r.out) /\ Answered(r.out, call)
      /\ UNCHANGED <<schemas, cur, calls, offered>>
  BY DEF FlushChunk, At
<1> HIDE DEF r
<1>2. CallFine /\ call.group \in Devices
  BY <1>1 DEF Control, CallFine
<1>3. damaged' \subseteq Devices
  BY <1>1, <1>2 DEF Control, Damage
<1>4. call' = call => CallFine'
  BY <1>1, <1>2 DEF CallFine
<1> QED BY <1>1, <1>3, <1>4, ControlAfter DEF Control

LEMMA ControlFlushEnd ==
    ASSUME Control, FlushEnd, opened' = opened
    PROVE  Control'
<1> DEFINE after == CASE call.op = "flush" -> NoCall
                      [] call.op = "close" -> [call EXCEPT !.pc = "dictionary"]
                      [] OTHER             -> [call EXCEPT !.pc = "group"]
           out == EndChunkGroup(io, call.group)
<1>1. /\ phase = "open" /\ call.pc = "flush" /\ writers = <<>>
      /\ Answered(out, after)
      /\ UNCHANGED <<schemas, cur, writers, io, calls, offered, damaged>>
  BY DEF FlushEnd, At
<1>2. /\ CallFine /\ call \in Calls /\ call.op \in Ops \ {"none"} /\ cur = NoDevice
  BY <1>1 DEF Control, CallFine, Calls
<1>3. CASE call.op = "flush"
  <2>1. after = NoCall
    BY <1>3
  <2> HIDE DEF after
  <2>2. call' = after => CallFine'
    <3>1. /\ NoCall.op = "none" /\ NoCall.pc = "idle" /\ NoCall \in Calls
      BY NoCallTyped DEF NoCall
    <3>2. cur' = NoDevice
      BY <1>1, <1>2
    <3> QED BY <2>1, <3>1, <3>2 DEF CallFine
  <2> QED BY <1>1, <2>2, ControlAfter DEF Control
<1>4. CASE call.op # "flush"
  <2> DEFINE pc == IF call.op = "close" THEN "dictionary" ELSE "group"
  <2>1. after = [call EXCEPT !.pc = pc]
    BY <1>4
  <2>2. pc \in Pcs
    BY DEF Pcs
  <2>3. /\ after \in Calls /\ after.pc = pc /\ after.op = call.op
        /\ after.dev = call.dev /\ after.input = call.input
    <3>1. PICK q \in Pcs : q = pc
      BY <2>2
    <3>2. after = [call EXCEPT !.pc = q]
      BY <2>1, <3>1
    <3> HIDE DEF after, pc
    <3> QED BY <1>2, <3>1, <3>2, CallFields
  <2> HIDE DEF after
  <2>4. call' = after => CallFine'
    <3> SUFFICES ASSUME call' = after PROVE CallFine'
      OBVIOUS
    <3>1. /\ call' \in Calls /\ call'.pc = pc /\ call'.op = call.op
          /\ call'.dev = call.dev /\ call'.input = call.input
      BY <2>3
    <3>2. pc = IF call.op = "close" THEN "dictionary" ELSE "group"
      OBVIOUS
    <3> HIDE DEF pc
    <3>3. cur' = NoDevice /\ calls' = calls
      BY <1>1, <1>2
    <3>4. call.op \in {"record", "tablet", "close"}
      BY <1>2, <1>4 DEF Ops
    <3> QED BY <1>2, <3>1, <3>2, <3>3, <3>4 DEF CallFine
  <2> QED BY <1>1, <2>4, ControlAfter DEF Control
<1> QED BY <1>3, <1>4

LEMMA ControlOpenGroup ==
    ASSUME Control, OpenGroup, opened' = opened
    PROVE  Control'
<1> DEFINE columns == IF call.op = "record" THEN schemas[call.dev] ELSE call.input.columns
           unknown == call.op = "record" /\ columns = <<>>
           out == IF unknown THEN "err" ELSE "ok"
           goOn == [call EXCEPT !.pc = "columns"]
<1>1. /\ phase = "open" /\ call.pc = "group" /\ cur' = call.dev /\ Answered(out, goOn)
      /\ UNCHANGED <<schemas, calls, offered, damaged>>
  BY DEF OpenGroup, At
<1>2. /\ CallFine /\ call \in Calls /\ call.dev \in Devices
  BY <1>1 DEF Control, CallFine
<1>3. /\ goOn \in Calls /\ goOn.pc = "columns" /\ goOn.op = call.op
      /\ goOn.dev = call.dev /\ goOn.input = call.input
  <2>1. "columns" \in Pcs
    BY DEF Pcs
  <2> QED BY <1>2, <2>1, CallFields
<1> HIDE DEF out, goOn
<1>4. call' = goOn => CallFine'
  BY <1>1, <1>2, <1>3 DEF CallFine
<1>5. cur' # NoDevice /\ cur' \in Devices
  BY <1>1, <1>2, FileAssumption
<1> QED BY <1>1, <1>4, <1>5, ControlAfter DEF Control

(* Adding points of a column to the history.                                   *)
LEMMA OfferedTyped ==
    ASSUME Control, NEW d \in Devices, NEW m \in Measurements, NEW points \in Seq(Points)
    PROVE  /\ offered[d][m] \o points \in Seq(Points)
           /\ [offered EXCEPT ![d][m] = @ \o points] \in [Devices -> [Measurements -> Seq(Points)]]
<1>1. offered \in [Devices -> [Measurements -> Seq(Points)]]
  BY DEF Control
<1>2. PICK s \in Seq(Points) : s = offered[d][m]
  BY <1>1
<1>3. s \o points \in Seq(Points)
  BY ConcatParts
<1>4. [offered[d] EXCEPT ![m] = s \o points] \in [Measurements -> Seq(Points)]
  BY <1>1, <1>3
<1>5. [offered EXCEPT ![d] = [offered[d] EXCEPT ![m] = s \o points]]
        \in [Devices -> [Measurements -> Seq(Points)]]
  BY <1>1, <1>4
<1> QED BY <1>2, <1>3, <1>5

LEMMA ControlColumn ==
    ASSUME Control, phase = "open", call.pc = "columns", opened' = opened,
           UNCHANGED <<schemas, cur, calls>>,
           NEW col, NEW r, NEW m \in Measurements, NEW points \in Seq(Points),
           WroteColumn(col, r, m, points)
    PROVE  Control'
<1> DEFINE goOn == [call EXCEPT !.next = @ + 1]
<1>1. /\ offered' = [offered EXCEPT ![call.dev][m] = @ \o points]
      /\ Damage(call.dev, r.out) /\ Answered(r.out, goOn)
  BY DEF WroteColumn
<1>2. /\ CallFine /\ call \in Calls /\ call.dev \in Devices /\ cur = call.dev
      /\ call.op \in {"record", "tablet"}
  BY DEF Control, CallFine
<1>3. offered' \in [Devices -> [Measurements -> Seq(Points)]]
  BY <1>1, <1>2, OfferedTyped
<1>4. damaged' \subseteq Devices
  BY <1>1, <1>2 DEF Control, Damage
<1>5. /\ goOn \in Calls /\ goOn.pc = call.pc /\ goOn.op = call.op
      /\ goOn.dev = call.dev /\ goOn.input = call.input
  BY <1>2, CallFields
<1> HIDE DEF goOn
<1>6. call' = goOn => CallFine'
  BY <1>2, <1>5 DEF CallFine
<1>7. cur' # NoDevice /\ cur' \in Devices
  BY <1>2, FileAssumption
<1> QED BY <1>1, <1>3, <1>4, <1>6, <1>7, ControlAfter DEF Control

(* The cases of write_record's loop body.                                      *)
Kept == UNCHANGED <<writers, offered, damaged>>

Onward == [call EXCEPT !.next = @ + 1]

RecordWrites(col, m, p, matches) ==
    /\ col \in 1..Len(schemas[call.dev]) /\ schemas[call.dev][col] = m
    /\ \A j \in 1..Len(schemas[call.dev]) : schemas[call.dev][j] = m => col <= j
    /\ ~(col > Len(writers))
    /\ WroteColumn(col, WriteValue(writers[col], p, matches), m, <<p>>)

LEMMA RecordCases ==
    ASSUME Control, RecordPoint
    PROVE  /\ phase = "open" /\ call.pc = "columns" /\ call.op = "record"
           /\ call.dev \in Devices /\ cur = call.dev
           /\ UNCHANGED <<schemas, cur, io, calls>>
           /\ \/ Kept /\ Answered("err", call)
              \/ /\ Kept /\ Answered("panic", call)
                 /\ \E i \in 1..Len(schemas[call.dev]) : i > Len(writers)
              \/ Kept /\ Answered("ok", Onward)
              \/ \E col \in Nat, m \in Measurements, p \in Points, matches \in BOOLEAN :
                    RecordWrites(col, m, p, matches)
<1> DEFINE s       == schemas[call.dev]
           point   == call.input[call.next]
           columns == {i \in DOMAIN s : s[i] = point.m}
           col     == Min(columns)
           p       == Point(point.m, call.next)
           matches == point.cell = "ok" /\ TypeOf[point.m] = TypeOf[writers[col].name]
           r       == WriteValue(writers[col], p, matches)
<1>1. /\ phase = "open" /\ call.pc = "columns" /\ call.op = "record"
      /\ call.next <= Len(call.input)
      /\ UNCHANGED <<schemas, cur, io, calls>>
  BY DEF RecordPoint, At
<1>2. /\ CallFine /\ call.dev \in Devices /\ cur = call.dev /\ call.input \in RecordShapes
      /\ calls \in 1..MaxCalls /\ call.next \in Nat \ {0}
  BY <1>1 DEF Control, CallFine, Calls
<1>3. s \in Seq(Measurements)
  BY <1>2 DEF Control
<1>4. IF columns = {} THEN Kept /\ Answered("err", call)
      ELSE IF col > Len(writers) THEN Kept /\ Answered("panic", call)
      ELSE IF point.cell = "null" THEN Kept /\ Answered("ok", Onward)
      ELSE WroteColumn(col, r, point.m, <<p>>)
  BY DEF RecordPoint, Kept, Onward
<1> HIDE DEF r
<1>5. ASSUME columns # {}
      PROVE  /\ col \in 1..Len(s) /\ s[col] = point.m /\ point.m \in Measurements
             /\ \A j \in 1..Len(s) : s[j] = point.m => col <= j
  <2>1. columns \in SUBSET Nat /\ DOMAIN s = 1..Len(s)
    BY <1>3
  <2>2. col \in columns /\ \A x \in columns : col <= x
    BY <1>5, <2>1, MinIsLeast
  <2> HIDE DEF col
  <2> QED BY <1>3, <2>1, <2>2
<1>6. CASE columns = {}
  BY <1>1, <1>2, <1>4, <1>6
<1>7. CASE columns # {} /\ col > Len(writers)
  <2>1. Kept /\ Answered("panic", call)
    BY <1>4, <1>7
  <2>2. \E i \in 1..Len(s) : i > Len(writers)
    BY <1>5, <1>7
  <2> QED BY <1>1, <1>2, <2>1, <2>2
<1>8. CASE columns # {} /\ ~(col > Len(writers)) /\ point.cell = "null"
  BY <1>1, <1>2, <1>4, <1>8
<1>9. CASE columns # {} /\ ~(col > Len(writers)) /\ point.cell # "null"
  <2>1. WroteColumn(col, r, point.m, <<p>>)
    BY <1>4, <1>9
  <2>2. p \in Points
    <3>1. call.next \in 1..Len(call.input)
      BY <1>1, <1>2, FileAssumption
    <3> QED BY <1>2, <1>5, <1>9, <3>1, RecordPoints
  <2>3. matches \in BOOLEAN
    OBVIOUS
  <2>4. RecordWrites(col, point.m, p, matches)
    BY <1>5, <1>9, <2>1 DEF RecordWrites, r
  <2>7. col \in Nat
    BY <1>5, <1>9
  <2> HIDE DEF col, p, matches, point
  <2>5. point.m \in Measurements
    BY <1>5, <1>9
  <2>6. \E i \in Nat, m \in Measurements, q \in Points, b \in BOOLEAN : RecordWrites(i, m, q, b)
    BY <2>2, <2>3, <2>4, <2>5, <2>7
  <2> QED BY <1>1, <1>2, <2>6
<1> QED BY <1>6, <1>7, <1>8, <1>9

LEMMA ControlStays ==
    ASSUME Control, phase = "open", call.pc = "columns", opened' = opened,
           UNCHANGED <<schemas, cur, io, calls>>, Kept,
           NEW out, NEW goOn, goOn \in {call, Onward}, Answered(out, goOn)
    PROVE  Control'
<1>1. /\ CallFine /\ call \in Calls /\ call.dev \in Devices /\ cur = call.dev
  BY DEF Control, CallFine
<1>2. /\ goOn \in Calls /\ goOn.pc = call.pc /\ goOn.op = call.op
      /\ goOn.dev = call.dev /\ goOn.input = call.input
  BY <1>1, CallFields DEF Onward
<1>3. call' = goOn => CallFine'
  BY <1>1, <1>2 DEF CallFine
<1>4. cur' # NoDevice /\ cur' \in Devices
  BY <1>1, FileAssumption
<1>5. /\ damaged' \subseteq Devices
      /\ offered' \in [Devices -> [Measurements -> Seq(Points)]]
  BY DEF Control, Kept
<1> QED BY <1>3, <1>4, <1>5, ControlAfter DEF Control

LEMMA ControlRecordPoint ==
    ASSUME Control, RecordPoint, opened' = opened
    PROVE  Control'
<1>1. /\ phase = "open" /\ call.pc = "columns"
      /\ UNCHANGED <<schemas, cur, io, calls>>
      /\ \/ Kept /\ Answered("err", call)
         \/ Kept /\ Answered("panic", call)
         \/ Kept /\ Answered("ok", Onward)
         \/ \E col \in Nat, m \in Measurements, p \in Points, matches \in BOOLEAN :
               RecordWrites(col, m, p, matches)
  BY RecordCases
<1>2. CASE Kept /\ \E out : \E goOn \in {call, Onward} : Answered(out, goOn)
  BY <1>1, <1>2, ControlStays
<1>3. CASE \E col \in Nat, m \in Measurements, p \in Points, matches \in BOOLEAN :
               RecordWrites(col, m, p, matches)
  <2>1. PICK col \in Nat, m \in Measurements, p \in Points, matches \in BOOLEAN :
               RecordWrites(col, m, p, matches)
    BY <1>3
  <2>2. WroteColumn(col, WriteValue(writers[col], p, matches), m, <<p>>)
    BY <2>1 DEF RecordWrites
  <2>3. <<p>> \in Seq(Points)
    OBVIOUS
  <2> QED BY <1>1, <2>2, <2>3, ControlColumn
<1> QED BY <1>1, <1>2, <1>3

(* The cases of write_tablet's loop body.                                      *)
TabletWrites(col) ==
    LET m == call.input.columns[col]
    IN  /\ col \in 1..Len(call.input.columns) /\ m \in Measurements
        /\ AreRows(ColumnRows(col)) /\ ColumnPoints(col) \in Seq(Points)
        /\ WroteColumn(col, WriteBatch(writers[col], ColumnRows(col),
                                       TypeOf[m] = TypeOf[writers[col].name]),
                       m, ColumnPoints(col))

LEMMA TabletCases ==
    ASSUME Control, TabletColumn
    PROVE  /\ phase = "open" /\ call.pc = "columns" /\ call.op = "tablet"
           /\ call.dev \in Devices /\ cur = call.dev
           /\ call.next \in Nat \ {0} /\ call.next <= Len(writers)
           /\ UNCHANGED <<schemas, cur, io, calls>>
           /\ \/ /\ Kept /\ Answered("panic", call)
                 /\ call.next > Len(call.input.columns)
              \/ TabletWrites(call.next)
<1> DEFINE col     == call.next
           m       == call.input.columns[col]
           matches == TypeOf[m] = TypeOf[writers[col].name]
           r       == WriteBatch(writers[col], ColumnRows(col), matches)
<1>1. /\ phase = "open" /\ call.pc = "columns" /\ call.op = "tablet"
      /\ col <= Len(writers)
      /\ UNCHANGED <<schemas, cur, io, calls>>
      /\ IF col > Len(call.input.columns)
         THEN Answered("panic", call) /\ Kept
         ELSE WroteColumn(col, r, m, ColumnPoints(col))
  <2> HIDE DEF r
  <2> QED BY DEF TabletColumn, At, Kept, r
<1>2. /\ CallFine /\ call.dev \in Devices /\ cur = call.dev /\ call.input \in Tablets
      /\ calls \in 1..MaxCalls /\ call.next \in Nat \ {0}
  BY <1>1 DEF Control, CallFine, Calls
<1>3. CASE col > Len(call.input.columns)
  <2> HIDE DEF r
  <2> QED BY <1>1, <1>2, <1>3
<1>4. CASE ~(col > Len(call.input.columns))
  <2>1. Len(call.input.columns) \in Nat
    BY <1>2, FileAssumption DEF Tablets
  <2>2. col \in 1..Len(call.input.columns)
    BY <1>2, <1>4, <2>1
  <2>3. m \in Measurements /\ AreRows(ColumnRows(col)) /\ ColumnPoints(col) \in Seq(Points)
    BY <1>2, <2>2, TabletRowsAre
  <2>4. WroteColumn(col, r, m, ColumnPoints(col))
    <3> HIDE DEF r
    <3> QED BY <1>1, <1>4
  <2>5. TabletWrites(col)
    BY <2>2, <2>3, <2>4 DEF TabletWrites
  <2> QED BY <1>1, <1>2, <2>5
<1> QED BY <1>3, <1>4

LEMMA ControlTabletColumn ==
    ASSUME Control, TabletColumn, opened' = opened
    PROVE  Control'
<1>1. /\ phase = "open" /\ call.pc = "columns"
      /\ UNCHANGED <<schemas, cur, io, calls>>
      /\ (Kept /\ Answered("panic", call)) \/ TabletWrites(call.next)
  BY TabletCases
<1>2. CASE Kept /\ Answered("panic", call)
  BY <1>1, <1>2, ControlStays
<1>3. CASE TabletWrites(call.next)
  BY <1>1, <1>3, ControlColumn DEF TabletWrites
<1> QED BY <1>1, <1>2, <1>3

(* The columns a tablet has beyond the writers.                                *)
Beyond(m) == {i \in call.next..Len(call.input.columns) : call.input.columns[i] = m}

LEMMA ReturnCases ==
    ASSUME Control, ReturnWrite
    PROVE  /\ phase = "open" /\ call.pc = "columns" /\ call.dev \in Devices /\ cur = call.dev
           /\ Answered("ok", NoCall)
           /\ UNCHANGED <<schemas, cur, writers, io, calls, damaged>>
           /\ \/ call.op = "record" /\ offered' = offered
              \/ /\ call.op = "tablet" /\ call.next > Len(writers) /\ call.next \in Nat \ {0}
                 /\ Len(call.input.columns) \in Nat
                 /\ offered' = [offered EXCEPT ![call.dev] = [m \in Measurements |->
                       IF Beyond(m) = {} THEN offered[call.dev][m]
                       ELSE offered[call.dev][m] \o ColumnPoints(Min(Beyond(m)))]]
<1>1. /\ phase = "open" /\ call.pc = "columns" /\ Answered("ok", NoCall)
      /\ UNCHANGED <<schemas, cur, writers, io, calls, damaged>>
      /\ IF call.op = "record" THEN offered' = offered
         ELSE /\ call.next > Len(writers)
              /\ offered' = [offered EXCEPT ![call.dev] = [m \in Measurements |->
                    IF Beyond(m) = {} THEN offered[call.dev][m]
                    ELSE offered[call.dev][m] \o ColumnPoints(Min(Beyond(m)))]]
  BY DEF ReturnWrite, At, Beyond
<1>2. /\ CallFine /\ call.dev \in Devices /\ cur = call.dev
      /\ call.op \in {"record", "tablet"} /\ call.next \in Nat \ {0}
      /\ call.op = "tablet" => call.input \in Tablets
  BY <1>1 DEF Control, CallFine, Calls
<1>3. call.op = "tablet" => Len(call.input.columns) \in Nat
  BY <1>2, FileAssumption DEF Tablets
<1> QED BY <1>1, <1>2, <1>3

LEMMA ControlReturnWrite ==
    ASSUME Control, ReturnWrite, opened' = opened
    PROVE  Control'
<1>1. /\ phase = "open" /\ call.pc = "columns" /\ call.dev \in Devices /\ cur = call.dev
      /\ Answered("ok", NoCall)
      /\ UNCHANGED <<schemas, cur, writers, io, calls, damaged>>
  BY ReturnCases
<1>2. offered \in [Devices -> [Measurements -> Seq(Points)]]
  BY DEF Control
<1>3. offered' \in [Devices -> [Measurements -> Seq(Points)]]
  <2>1. CASE call.op = "record" /\ offered' = offered
    BY <1>2, <2>1
  <2>2. CASE call.op = "tablet"
    <3> DEFINE more(m) == IF Beyond(m) = {} THEN offered[call.dev][m]
                          ELSE offered[call.dev][m] \o ColumnPoints(Min(Beyond(m)))
    <3>1. /\ offered' = [offered EXCEPT ![call.dev] = [m \in Measurements |-> more(m)]]
          /\ call.next \in Nat \ {0} /\ Len(call.input.columns) \in Nat
      BY <2>2, ReturnCases
    <3>2. ASSUME NEW m \in Measurements PROVE more(m) \in Seq(Points)
      <4>1. CASE Beyond(m) = {}
        BY <1>1, <1>2, <4>1
      <4>2. CASE Beyond(m) # {}
        <5>1. Beyond(m) \in SUBSET Nat
          BY <3>1 DEF Beyond
        <5>2. Min(Beyond(m)) \in Beyond(m)
          BY <4>2, <5>1, MinIsLeast
        <5>3. Min(Beyond(m)) \in 1..Len(call.input.columns)
          BY <3>1, <5>2 DEF Beyond
        <5>4. call.input \in Tablets /\ calls \in 1..MaxCalls
          BY <1>1, <2>2 DEF Control, CallFine
        <5>5. ColumnPoints(Min(Beyond(m))) \in Seq(Points)
          BY <5>3, <5>4, TabletRowsAre
        <5>6. offered[call.dev][m] \o ColumnPoints(Min(Beyond(m))) \in Seq(Points)
          BY <1>1, <5>5, OfferedTyped
        <5> QED BY <4>2, <5>6
      <4> QED BY <4>1, <4>2
    <3> HIDE DEF more
    <3>3. [m \in Measurements |-> more(m)] \in [Measurements -> Seq(Points)]
      BY <3>2
    <3> QED BY <1>1, <1>2, <3>1, <3>3
  <2> QED BY <2>1, <2>2, ReturnCases
<1>4. cur' # NoDevice /\ cur' \in Devices
  BY <1>1, FileAssumption
<1>5. call' = NoCall => CallFine'
  BY NoCallTyped DEF CallFine, NoCall
<1> QED BY <1>1, <1>3, <1>4, <1>5, ControlAfter DEF Control

(* The sections of close.                                                      *)
ClosesWith(pc, next, x) ==
    /\ call.pc = pc /\ io' = x
    /\ Answered("ok", [call EXCEPT !.pc = next])

LEMMA CloseCases ==
    ASSUME Control, Close
    PROVE  /\ phase = "open" /\ cur = NoDevice /\ writers = <<>> /\ call.op = "close"
           /\ UNCHANGED <<schemas, cur, writers, calls, offered, damaged>>
           /\ \/ ClosesWith("dictionary", "metadata", WriteDictionary(io))
              \/ ClosesWith("metadata", "footer", WriteMetadata(io))
              \/ ClosesWith("footer", "complete", WriteFooter(io))
              \/ /\ call.pc = "complete" /\ phase' = "closed" /\ file' = io.stream
                 /\ call' = NoCall /\ UNCHANGED <<io, refused>>
<1>1. UNCHANGED <<schemas, cur, writers, calls, offered, damaged>>
  BY DEF Close
<1>2. /\ phase = "open"
      /\ \/ ClosesWith("dictionary", "metadata", WriteDictionary(io))
         \/ ClosesWith("metadata", "footer", WriteMetadata(io))
         \/ ClosesWith("footer", "complete", WriteFooter(io))
         \/ /\ call.pc = "complete" /\ phase' = "closed" /\ file' = io.stream
            /\ call' = NoCall /\ UNCHANGED <<io, refused>>
  BY DEF Close, CloseDictionary, CloseMetadata, CloseFooter, CloseComplete, ClosesWith, At
<1>3. call.pc \in {"dictionary", "metadata", "footer", "complete"}
  BY <1>2 DEF ClosesWith
<1>4. cur = NoDevice /\ writers = <<>> /\ call.op = "close"
  BY <1>2, <1>3 DEF Control, CallFine
<1> QED BY <1>1, <1>2, <1>4

LEMMA ControlClose ==
    ASSUME Control, Close, opened' = opened
    PROVE  Control'
<1>1. /\ phase = "open" /\ cur = NoDevice /\ writers = <<>> /\ call.op = "close"
      /\ UNCHANGED <<schemas, cur, writers, calls, offered, damaged>>
      /\ \/ \E next \in {"metadata", "footer", "complete"} :
               Answered("ok", [call EXCEPT !.pc = next])
         \/ /\ phase' = "closed" /\ call' = NoCall /\ UNCHANGED refused
  BY CloseCases DEF ClosesWith
<1>2. CASE \E next \in {"metadata", "footer", "complete"} :
               Answered("ok", [call EXCEPT !.pc = next])
  <2>1. PICK next \in {"metadata", "footer", "complete"} :
               Answered("ok", [call EXCEPT !.pc = next])
    BY <1>2
  <2> DEFINE goOn == [call EXCEPT !.pc = next]
  <2>2. next \in Pcs /\ call \in Calls
    BY DEF Pcs, Control, CallFine
  <2>3. /\ goOn \in Calls /\ goOn.pc = next /\ goOn.op = call.op
    BY <2>2, CallFields
  <2>5. Answered("ok", goOn)
    BY <2>1
  <2> HIDE DEF goOn
  <2>4. call' = goOn => CallFine'
    BY <1>1, <2>3 DEF CallFine
  <2> QED BY <1>1, <2>4, <2>5, ControlAfter DEF Control
<1>3. CASE phase' = "closed" /\ call' = NoCall /\ UNCHANGED refused
  <2>1. CallFine'
    BY <1>3, NoCallTyped DEF CallFine, NoCall
  <2> QED BY <1>1, <1>3, <2>1 DEF Control
<1> QED BY <1>1, <1>2, <1>3

LEMMA ControlCrash ==
    ASSUME Control, Crash, opened' = opened
    PROVE  Control'
<1>1. /\ phase = "open" /\ phase' = "gone" /\ call' = NoCall
      /\ UNCHANGED <<schemas, cur, writers, io, calls, offered, damaged, refused>>
  BY DEF Crash, Die
<1>2. CallFine'
  BY <1>1, NoCallTyped DEF CallFine, NoCall
<1> QED BY <1>1, <1>2 DEF Control

LEMMA ControlReader ==
    ASSUME Control, UNCHANGED writerVars,
           opened' = opened \/ (opened' = TRUE /\ phase # "open")
    PROVE  Control'
<1>1. /\ schemas' = schemas /\ cur' = cur /\ writers' = writers /\ call' = call
      /\ phase' = phase /\ calls' = calls /\ offered' = offered /\ damaged' = damaged
      /\ refused' = refused
  BY DEF writerVars
<1>2. CallFine'
  BY <1>1 DEF Control, CallFine
<1>3. opened' \in BOOLEAN /\ (opened' => phase' # "open")
  <2>1. opened \in BOOLEAN /\ (opened => phase # "open")
    BY DEF Control
  <2>2. CASE opened' = opened
    BY <1>1, <2>1, <2>2, Zenon
  <2>3. CASE opened' = TRUE /\ phase # "open"
    BY <1>1, <2>3
  <2> QED BY <2>2, <2>3
<1>4. offered' \in [Devices -> [Measurements -> Seq(Points)]]
      /\ refused' \in BOOLEAN
  BY <1>1 DEF Control
<1> QED BY <1>1, <1>2, <1>3, <1>4 DEF Control

(* The calls that write.                                                       *)
Starts(op, d, input) ==
    /\ StartWrite(op, d, input)
    /\ \/ op = "record" /\ input \in RecordShapes
       \/ /\ op = "tablet" /\ input \in Tablets
          /\ AlignedTablets => input.columns = schemas[d]

LEMMA WriterSteps ==
    ASSUME WriterNext
    PROVE  \/ \E d \in Devices, list \in SchemaLists : Register(d, list)
           \/ \E d \in Devices : \E op, input : Starts(op, d, input)
           \/ \E op \in {"flush", "close"} : StartFlush(op)
           \/ FlushChunk \/ FlushEnd \/ OpenGroup
           \/ RecordPoint \/ TabletColumn \/ ReturnWrite
           \/ Close
           \/ Crash
<1>1. ASSUME NEW d \in Devices, NEW points \in RecordShapes, StartRecord(d, points)
      PROVE  \E op, input : Starts(op, d, input)
  BY <1>1 DEF StartRecord, Starts
<1>2. ASSUME NEW d \in Devices, NEW columns \in TabletColumns, NEW rows \in TabletRows,
             StartTablet(d, columns, rows)
      PROVE  \E op, input : Starts(op, d, input)
  <2> DEFINE input == [columns |-> columns, rows |-> rows]
  <2>1. StartWrite("tablet", d, input) /\ (AlignedTablets => columns = schemas[d])
    BY <1>2 DEF StartTablet
  <2>2. input \in Tablets /\ input.columns = columns
    BY DEF Tablets
  <2> HIDE DEF input
  <2> QED BY <2>1, <2>2 DEF Starts
<1> QED BY <1>1, <1>2, Zenon DEF WriterNext

THEOREM ControlNext == Control /\ [Next]_vars => Control'
<1> SUFFICES ASSUME Control, [Next]_vars PROVE Control'
  OBVIOUS
<1>1. CASE WriterNext /\ UNCHANGED readerVars
  <2>0. opened' = opened
    BY <1>1 DEF readerVars
  <2>1. ASSUME NEW d \in Devices, NEW op, NEW input, Starts(op, d, input) PROVE Control'
    BY <2>0, <2>1, ControlStartWrite DEF Starts
  <2> QED BY <1>1, <2>0, <2>1, WriterSteps, ControlRegister, ControlStartFlush,
             ControlFlushChunk, ControlFlushEnd, ControlOpenGroup, ControlRecordPoint,
             ControlTabletColumn, ControlReturnWrite, ControlClose, ControlCrash
<1>2. CASE Open
  BY <1>2, ControlReader DEF Open
<1>3. CASE \E d \in Devices, m \in Measurements : Read(d, m)
  BY <1>3, ControlReader DEF Read
<1>4. CASE ClearCache
  BY <1>4, ControlReader DEF ClearCache
<1>5. CASE UNCHANGED vars
  BY <1>5, ControlReader DEF vars, readerVars
<1> QED BY <1>1, <1>2, <1>3, <1>4, <1>5 DEF Next

THEOREM SpecControl == Spec => []Control
<1>1. Init => Control
  BY ControlInit
<1>2. Control /\ [Next]_vars => Control'
  BY ControlNext
<1> QED BY <1>1, <1>2, PTL DEF Spec
-------------------------------------------------------------------------------
(* The writers of the open group.                                              *)
WritersFine ==
    /\ writers \in Seq(Writer)
    /\ \A i \in 1..Len(writers) : \E g : Holds(writers[i], g)

LEMMA NewWritersAre ==
    ASSUME NEW columns \in Seq(Measurements), NEW ws, ws = NewWriters(columns)
    PROVE  /\ ws \in Seq(Writer) /\ Len(ws) = Len(columns)
           /\ \A i \in 1..Len(columns) :
                Holds(ws[i], <<>>) /\ Even(ws[i]) /\ ws[i].name = columns[i]
<1> DEFINE new(i) == NewChunkWriter(columns[i], Encodes[columns[i]])
<1>1. Len(columns) \in Nat /\ ws = [i \in 1..Len(columns) |-> new(i)]
  BY DEF NewWriters
<1>2. ASSUME NEW i \in 1..Len(columns)
      PROVE  Holds(new(i), <<>>) /\ Even(new(i)) /\ new(i).name = columns[i] /\ new(i) \in Writer
  <2>1. columns[i] \in Measurements /\ Encodes[columns[i]] \in BOOLEAN
    BY FileAssumption
  <2>2. Holds(new(i), <<>>) /\ Even(new(i)) /\ new(i).name = columns[i]
    BY <2>1, NewHolds
  <2> HIDE DEF new
  <2> QED BY <2>2, HoldsTyped
<1> HIDE DEF new
<1> QED BY <1>1, <1>2

LEMMA ReplacedIs ==
    ASSUME NEW X, NEW s \in Seq(X), NEW col \in 1..Len(s), NEW x \in X,
           NEW t, t = [s EXCEPT ![col] = x]
    PROVE  /\ t \in Seq(X) /\ Len(t) = Len(s) /\ t[col] = x
           /\ \A i \in 1..Len(s) : i # col => t[i] = s[i]
OBVIOUS

LEMMA TailIs ==
    ASSUME NEW X, NEW s \in Seq(X), s # <<>>
    PROVE  /\ Tail(s) \in Seq(X) /\ Len(Tail(s)) = Len(s) - 1 /\ Len(s) \in Nat \ {0}
           /\ Head(s) = s[1] /\ 1 \in 1..Len(s)
           /\ \A i \in 1..Len(Tail(s)) : Tail(s)[i] = s[i + 1] /\ i + 1 \in 1..Len(s)
OBVIOUS

LEMMA OpenGroupIs ==
    ASSUME Control, OpenGroup
    PROVE  /\ phase = "open" /\ call.pc = "group" /\ call.dev \in Devices
           /\ cur = NoDevice /\ writers = <<>> /\ cur' = call.dev
           /\ io' = StartChunkGroup(io, call.dev)
           /\ UNCHANGED <<schemas, calls, offered, damaged>>
           /\ call.op \in {"record", "tablet"}
           /\ \E out \in {"ok", "err"} : Answered(out, [call EXCEPT !.pc = "columns"])
           /\ \E columns \in Seq(Measurements) :
                /\ writers' = NewWriters(columns)
                /\ columns = IF call.op = "record" THEN schemas[call.dev]
                                                   ELSE call.input.columns
<1> DEFINE columns == IF call.op = "record" THEN schemas[call.dev] ELSE call.input.columns
           unknown == call.op = "record" /\ columns = <<>>
<1>1. /\ phase = "open" /\ call.pc = "group" /\ cur' = call.dev
      /\ io' = StartChunkGroup(io, call.dev)
      /\ UNCHANGED <<schemas, calls, offered, damaged>>
      /\ Answered(IF unknown THEN "err" ELSE "ok", [call EXCEPT !.pc = "columns"])
      /\ writers' = IF unknown THEN writers ELSE NewWriters(columns)
  BY DEF OpenGroup, At
<1>2. /\ CallFine /\ call.dev \in Devices /\ call.op \in {"record", "tablet"}
      /\ cur = NoDevice /\ writers = <<>>
  BY <1>1 DEF Control, CallFine
<1>3. columns \in Seq(Measurements)
  <2>1. CASE call.op = "record"
    BY <1>2, <2>1 DEF Control
  <2>2. CASE call.op = "tablet"
    BY <1>2, <2>2, FileAssumption DEF CallFine, Tablets
  <2> QED BY <1>2, <2>1, <2>2
<1>4. writers' = NewWriters(columns)
  <2>1. CASE unknown
    <3>1. NewWriters(<<>>) \in Seq(Writer) /\ Len(NewWriters(<<>>)) = 0
      <4>1. <<>> \in Seq(Measurements) /\ Len(<<>>) = 0
        OBVIOUS
      <4> QED BY <4>1, NewWritersAre
    <3>2. NewWriters(<<>>) = <<>>
      BY <3>1
    <3> QED BY <1>1, <1>2, <2>1, <3>2
  <2>2. CASE ~unknown
    BY <1>1, <2>2
  <2> QED BY <2>1, <2>2
<1>5. \E out \in {"ok", "err"} : Answered(out, [call EXCEPT !.pc = "columns"])
  <2>1. (IF unknown THEN "err" ELSE "ok") \in {"ok", "err"}
    OBVIOUS
  <2> HIDE DEF unknown
  <2> QED BY <1>1, <2>1
<1> QED BY <1>1, <1>2, <1>3, <1>4, <1>5

(* A column that took a call still holds what it was given and no more.        *)
LEMMA ColumnFine ==
    ASSUME WritersFine, NEW col \in 1..Len(writers), NEW x, NEW g, Holds(x, g),
           writers' = [writers EXCEPT ![col] = x]
    PROVE  WritersFine'
<1>1. x \in Writer
  BY HoldsTyped
<1>2. /\ writers' \in Seq(Writer) /\ Len(writers') = Len(writers) /\ writers'[col] = x
      /\ \A i \in 1..Len(writers) : i # col => writers'[i] = writers[i]
  BY <1>1, ReplacedIs DEF WritersFine
<1> QED BY <1>2 DEF WritersFine

(* The steps that touch the writers.                                           *)
LEMMA WritersFlushChunk ==
    ASSUME Control, WritersFine, FlushChunk
    PROVE  WritersFine'
<1>1. /\ writers # <<>>
      /\ writers' = Tail(writers) \/ writers' = <<>>
  BY DEF FlushChunk
<1>2. CASE writers' = Tail(writers)
  BY <1>1, <1>2, TailIs DEF WritersFine
<1>3. CASE writers' = <<>>
  BY <1>3 DEF WritersFine
<1> QED BY <1>1, <1>2, <1>3

LEMMA WritersOpenGroup ==
    ASSUME Control, WritersFine, OpenGroup
    PROVE  WritersFine'
<1>1. PICK columns \in Seq(Measurements) : writers' = NewWriters(columns)
  BY OpenGroupIs
<1> QED BY <1>1, NewWritersAre DEF WritersFine

LEMMA WritersRecordPoint ==
    ASSUME Control, WritersFine, RecordPoint
    PROVE  WritersFine'
<1>1. CASE Kept
  BY <1>1 DEF Kept, WritersFine
<1>2. CASE \E col \in Nat, m \in Measurements, p \in Points, matches \in BOOLEAN :
               RecordWrites(col, m, p, matches)
  <2>1. PICK col \in Nat, m \in Measurements, p \in Points, matches \in BOOLEAN :
               RecordWrites(col, m, p, matches)
    BY <1>2
  <2> DEFINE r == WriteValue(writers[col], p, matches)
  <2>2. /\ col \in 1..Len(schemas[call.dev]) /\ ~(col > Len(writers))
        /\ writers' = [writers EXCEPT ![col] = r.cw]
    BY <2>1 DEF RecordWrites, WroteColumn
  <2>3. Len(writers) \in Nat /\ schemas[call.dev] \in Seq(Measurements)
    BY RecordCases DEF WritersFine, Control
  <2>4. col \in 1..Len(writers)
    BY <2>2, <2>3
  <2>5. PICK g : Holds(writers[col], g)
    BY <2>4 DEF WritersFine
  <2>6. \E h : Holds(r.cw, h)
    BY <2>5, WriteHolds
  <2> HIDE DEF r
  <2> QED BY <2>2, <2>4, <2>6, ColumnFine
<1> QED BY <1>1, <1>2, RecordCases

LEMMA WritersTabletColumn ==
    ASSUME Control, WritersFine, TabletColumn
    PROVE  WritersFine'
<1>1. CASE Kept
  BY <1>1 DEF Kept, WritersFine
<1>2. CASE TabletWrites(call.next)
  <2> DEFINE col == call.next
             rows == ColumnRows(col)
             matches == TypeOf[call.input.columns[col]] = TypeOf[writers[col].name]
             r == WriteBatch(writers[col], rows, matches)
  <2>1. AreRows(rows) /\ writers' = [writers EXCEPT ![col] = r.cw]
    BY <1>2 DEF TabletWrites, WroteColumn
  <2>2. col \in 1..Len(writers)
    BY TabletCases DEF WritersFine
  <2>3. PICK g : Holds(writers[col], g)
    BY <2>2 DEF WritersFine
  <2>4. matches \in BOOLEAN
    OBVIOUS
  <2> HIDE DEF rows, matches, col
  <2>5. \E h : Holds(r.cw, h)
    BY <2>1, <2>3, <2>4, BatchHolds
  <2> HIDE DEF r
  <2> QED BY <2>1, <2>2, <2>5, ColumnFine
<1> QED BY <1>1, <1>2, TabletCases

LEMMA WritersSame ==
    ASSUME WritersFine, writers' = writers
    PROVE  WritersFine'
  BY DEF WritersFine

THEOREM WritersNext == Control /\ WritersFine /\ [Next]_vars => WritersFine'
<1> SUFFICES ASSUME Control, WritersFine, [Next]_vars PROVE WritersFine'
  OBVIOUS
<1>1. ASSUME WriterNext PROVE WritersFine'
  <2>1. ASSUME NEW d \in Devices, NEW list \in SchemaLists, Register(d, list)
        PROVE  WritersFine'
    BY <2>1, WritersSame DEF Register
  <2>2. ASSUME NEW d \in Devices, NEW op, NEW input, Starts(op, d, input) PROVE WritersFine'
    BY <2>2, WritersSame DEF Starts, StartWrite
  <2>3. ASSUME NEW op \in {"flush", "close"}, StartFlush(op) PROVE WritersFine'
    BY <2>3, WritersSame DEF StartFlush
  <2>4. CASE FlushEnd
    BY <2>4, WritersSame DEF FlushEnd
  <2>5. CASE ReturnWrite
    BY <2>5, WritersSame DEF ReturnWrite
  <2>6. CASE Close
    BY <2>6, WritersSame DEF Close
  <2>7. CASE Crash
    BY <2>7, WritersSame DEF Crash
  <2> QED BY <1>1, <2>1, <2>2, <2>3, <2>4, <2>5, <2>6, <2>7, WriterSteps,
             WritersFlushChunk, WritersOpenGroup, WritersRecordPoint, WritersTabletColumn
<1>2. ASSUME UNCHANGED writerVars PROVE WritersFine'
  BY <1>2, WritersSame DEF writerVars
<1> QED BY <1>1, <1>2 DEF Next, Open, Read, ClearCache, vars

THEOREM WritersInit == Init => WritersFine
  BY DEF Init, WriterInit, WritersFine
-------------------------------------------------------------------------------
(* The file.                                                                   *)

\* The dictionary holds all names, unless there are none.
Dictated(s, dict) ==
    dict # {} => \E k \in 1..Len(s) : s[k].kind = "dictionary" /\ s[k].names = dict

NoFooter(s) == \A k \in 1..Len(s) : s[k].kind # "footer"

\* A complete file: it ends in the one footer, which finds the metadata.
Footed(s, gs, dict) ==
    /\ s[Len(s)].kind = "footer"
    /\ \A k \in 1..Len(s) : s[k].kind = "footer" => k = Len(s)
    /\ \E k \in 1..Len(s) : /\ s[k].kind = "metadata" /\ s[k].groups = gs
                            /\ s[k].off = s[Len(s)].metadata_offset
    /\ Dictated(s, dict)

(* How far close has come.                                                     *)
Sections ==
    LET s == io.stream
    IN  /\ call.pc \in {"flush", "group", "columns", "dictionary"} => Plain(s)
        /\ phase = "open" /\ call.pc = "idle" => Plain(s)
        /\ call.pc \in {"metadata", "footer"} => NoFooter(s) /\ Dictated(s, io.dict)
        /\ call.pc = "footer" => s[Len(s)].kind = "metadata" /\ s[Len(s)].groups = io.groups
        /\ call.pc = "complete" => Footed(s, io.groups, io.dict)
        /\ phase # "open" =>
              \/ NoFooter(s)
              \/ /\ Footed(s, io.groups, io.dict)
                 /\ writers = <<>> /\ cur = NoDevice

(* What is on disk, and what a reader has of it.                               *)
Disk ==
    /\ phase = "open" => file = <<>>
    /\ phase # "open" => \E n \in 0..Len(io.stream) : file = SubSeq(io.stream, 1, n)
    /\ phase = "closed" => file = io.stream /\ Footed(io.stream, io.groups, io.dict)
    /\ opened => /\ Footed(io.stream, io.groups, io.dict)
                 /\ file = io.stream /\ groups = io.groups

OpenGroups ==
    /\ cur # NoDevice => cur \in DOMAIN io.groups
    /\ call.pc = "flush" => call.group \in DOMAIN io.groups

FileInv == IOFine(io, Devices) /\ OpenGroups /\ Sections /\ Disk

Inv == Control /\ WritersFine /\ FileInv

Early == {"idle", "flush", "group", "columns", "dictionary"}

LEMMA PlainHasNoFooter ==
    ASSUME NEW s, Plain(s)
    PROVE  NoFooter(s)
  BY DEF Plain, NoFooter

(* A step of a call that adds at most chunks.                                  *)
LEMMA FileStep ==
    ASSUME Control, Control', FileInv, phase = "open",
           IOFine(io', Devices), Plain(io'.stream), OpenGroups',
           groups' = groups, opened' = opened,
           NEW out, NEW goOn, Answered(out, goOn), goOn.pc \in Early
    PROVE  FileInv'
<1>1. file = <<>> /\ NoFooter(io'.stream) /\ NoCall.pc = "idle"
  BY PlainHasNoFooter DEF FileInv, Disk, NoCall
<1>2. CASE phase' = "open" /\ file' = file /\ (call' = goOn \/ call' = NoCall)
  <2>1. call'.pc \in Early
    BY <1>1, <1>2 DEF Early
  <2>2. Sections'
    BY <1>2, <2>1 DEF Sections, Early
  <2>3. Disk'
    BY <1>1, <1>2 DEF Disk, Control
  <2> QED BY <2>2, <2>3 DEF FileInv
<1>3. CASE /\ phase' \in {"gone", "panicked"} /\ call' = NoCall
           /\ \E n \in 0..Len(io'.stream) : file' = SubSeq(io'.stream, 1, n)
  <2>1. Sections'
    BY <1>1, <1>3 DEF Sections
  <2>2. opened' = FALSE
    BY DEF Control
  <2>3. Disk'
    BY <1>3, <2>2 DEF Disk
  <2> QED BY <2>1, <2>3 DEF FileInv
<1> QED BY <1>2, <1>3, AnsweredIs

(* A call that is made, or a schema that is registered.                        *)
LEMMA FileMoves ==
    ASSUME Control, Control', FileInv, phase = "open", call.pc = "idle",
           io' = io, phase' = phase, file' = file, OpenGroups',
           groups' = groups, opened' = opened, call'.pc \in Early
    PROVE  FileInv'
<1>1. Plain(io.stream) /\ file = <<>>
  BY DEF FileInv, Sections, Disk
<1>2. Sections'
  BY <1>1 DEF Sections, Early
<1>3. Disk'
  BY <1>1 DEF Disk, Control
<1> QED BY <1>2, <1>3 DEF FileInv

LEMMA FileStarts ==
    ASSUME Control, Control', FileInv, groups' = groups, opened' = opened,
           \/ \E d \in Devices, list \in SchemaLists : Register(d, list)
           \/ \E d \in Devices : \E op, input : Starts(op, d, input)
           \/ \E op \in {"flush", "close"} : StartFlush(op)
    PROVE  FileInv'
<1>1. ASSUME NEW d \in Devices, NEW list \in SchemaLists, Register(d, list) PROVE FileInv'
  <2>1. /\ phase = "open" /\ call.pc = "idle" /\ call' = call /\ cur' = cur
        /\ io' = io /\ phase' = phase /\ file' = file
    BY <1>1 DEF Register, Idle
  <2>2. OpenGroups' /\ call'.pc \in Early
    BY <2>1 DEF FileInv, OpenGroups, Early
  <2> QED BY <2>1, <2>2, FileMoves
<1>2. ASSUME NEW d \in Devices, NEW op, NEW input, Starts(op, d, input) PROVE FileInv'
  <2>1. /\ phase = "open" /\ call.pc = "idle"
        /\ io' = io /\ phase' = phase /\ file' = file
        /\ cur' = IF cur = d THEN cur ELSE NoDevice
        /\ call'.group = cur
        /\ call'.pc = IF cur = d THEN "columns" ELSE IF cur # NoDevice THEN "flush" ELSE "group"
    BY <1>2 DEF Starts, StartWrite, Idle
  <2>2. OpenGroups' /\ call'.pc \in Early
    BY <2>1 DEF FileInv, OpenGroups, Early
  <2> QED BY <2>1, <2>2, FileMoves
<1>3. ASSUME NEW op \in {"flush", "close"}, StartFlush(op) PROVE FileInv'
  <2>1. /\ phase = "open" /\ call.pc = "idle"
        /\ io' = io /\ phase' = phase /\ file' = file
        /\ cur' = NoDevice /\ call'.group = cur
        /\ call'.pc = IF cur = NoDevice THEN IF op = "flush" THEN "idle" ELSE "dictionary"
                                        ELSE "flush"
    BY <1>3 DEF StartFlush, Idle
  <2>2. OpenGroups' /\ call'.pc \in Early
    BY <2>1 DEF FileInv, OpenGroups, Early
  <2> QED BY <2>1, <2>2, FileMoves
<1> QED BY <1>1, <1>2, <1>3

(* One chunk is flushed.                                                       *)
LEMMA FlushChunkIs ==
    ASSUME Inv, FlushChunk
    PROVE  /\ phase = "open" /\ call.pc = "flush" /\ writers # <<>>
           /\ call.group \in Devices /\ cur = NoDevice
           /\ UNCHANGED <<schemas, cur, calls, offered>>
           /\ writers \in Seq(Writer) /\ Len(writers) \in Nat \ {0} /\ 1 \in 1..Len(writers)
           /\ \E out \in Outs :
                /\ writers' = IF out = "ok" THEN Tail(writers) ELSE <<>>
                /\ Damage(call.group, out) /\ Answered(out, call)
                /\ Even(writers[1]) => out # "panic"
                /\ \A g : Holds(writers[1], g) =>
                     /\ IOFine(io', Devices) /\ Plain(io'.stream)
                     /\ DOMAIN io'.groups = DOMAIN io.groups
                     /\ out # "ok" => io'.stream = io.stream /\ io'.groups = io.groups
                     /\ out = "ok" => Grew(io, io', call.group, writers[1].name, g)
<1> DEFINE w == Head(writers)
           d == call.group
           r == WriteChunk(io, d, w)
<1>1. /\ phase = "open" /\ call.pc = "flush" /\ writers # <<>>
      /\ io' = r.io
      /\ writers' = IF r.out = "ok" THEN Tail(writers) ELSE <<>>
      /\ Damage(d, r.out) /\ Answered(r.out, call)
      /\ UNCHANGED <<schemas, cur, calls, offered>>
  <2> HIDE DEF r
  <2> QED BY DEF FlushChunk, At, r
<1>2. /\ d \in Devices /\ cur = NoDevice
  BY <1>1 DEF Inv, Control, CallFine
<1>3. /\ writers \in Seq(Writer) /\ Len(writers) \in Nat \ {0} /\ 1 \in 1..Len(writers)
      /\ w = writers[1]
  BY <1>1, TailIs DEF Inv, WritersFine
<1>4. /\ IOFine(io, Devices) /\ Plain(io.stream) /\ d \in DOMAIN io.groups
  BY <1>1 DEF Inv, FileInv, Sections, OpenGroups
<1>5. ASSUME NEW g, Holds(w, g)
      PROVE  /\ r.out \in Outs
             /\ Even(w) => r.out # "panic"
             /\ IOFine(r.io, Devices) /\ Plain(r.io.stream)
             /\ DOMAIN r.io.groups = DOMAIN io.groups
             /\ r.out # "ok" => r.io.stream = io.stream /\ r.io.groups = io.groups
             /\ r.out = "ok" => Grew(io, r.io, d, w.name, g)
  <2>1. w.name \in Measurements /\ Len(w.name) \in Nat /\ g \in Seq(Points)
    BY <1>5, HoldsTyped, FileAssumption
  <2>2. /\ r.out \in Outs
        /\ Even(w) => r.out # "panic"
        /\ DOMAIN r.io = IOFields /\ r.io.dict = io.dict \cup {w.name}
        /\ r.out # "ok" => /\ r.io.stream = io.stream /\ r.io.groups = io.groups
                          /\ r.io.pos = io.pos
        /\ r.out = "ok" => /\ Grew(io, r.io, d, w.name, g)
                          /\ r.io.pos = StreamEnd(r.io.stream)
    BY <1>4, <1>5, <2>1, WriteChunkIs
  <2> HIDE DEF r, w, d
  <2>3. CASE r.out = "ok"
    <3>1. PICK name, x, y, e : name = w.name /\ x = r.io /\ y = io /\ e = d
      OBVIOUS
    <3>2. /\ Grew(y, x, e, name, g) /\ DOMAIN x = IOFields
          /\ x.dict = y.dict \cup {name} /\ x.pos = StreamEnd(x.stream)
      BY <2>2, <2>3, <3>1
    <3>3. /\ IOFine(y, Devices) /\ Plain(y.stream) /\ e \in DOMAIN y.groups
          /\ g \in Seq(Points)
      BY <1>4, <2>1, <3>1
    <3>4. IOFine(x, Devices)
      BY <3>2, <3>3, GrewFine
    <3>5. Plain(x.stream)
      BY <3>2, <3>3, GrewFine
    <3>6. DOMAIN x.groups = DOMAIN y.groups
      BY <3>2 DEF Grew
    <3> QED BY <2>2, <2>3, <3>1, <3>4, <3>5, <3>6
  <2>4. CASE r.out # "ok"
    <3>1. IOFine(r.io, Devices)
      BY <1>4, <2>2, <2>4 DEF IOFine, Named, AtEnd
    <3> QED BY <1>4, <2>2, <2>4, <3>1
  <2> QED BY <2>2, <2>3, <2>4
<1>6. PICK g : Holds(w, g)
  BY <1>3 DEF Inv, WritersFine
<1> HIDE DEF r
<1>7. r.out \in Outs /\ (Even(w) => r.out # "panic")
  BY <1>5, <1>6
<1> QED BY <1>1, <1>2, <1>3, <1>5, <1>7

LEMMA FileFlushChunk ==
    ASSUME Inv, Control', FlushChunk, groups' = groups, opened' = opened
    PROVE  FileInv'
<1>1. /\ phase = "open" /\ call.pc = "flush" /\ cur' = NoDevice
      /\ \E out \in Outs : Answered(out, call)
      /\ \E g : Holds(writers[1], g)
  BY FlushChunkIs DEF Inv, WritersFine
<1>2. IOFine(io', Devices) /\ Plain(io'.stream) /\ DOMAIN io'.groups = DOMAIN io.groups
  BY <1>1, FlushChunkIs
<1>3. PICK out \in Outs : Answered(out, call)
  BY <1>1
<1>4. Control /\ FileInv
  BY DEF Inv
<1>5. call.group \in DOMAIN io.groups
  BY <1>1, <1>4 DEF FileInv, OpenGroups
<1>6. call' = call \/ call' = NoCall
  BY <1>1, <1>3, AnsweredIs
<1>7. OpenGroups'
  BY <1>1, <1>2, <1>5, <1>6 DEF OpenGroups, NoCall
<1>8. call.pc \in Early
  BY <1>1 DEF Early
<1> QED BY <1>1, <1>2, <1>3, <1>4, <1>7, <1>8, FileStep

(* A step of a call that does not touch the file.                              *)
LEMMA FileSame ==
    ASSUME Inv, Control', phase = "open", call.pc \in {"flush", "group", "columns"},
           io' = io, cur' = cur, groups' = groups, opened' = opened,
           NEW out, NEW goOn, Answered(out, goOn), goOn.pc \in Early, goOn.pc # "flush"
    PROVE  FileInv'
<1>1. Control /\ FileInv
  BY DEF Inv
<1>2. IOFine(io', Devices) /\ Plain(io'.stream)
  BY <1>1 DEF FileInv, Sections
<1>3. call' = goOn \/ call' = NoCall
  BY AnsweredIs
<1>4. OpenGroups'
  BY <1>1, <1>3 DEF FileInv, OpenGroups, NoCall
<1> QED BY <1>1, <1>2, <1>4, FileStep

LEMMA FileWrites ==
    ASSUME Inv, Control', groups' = groups, opened' = opened,
           FlushEnd \/ RecordPoint \/ TabletColumn \/ ReturnWrite
    PROVE  FileInv'
<1>1. Control /\ call \in Calls /\ NoCall.pc = "idle"
  BY DEF Inv, Control, CallFine, NoCall
<1>2. CASE FlushEnd
  <2>1. PICK after : /\ phase = "open" /\ call.pc = "flush" /\ io' = io /\ cur' = cur
                     /\ Answered(EndChunkGroup(io, call.group), after)
                     /\ after \in {NoCall, [call EXCEPT !.pc = "dictionary"],
                                           [call EXCEPT !.pc = "group"]}
    BY <1>2 DEF FlushEnd, At
  <2>2. after.pc \in {"idle", "dictionary", "group"}
    <3>1. /\ [call EXCEPT !.pc = "dictionary"].pc = "dictionary"
          /\ [call EXCEPT !.pc = "group"].pc = "group"
      BY <1>1, CallFields DEF Pcs
    <3> QED BY <1>1, <2>1, <3>1
  <2>3. after.pc \in Early /\ after.pc # "flush"
    BY <2>2 DEF Early
  <2> QED BY <2>1, <2>3, FileSame
<1>3. Onward.pc = call.pc
  BY <1>1, CallFields DEF Onward
<1>4. ASSUME phase = "open", call.pc = "columns", io' = io, cur' = cur,
             \E out : \E goOn \in {call, Onward, NoCall} : Answered(out, goOn)
      PROVE  FileInv'
  <2>1. PICK out, goOn : goOn \in {call, Onward, NoCall} /\ Answered(out, goOn)
    BY <1>4
  <2>2. goOn.pc \in Early /\ goOn.pc # "flush"
    BY <1>1, <1>3, <1>4, <2>1 DEF Early
  <2> QED BY <1>4, <2>1, <2>2, FileSame
<1>5. CASE RecordPoint
  <2>1. phase = "open" /\ call.pc = "columns" /\ io' = io /\ cur' = cur
    BY <1>1, <1>5, RecordCases
  <2>2. ASSUME NEW col \in Nat, NEW m \in Measurements, NEW p \in Points,
               NEW matches \in BOOLEAN, RecordWrites(col, m, p, matches)
        PROVE  \E out : Answered(out, Onward)
    BY <2>2 DEF RecordWrites, WroteColumn, Onward
  <2>3. \E out : \E goOn \in {call, Onward, NoCall} : Answered(out, goOn)
    BY <1>1, <1>5, <2>2, RecordCases
  <2> QED BY <1>4, <2>1, <2>3
<1>6. CASE TabletColumn
  <2>1. phase = "open" /\ call.pc = "columns" /\ io' = io /\ cur' = cur
    BY <1>1, <1>6, TabletCases
  <2>2. TabletWrites(call.next) => \E out : Answered(out, Onward)
    BY DEF TabletWrites, WroteColumn, Onward
  <2>3. \E out : \E goOn \in {call, Onward, NoCall} : Answered(out, goOn)
    BY <1>1, <1>6, <2>2, TabletCases
  <2> QED BY <1>4, <2>1, <2>3
<1>7. CASE ReturnWrite
  <2>1. phase = "open" /\ call.pc = "columns" /\ io' = io /\ cur' = cur /\ Answered("ok", NoCall)
    BY <1>1, <1>7, ReturnCases
  <2> QED BY <1>4, <2>1
<1> QED BY <1>2, <1>5, <1>6, <1>7

LEMMA FileOpenGroup ==
    ASSUME Inv, Control', OpenGroup, groups' = groups, opened' = opened
    PROVE  FileInv'
<1>1. Control /\ FileInv /\ call \in Calls /\ NoCall.pc = "idle"
  BY DEF Inv, Control, CallFine, NoCall
<1>2. /\ phase = "open" /\ call.pc = "group" /\ call.dev \in Devices /\ cur' = call.dev
      /\ io' = StartChunkGroup(io, call.dev)
      /\ \E out \in {"ok", "err"} : Answered(out, [call EXCEPT !.pc = "columns"])
  BY <1>1, OpenGroupIs
<1>3. IOFine(io, Devices) /\ Plain(io.stream)
  BY <1>1, <1>2 DEF FileInv, Sections
<1>4. /\ IOFine(io', Devices) /\ io'.stream = io.stream
      /\ DOMAIN io'.groups = DOMAIN io.groups \cup {call.dev}
  BY <1>2, <1>3, StartGroupFine
<1>5. PICK out, goOn : Answered(out, goOn) /\ goOn = [call EXCEPT !.pc = "columns"]
  BY <1>2
<1>6. goOn.pc = "columns" /\ goOn.pc \in Early
  BY <1>1, <1>5, CallFields DEF Early, Pcs
<1>7. call' = goOn \/ call' = NoCall
  BY <1>2, <1>5, AnsweredIs
<1>8. OpenGroups'
  BY <1>1, <1>2, <1>4, <1>6, <1>7 DEF OpenGroups
<1> QED BY <1>1, <1>2, <1>3, <1>4, <1>5, <1>6, <1>8, FileStep

(* close goes on to its next section.                                          *)
LEMMA FileSection ==
    ASSUME Inv, phase = "open", phase' = "open", file' = file,
           groups' = groups, opened' = opened, cur' = NoDevice,
           IOFine(io', Devices), call'.pc \in {"metadata", "footer", "complete"},
           call'.pc # "complete" => NoFooter(io'.stream) /\ Dictated(io'.stream, io'.dict),
           call'.pc = "footer" =>
               LET last == io'.stream[Len(io'.stream)]
               IN  last.kind = "metadata" /\ last.groups = io'.groups,
           call'.pc = "complete" => Footed(io'.stream, io'.groups, io'.dict)
    PROVE  FileInv'
<1>1. OpenGroups'
  BY DEF OpenGroups
<1>2. Sections'
  BY DEF Sections
<1>3. Disk'
  BY DEF Disk, Inv, FileInv, Control
<1> QED BY <1>1, <1>2, <1>3 DEF FileInv

LEMMA FileClose ==
    ASSUME Inv, Close, groups' = groups, opened' = opened
    PROVE  FileInv'
<1>1. /\ Control /\ FileInv /\ IOFine(io, Devices)
  BY DEF Inv, FileInv
<1>2. /\ phase = "open" /\ cur = NoDevice /\ writers = <<>> /\ cur' = cur /\ writers' = writers
      /\ \/ ClosesWith("dictionary", "metadata", WriteDictionary(io))
         \/ ClosesWith("metadata", "footer", WriteMetadata(io))
         \/ ClosesWith("footer", "complete", WriteFooter(io))
         \/ /\ call.pc = "complete" /\ phase' = "closed" /\ file' = io.stream
            /\ call' = NoCall /\ io' = io
  BY <1>1, CloseCases
<1>3. ASSUME NEW pc \in Pcs, NEW next \in Pcs, NEW x, ClosesWith(pc, next, x)
      PROVE  /\ call.pc = pc /\ call'.pc = next /\ io' = x
             /\ phase' = "open" /\ file' = file
  <2>1. call \in Calls
    BY <1>1 DEF Control, CallFine
  <2> QED BY <1>2, <1>3, <2>1, CallFields DEF ClosesWith, Answered
<1>4. CASE ClosesWith("dictionary", "metadata", WriteDictionary(io))
  <2>1. PICK x : x = WriteDictionary(io) /\ ClosesWith("dictionary", "metadata", x)
    BY <1>4
  <2>2. /\ call.pc = "dictionary" /\ call'.pc = "metadata" /\ io' = x
        /\ phase' = "open" /\ file' = file
    BY <1>3, <2>1 DEF Pcs
  <2>3. Plain(io.stream)
    BY <1>1, <2>2 DEF FileInv, Sections
  <2>4. CASE x = io /\ io.dict = {}
    <3>1. IOFine(x, Devices) /\ NoFooter(x.stream) /\ Dictated(x.stream, x.dict)
      BY <1>1, <2>3, <2>4, PlainHasNoFooter DEF Dictated
    <3> QED BY <1>2, <2>2, <3>1, FileSection
  <2>5. ASSUME NEW region, Extended(io, x, region), region.kind = "dictionary",
               region.names = io.dict
        PROVE  FileInv'
    <3>1. /\ IOFine(x, Devices)
          /\ Len(x.stream) = Len(io.stream) + 1 /\ Len(io.stream) \in Nat \ {0}
          /\ x.stream[Len(io.stream) + 1] = region
          /\ \A k \in 1..Len(io.stream) : x.stream[k] = io.stream[k]
          /\ x.dict = io.dict
      <4>1. x.dict = io.dict /\ region.kind \notin {"header", "chunk"}
        BY <2>5 DEF Extended
      <4>2. IOFine(x, Devices) /\ Lengthened(io.stream, x.stream, region)
        BY <1>1, <2>5, <4>1, ExtendedFine
      <4> QED BY <4>1, <4>2 DEF Lengthened
    <3>2. NoFooter(x.stream)
      <4> SUFFICES ASSUME NEW k \in 1..Len(x.stream) PROVE x.stream[k].kind # "footer"
        BY DEF NoFooter
      <4>1. CASE k \in 1..Len(io.stream)
        BY <2>3, <3>1, <4>1 DEF Plain
      <4>2. CASE k = Len(io.stream) + 1
        BY <2>5, <3>1, <4>2
      <4> QED BY <3>1, <4>1, <4>2
    <3>3. Dictated(x.stream, x.dict)
      BY <2>5, <3>1 DEF Dictated
    <3> QED BY <1>2, <2>2, <3>1, <3>2, <3>3, FileSection
  <2> QED BY <1>1, <2>1, <2>4, <2>5, DictionaryIs
<1>5. CASE ClosesWith("metadata", "footer", WriteMetadata(io))
  <2>1. PICK x : x = WriteMetadata(io) /\ ClosesWith("metadata", "footer", x)
    BY <1>5
  <2>2. /\ call.pc = "metadata" /\ call'.pc = "footer" /\ io' = x
        /\ phase' = "open" /\ file' = file
    BY <1>3, <2>1 DEF Pcs
  <2>3. NoFooter(io.stream) /\ Dictated(io.stream, io.dict)
    BY <1>1, <2>2 DEF FileInv, Sections
  <2>4. PICK region : /\ Extended(io, x, region) /\ region.kind = "metadata"
                      /\ region.groups = io.groups
    BY <1>1, <2>1, MetadataIs
  <2>5. /\ IOFine(x, Devices)
        /\ Len(x.stream) = Len(io.stream) + 1 /\ Len(io.stream) \in Nat \ {0}
        /\ x.stream[Len(io.stream) + 1] = region
        /\ \A k \in 1..Len(io.stream) : x.stream[k] = io.stream[k]
        /\ x.dict = io.dict /\ x.groups = io.groups
    <3>1. x.dict = io.dict /\ x.groups = io.groups
      BY <2>4 DEF Extended
    <3>2. region.kind \notin {"header", "chunk"}
      BY <2>4
    <3>3. IOFine(x, Devices) /\ Lengthened(io.stream, x.stream, region)
      BY <1>1, <2>4, <3>2, ExtendedFine
    <3> QED BY <3>1, <3>3 DEF Lengthened
  <2>6. NoFooter(x.stream)
    BY <2>3, <2>4, <2>5 DEF NoFooter
  <2>7. Dictated(x.stream, x.dict)
    BY <2>3, <2>5 DEF Dictated
  <2> QED BY <1>2, <2>2, <2>4, <2>5, <2>6, <2>7, FileSection
<1>6. CASE ClosesWith("footer", "complete", WriteFooter(io))
  <2>1. PICK x : x = WriteFooter(io) /\ ClosesWith("footer", "complete", x)
    BY <1>6
  <2>2. /\ call.pc = "footer" /\ call'.pc = "complete" /\ io' = x
        /\ phase' = "open" /\ file' = file
    BY <1>3, <2>1 DEF Pcs
  <2>3. /\ NoFooter(io.stream) /\ Dictated(io.stream, io.dict)
        /\ io.stream[Len(io.stream)].kind = "metadata"
        /\ io.stream[Len(io.stream)].groups = io.groups
    BY <1>1, <2>2 DEF FileInv, Sections
  <2>4. PICK region : /\ Extended(io, x, region) /\ region.kind = "footer"
                      /\ region.metadata_offset = io.stream[Len(io.stream)].off
    BY <1>1, <2>1, FooterIs
  <2>5. /\ IOFine(x, Devices)
        /\ Len(x.stream) = Len(io.stream) + 1 /\ Len(io.stream) \in Nat \ {0}
        /\ x.stream[Len(io.stream) + 1] = region
        /\ \A k \in 1..Len(io.stream) : x.stream[k] = io.stream[k]
        /\ x.dict = io.dict /\ x.groups = io.groups
    <3>1. x.dict = io.dict /\ x.groups = io.groups
      BY <2>4 DEF Extended
    <3>2. region.kind \notin {"header", "chunk"}
      BY <2>4
    <3>3. IOFine(x, Devices) /\ Lengthened(io.stream, x.stream, region)
      BY <1>1, <2>4, <3>2, ExtendedFine
    <3> QED BY <3>1, <3>3 DEF Lengthened
  <2>6. Footed(x.stream, x.groups, x.dict)
    <3>1. Dictated(x.stream, x.dict)
      BY <2>3, <2>5 DEF Dictated
    <3>2. \A k \in 1..Len(x.stream) : x.stream[k].kind = "footer" => k = Len(x.stream)
      BY <2>3, <2>5 DEF NoFooter
    <3>3. \E k \in 1..Len(x.stream) :
             /\ x.stream[k].kind = "metadata" /\ x.stream[k].groups = x.groups
             /\ x.stream[k].off = x.stream[Len(x.stream)].metadata_offset
      BY <2>3, <2>4, <2>5
    <3> QED BY <2>4, <2>5, <3>1, <3>2, <3>3 DEF Footed
  <2> QED BY <1>2, <2>2, <2>5, <2>6, FileSection
<1>7. CASE /\ call.pc = "complete" /\ phase' = "closed" /\ file' = io.stream
           /\ call' = NoCall /\ io' = io
  <2>1. Footed(io.stream, io.groups, io.dict) /\ opened = FALSE
    BY <1>1, <1>2, <1>7 DEF FileInv, Sections, Control
  <2>2. OpenGroups' /\ Sections'
    BY <1>2, <1>7, <2>1 DEF OpenGroups, Sections, NoCall
  <2>3. Len(io.stream) \in Nat /\ io.stream = SubSeq(io.stream, 1, Len(io.stream))
    <3>1. PICK S : io.stream \in Seq(S)
      BY <1>1 DEF IOFine, Regions, IsSeq
    <3> QED BY <3>1
  <2>4. Disk'
    BY <1>7, <2>1, <2>3 DEF Disk
  <2> QED BY <1>1, <1>7, <2>2, <2>4 DEF FileInv
<1> QED BY <1>2, <1>4, <1>5, <1>6, <1>7

LEMMA FileCrash ==
    ASSUME Inv, Crash, groups' = groups, opened' = opened
    PROVE  FileInv'
<1>1. /\ Control /\ FileInv /\ IOFine(io, Devices)
  BY DEF Inv, FileInv
<1>2. /\ phase = "open" /\ cur' = cur /\ writers' = writers /\ io' = io
      /\ phase' = "gone" /\ call' = NoCall
      /\ \E n \in 0..Len(io'.stream) : file' = SubSeq(io'.stream, 1, n)
  BY DEF Crash, Die
<1>3. call.pc \in Pcs
  BY <1>1, CallFields DEF Control, CallFine
<1>4. \/ NoFooter(io.stream)
      \/ Footed(io.stream, io.groups, io.dict) /\ writers = <<>> /\ cur = NoDevice
  <2>1. CASE call.pc = "complete"
    BY <1>1, <1>2, <2>1 DEF FileInv, Sections, Control, CallFine
  <2>2. CASE call.pc # "complete"
    BY <1>1, <1>2, <1>3, <2>2, PlainHasNoFooter DEF FileInv, Sections, Pcs
  <2> QED BY <2>1, <2>2
<1>5. Sections' /\ OpenGroups'
  BY <1>1, <1>2, <1>4 DEF Sections, OpenGroups, FileInv, NoCall
<1>6. Disk'
  BY <1>1, <1>2 DEF Disk, FileInv, Control
<1> QED BY <1>1, <1>2, <1>5, <1>6 DEF FileInv

LEMMA SubSeqIs ==
    ASSUME NEW s, IsSeq(s), NEW n \in 0..Len(s), NEW t, t = SubSeq(s, 1, n)
    PROVE  /\ Len(t) = n /\ Len(s) \in Nat /\ \A k \in 1..n : t[k] = s[k]
           /\ n = Len(s) => t = s
<1>1. PICK S : s \in Seq(S)
  BY DEF IsSeq
<1> QED BY <1>1

(* A reader opens only what close completed, and finds the writer's metadata.  *)
LEMMA OpenIs ==
    ASSUME Inv, Open
    PROVE  /\ Footed(io.stream, io.groups, io.dict)
           /\ file = io.stream /\ groups' = io.groups /\ writers = <<>>
<1>1. /\ phase # "open" /\ HasFooter(file) /\ groups' = Metadata(file)
  BY DEF Open
<1>2. FileInv /\ Regions(io.stream) /\ IsSeq(io.stream) /\ Len(io.stream) \in Nat
  BY DEF Inv, FileInv, IOFine, Regions
<1>3. PICK n \in 0..Len(io.stream) : file = SubSeq(io.stream, 1, n)
  BY <1>1, <1>2 DEF FileInv, Disk
<1>4. /\ Len(file) = n /\ \A k \in 1..n : file[k] = io.stream[k]
      /\ n = Len(io.stream) => file = io.stream
  BY <1>2, <1>3, SubSeqIs
<1>5. n \in 1..Len(io.stream) /\ io.stream[n].kind = "footer"
  <2>1. n # 0
    <3>1. n = 0 => file = <<>>
      <4>1. PICK S : io.stream \in Seq(S)
        BY <1>2 DEF IsSeq
      <4> QED BY <1>3, <4>1
    <3> QED BY <1>1, <3>1 DEF HasFooter
  <2> QED BY <1>1, <1>2, <1>4, <2>1 DEF HasFooter
<1>6. Footed(io.stream, io.groups, io.dict) /\ writers = <<>>
  <2>1. ~NoFooter(io.stream)
    BY <1>5 DEF NoFooter
  <2> QED BY <1>1, <1>2, <2>1 DEF FileInv, Sections
<1>7. file = io.stream
  BY <1>4, <1>5, <1>6 DEF Footed
<1>8. PICK k \in 1..Len(io.stream) :
         /\ io.stream[k].kind = "metadata" /\ io.stream[k].groups = io.groups
         /\ io.stream[k].off = io.stream[Len(io.stream)].metadata_offset
  BY <1>6 DEF Footed
<1>9. RegionAt(io.stream, io.stream[Len(io.stream)].metadata_offset) = io.stream[k]
  BY <1>2, <1>8, RegionAtIs
<1> QED BY <1>1, <1>6, <1>7, <1>8, <1>9 DEF Metadata

LEMMA FileOpen ==
    ASSUME Inv, Open
    PROVE  FileInv'
<1>1. FileInv /\ UNCHANGED writerVars /\ opened' = TRUE
  BY DEF Inv, Open
<1>2. UNCHANGED <<cur, writers, io, call, phase, file>>
  BY <1>1 DEF writerVars
<1>3. OpenGroups' /\ Sections' /\ IOFine(io', Devices)
  BY <1>1, <1>2 DEF FileInv, OpenGroups, Sections
<1>4. Disk'
  BY <1>1, <1>2, OpenIs DEF FileInv, Disk
<1> QED BY <1>3, <1>4 DEF FileInv

LEMMA FileStays ==
    ASSUME FileInv, UNCHANGED <<cur, writers, io, call, phase, file, groups>>,
           opened' = opened
    PROVE  FileInv'
<1>1. OpenGroups' /\ Sections' /\ IOFine(io', Devices)
  BY DEF FileInv, OpenGroups, Sections
<1>2. Disk'
  BY DEF FileInv, Disk
<1> QED BY <1>1, <1>2 DEF FileInv

THEOREM FileNext == Inv /\ Control' /\ [Next]_vars => FileInv'
<1> SUFFICES ASSUME Inv, Control', [Next]_vars PROVE FileInv'
  OBVIOUS
<1>1. Control /\ FileInv
  BY DEF Inv
<1>2. ASSUME WriterNext, UNCHANGED readerVars PROVE FileInv'
  <2>1. groups' = groups /\ opened' = opened
    BY <1>2 DEF readerVars
  <2>2. CASE \/ \E d \in Devices, list \in SchemaLists : Register(d, list)
             \/ \E d \in Devices : \E op, input : Starts(op, d, input)
             \/ \E op \in {"flush", "close"} : StartFlush(op)
    BY <1>1, <2>1, <2>2, FileStarts
  <2>3. CASE FlushChunk
    BY <2>1, <2>3, FileFlushChunk
  <2>4. CASE FlushEnd \/ RecordPoint \/ TabletColumn \/ ReturnWrite
    BY <2>1, <2>4, FileWrites
  <2>5. CASE OpenGroup
    BY <2>1, <2>5, FileOpenGroup
  <2>6. CASE Close
    BY <2>1, <2>6, FileClose
  <2>7. CASE Crash
    BY <2>1, <2>7, FileCrash
  <2> QED BY <1>2, <2>2, <2>3, <2>4, <2>5, <2>6, <2>7, WriterSteps
<1>3. CASE Open
  BY <1>3, FileOpen
<1>4. CASE UNCHANGED writerVars /\ groups' = groups /\ opened' = opened
  BY <1>1, <1>4, FileStays DEF writerVars
<1>5. CASE UNCHANGED vars
  BY <1>4, <1>5 DEF vars, readerVars
<1> QED BY <1>2, <1>3, <1>4, <1>5 DEF Next, Read, ClearCache

THEOREM FileInit == Init => FileInv
<1> SUFFICES ASSUME Init PROVE FileInv
  OBVIOUS
<1>1. /\ io = NewIOWriter /\ phase = "open" /\ file = <<>> /\ opened = FALSE
      /\ cur = NoDevice /\ call.pc = "idle"
  BY DEF Init, WriterInit, NoCall
<1>2. IOFine(io, Devices) /\ Plain(io.stream)
  BY <1>1, NewIOFine
<1>3. OpenGroups
  BY <1>1 DEF OpenGroups
<1>4. Sections
  BY <1>1, <1>2 DEF Sections
<1>5. Disk
  BY <1>1 DEF Disk
<1> QED BY <1>2, <1>3, <1>4, <1>5 DEF FileInv

(* The inductive invariant of a file's life.                                   *)
THEOREM SpecInv == Spec => []Inv
<1>1. Init => Inv
  BY ControlInit, WritersInit, FileInit DEF Inv
<1>2. Inv /\ [Next]_vars => Inv'
  <2> SUFFICES ASSUME Inv, [Next]_vars PROVE Inv'
    OBVIOUS
  <2>1. Control /\ WritersFine /\ FileInv
    BY DEF Inv
  <2>2. Control' /\ WritersFine'
    BY <2>1, ControlNext, WritersNext
  <2>3. FileInv'
    BY <2>2, FileNext
  <2> QED BY <2>2, <2>3 DEF Inv
<1> QED BY <1>1, <1>2, PTL DEF Spec
-------------------------------------------------------------------------------
(* What follows from the invariant.                                            *)

(* Every reachable state has its type.                                         *)
THEOREM SpecTypeOK == Spec => []TypeOK
<1>1. Inv => TypeOK
  <2> SUFFICES ASSUME Inv PROVE TypeOK
    OBVIOUS
  <2>1. Control /\ WritersFine /\ FileInv
    BY DEF Inv
  <2>2. \A i \in DOMAIN writers : writers[i].name \in Measurements
    <3>1. DOMAIN writers = 1..Len(writers)
      BY <2>1 DEF WritersFine
    <3>2. \A i \in 1..Len(writers) : \E g : Holds(writers[i], g)
      BY <2>1 DEF WritersFine
    <3> QED BY <3>1, <3>2, HoldsTyped
  <2>3. DOMAIN io.groups \subseteq Devices /\ (cur # NoDevice => cur \in DOMAIN io.groups)
    BY <2>1 DEF FileInv, IOFine, OpenGroups
  <2> QED BY <2>1, <2>2, <2>3 DEF TypeOK, Control
<1> QED BY <1>1, SpecInv, PTL

LEMMA SameCardinality ==
    ASSUME NEW K, IsFiniteSet(K), NEW T, NEW f \in [K -> T],
           \A k, l \in K : f[k] = f[l] => k = l,
           \A t \in T : \E k \in K : f[k] = t
    PROVE  Cardinality(T) = Cardinality(K)
<1>1. f \in Bijection(K, T)
  BY DEF Bijection, Injection, Surjection, IsInjective
<1> QED BY <1>1, FS_Bijection DEF ExistsBijection

LEMMA MetadataCounts ==
    ASSUME IOFine(io, Devices)
    PROVE  Cardinality(Entries) = Cardinality(Chunks)
<1> DEFINE s == io.stream
           gs == io.groups
           K == {k \in 1..Len(s) : s[k].kind = "chunk"}
           Off(e) == gs[e[1]][e[2]].off
<1>1. Regions(s) /\ Addressed(gs, s) /\ Len(s) \in Nat /\ IsSeq(s)
  BY DEF IOFine, Regions
<1>2. \A e : e \in Entries <=> \E d \in DOMAIN gs : \E i \in 1..Len(gs[d]) : e = <<d, i>>
  BY DEF Entries
<1>3. \A r : r \in Chunks <=> \E k \in K : r = s[k]
  <2>1. DOMAIN s = 1..Len(s)
    <3>1. PICK S : s \in Seq(S)
      BY <1>1 DEF IsSeq
    <3> QED BY <3>1
  <2> QED BY <2>1 DEF Chunks, ToSet
<1>4. IsFiniteSet(K)
  <2>1. IsFiniteSet(1..Len(s))
    BY <1>1, FS_Interval
  <2> QED BY <2>1, FS_Subset
<1>5. \A k, l \in K : s[k].off = s[l].off => k = l
  BY <1>1, RegionsDiffer
<1>6. \A e \in Entries : \E k \in K : s[k].off = Off(e)
  BY <1>1, <1>2, SMTT(20) DEF Addressed
<1>7. \A k \in K : \E e \in Entries : Off(e) = s[k].off
  <2> SUFFICES ASSUME NEW k \in K PROVE \E e \in Entries : Off(e) = s[k].off
    OBVIOUS
  <2>1. PICK d \in DOMAIN gs : \E i \in 1..Len(gs[d]) : gs[d][i].off = s[k].off
    BY <1>1 DEF Addressed
  <2>2. PICK i \in 1..Len(gs[d]) : gs[d][i].off = s[k].off
    BY <2>1
  <2>3. PICK e : e = <<d, i>>
    OBVIOUS
  <2>4. e \in Entries /\ e[1] = d /\ e[2] = i
    BY <1>2, <2>3
  <2> QED BY <2>2, <2>4
<1>8. \A e \in Entries : \A f \in Entries : Off(e) = Off(f) => e = f
  BY <1>1, <1>2, SMTT(20) DEF Addressed
<1> HIDE DEF s, gs, K, Off
<1>9. Cardinality(Chunks) = Cardinality(K)
  <2> DEFINE f == [k \in K |-> s[k]]
  <2>1. f \in [K -> Chunks]
    BY <1>3
  <2>2. \A k, l \in K : f[k] = f[l] => k = l
    BY <1>5
  <2>3. \A t \in Chunks : \E k \in K : f[k] = t
    BY <1>3
  <2> HIDE DEF f
  <2> QED BY <1>4, <2>1, <2>2, <2>3, SameCardinality
<1>10. Cardinality(Entries) = Cardinality(K)
  <2> DEFINE f == [k \in K |-> CHOOSE e \in Entries : Off(e) = s[k].off]
  <2>1. \A k \in K : f[k] \in Entries /\ Off(f[k]) = s[k].off
    BY <1>7
  <2>2. f \in [K -> Entries]
    BY <2>1
  <2> HIDE DEF f
  <2>3. \A k, l \in K : f[k] = f[l] => k = l
    BY <2>1, <1>5
  <2>4. \A e \in Entries : \E k \in K : f[k] = e
    <3> SUFFICES ASSUME NEW e \in Entries PROVE \E k \in K : f[k] = e
      OBVIOUS
    <3>1. PICK k \in K : s[k].off = Off(e)
      BY <1>6
    <3>2. f[k] = e
      BY <1>8, <2>1, <3>1
    <3> QED BY <3>2
  <2> QED BY <1>4, <2>2, <2>3, <2>4, SameCardinality
<1> QED BY <1>9, <1>10

(* The metadata addresses the chunks that are on disk and no others: the       *)
(* position, advanced by a count of bytes made elsewhere than the bytes are    *)
(* written, never leaves the end of the stream.                                *)
THEOREM SpecMetadataAddressesChunks == Spec => []MetadataAddressesChunks
<1>1. Inv => MetadataAddressesChunks
  <2> SUFFICES ASSUME Inv PROVE MetadataAddressesChunks
    OBVIOUS
  <2>1. IOFine(io, Devices)
    BY DEF Inv, FileInv
  <2>2. Addressed(io.groups, io.stream) /\ IsSeq(io.stream) /\ AtEnd(io)
    BY <2>1 DEF IOFine, Regions
  <2>3. \A e : e \in Entries <=>
            \E d \in DOMAIN io.groups : \E i \in 1..Len(io.groups[d]) : e = <<d, i>>
    BY DEF Entries
  <2>4. \A k \in 1..Len(io.stream) :
            io.stream[k].kind = "chunk" => io.stream[k] \in Chunks
    <3>1. PICK S : io.stream \in Seq(S)
      BY <2>2 DEF IsSeq
    <3> QED BY <3>1 DEF Chunks, ToSet
  <2>5. \A e \in Entries :
          \E r \in Chunks : /\ r.off = io.groups[e[1]][e[2]].off
                           /\ r.name = io.groups[e[1]][e[2]].name
    <3> SUFFICES ASSUME NEW e \in Entries
                 PROVE  \E r \in Chunks : /\ r.off = io.groups[e[1]][e[2]].off
                                          /\ r.name = io.groups[e[1]][e[2]].name
      OBVIOUS
    <3>1. PICK d \in DOMAIN io.groups : \E i \in 1..Len(io.groups[d]) : e = <<d, i>>
      BY <2>3
    <3>2. PICK i \in 1..Len(io.groups[d]) : e = <<d, i>>
      BY <3>1
    <3>3. PICK k \in 1..Len(io.stream) :
             /\ io.stream[k].kind = "chunk" /\ io.stream[k].off = io.groups[d][i].off
             /\ io.stream[k].name = io.groups[d][i].name
      BY <2>2 DEF Addressed
    <3> QED BY <2>4, <3>2, <3>3
  <2>6. \A e, f \in Entries :
          io.groups[e[1]][e[2]].off = io.groups[f[1]][f[2]].off => e = f
    <3> SUFFICES ASSUME NEW e \in Entries, NEW f \in Entries,
                        io.groups[e[1]][e[2]].off = io.groups[f[1]][f[2]].off
                 PROVE  e = f
      OBVIOUS
    <3>1. PICK d \in DOMAIN io.groups : \E i \in 1..Len(io.groups[d]) : e = <<d, i>>
      BY <2>3
    <3>2. PICK i \in 1..Len(io.groups[d]) : e = <<d, i>>
      BY <3>1
    <3>3. PICK b \in DOMAIN io.groups : \E j \in 1..Len(io.groups[b]) : f = <<b, j>>
      BY <2>3
    <3>4. PICK j \in 1..Len(io.groups[b]) : f = <<b, j>>
      BY <3>3
    <3>5. io.groups[d][i].off = io.groups[b][j].off
      BY <3>2, <3>4
    <3>6. d = b /\ i = j
      BY <2>2, <3>5 DEF Addressed
    <3> QED BY <3>2, <3>4, <3>6
  <2>7. io.stream[Len(io.stream)].kind \in {"header", "chunk"} =>
          io.pos = StreamEnd(io.stream)
    BY <2>2 DEF AtEnd
  <2> QED BY <2>1, <2>5, <2>6, <2>7, MetadataCounts DEF MetadataAddressesChunks
<1> QED BY <1>1, SpecInv, PTL

(* A file whose close returned Ok can be read: the footer finds the metadata   *)
(* past the dictionary, and the dictionary has its names.                      *)
THEOREM SpecFooterFindsMetadata == Spec => []FooterFindsMetadata
<1>1. Inv => FooterFindsMetadata
  <2> SUFFICES ASSUME Inv, phase = "closed"
               PROVE  /\ HasFooter(file)
                      /\ \E r \in ToSet(file) : /\ r.off = file[Len(file)].metadata_offset
                                               /\ r.kind = "metadata"
                                               /\ r.groups = io.groups
                      /\ \A d \in DOMAIN io.groups : \E r \in ToSet(file) :
                            /\ r.kind = "dictionary"
                            /\ {d} \cup {c.name : c \in ToSet(io.groups[d])} \subseteq r.names
    BY DEF FooterFindsMetadata
  <2>1. /\ file = io.stream /\ Footed(file, io.groups, io.dict)
        /\ IOFine(io, Devices)
    BY DEF Inv, FileInv, Disk
  <2>2. /\ IsSeq(file) /\ Len(file) \in Nat \ {0} /\ Named(io.groups, io.dict)
        /\ io.groups \in [DOMAIN io.groups -> Seq(Meta)]
    BY <2>1 DEF IOFine, Regions
  <2>3. DOMAIN file = 1..Len(file) /\ file # <<>>
    <3>1. PICK S : file \in Seq(S)
      BY <2>2 DEF IsSeq
    <3> QED BY <2>2, <3>1
  <2>4. \A k \in 1..Len(file) : file[k] \in ToSet(file)
    BY <2>3 DEF ToSet
  <2>5. HasFooter(file)
    BY <2>1, <2>3 DEF HasFooter, Footed
  <2>6. \E r \in ToSet(file) : /\ r.off = file[Len(file)].metadata_offset
                              /\ r.kind = "metadata"
                              /\ r.groups = io.groups
    BY <2>1, <2>4 DEF Footed
  <2>7. ASSUME NEW d \in DOMAIN io.groups
        PROVE  \E r \in ToSet(file) :
                 /\ r.kind = "dictionary"
                 /\ {d} \cup {c.name : c \in ToSet(io.groups[d])} \subseteq r.names
    <3>1. d \in io.dict /\ \A i \in 1..Len(io.groups[d]) : io.groups[d][i].name \in io.dict
      BY <2>2 DEF Named
    <3>2. PICK k \in 1..Len(file) : file[k].kind = "dictionary" /\ file[k].names = io.dict
      BY <2>1, <3>1 DEF Footed, Dictated
    <3>3. DOMAIN io.groups[d] = 1..Len(io.groups[d])
      BY <2>2
    <3>4. {d} \cup {c.name : c \in ToSet(io.groups[d])} \subseteq io.dict
      BY <3>1, <3>3 DEF ToSet
    <3> QED BY <2>4, <3>2, <3>4
  <2> QED BY <2>5, <2>6, <2>7
<1> QED BY <1>1, SpecInv, PTL
-------------------------------------------------------------------------------
(* The cache.                                                                  *)

CacheFine ==
    /\ ~opened => cache = <<>>
    /\ \A key \in DOMAIN cache : \E d \in Devices, m \in Measurements :
          key = CacheKey(d, m) /\ Has(d, m) /\ cache[key] = ReadFirst(d, m)

LEMMA WriterIsOpen ==
    ASSUME WriterNext
    PROVE  phase = "open"
<1>1. ASSUME NEW d \in Devices, NEW op, NEW input, Starts(op, d, input) PROVE phase = "open"
  BY <1>1 DEF Starts, StartWrite, Idle
<1> QED BY <1>1, WriterSteps DEF Register, StartFlush, Idle, FlushChunk, FlushEnd, OpenGroup,
          RecordPoint, TabletColumn, ReturnWrite, Close, CloseDictionary, CloseMetadata,
          CloseFooter, CloseComplete, Crash, At

THEOREM CacheNext == Control /\ CacheFine /\ [Next]_vars => CacheFine'
<1> SUFFICES ASSUME Control, CacheFine, [Next]_vars PROVE CacheFine'
  OBVIOUS
<1>1. ASSUME cache' = <<>> PROVE CacheFine'
  BY <1>1 DEF CacheFine
<1>2. CASE WriterNext /\ UNCHANGED readerVars
  <2>1. ~opened
    BY <1>2, WriterIsOpen DEF Control
  <2> QED BY <1>1, <1>2, <2>1 DEF CacheFine, readerVars
<1>3. CASE Open \/ ClearCache
  BY <1>1, <1>3 DEF Open, ClearCache
<1>4. ASSUME groups' = groups, file' = file
      PROVE  \A d \in Devices, m \in Measurements :
                 Has(d, m)' = Has(d, m) /\ ReadFirst(d, m)' = ReadFirst(d, m)
  BY <1>4 DEF Has, ReadFirst, ChunksOf
<1>5. ASSUME NEW d \in Devices, NEW m \in Measurements, Read(d, m) PROVE CacheFine'
  <2>1. /\ opened /\ opened' = opened /\ groups' = groups /\ file' = file
        /\ Has(d, m) /\ cache' = With(cache, CacheKey(d, m), ReadFirst(d, m))
    BY <1>5 DEF Read, writerVars
  <2>2. ASSUME NEW key \in DOMAIN cache'
        PROVE  \E e \in Devices, n \in Measurements :
                  key = CacheKey(e, n) /\ Has(e, n) /\ cache'[key] = ReadFirst(e, n)
    <3>1. CASE key = CacheKey(d, m)
      BY <2>1, <3>1 DEF With
    <3>2. CASE key # CacheKey(d, m)
      <4>1. key \in DOMAIN cache /\ cache'[key] = cache[key]
        BY <2>1, <2>2, <3>2 DEF With
      <4> QED BY <4>1 DEF CacheFine
    <3> QED BY <3>1, <3>2
  <2>3. \A e \in Devices, n \in Measurements : CacheKey(e, n)' = CacheKey(e, n)
    BY DEF CacheKey
  <2> QED BY <1>4, <2>1, <2>2, <2>3 DEF CacheFine
<1>6. CASE UNCHANGED vars
  <2>1. opened' = opened /\ cache' = cache /\ groups' = groups /\ file' = file
    BY <1>6 DEF vars, readerVars, writerVars
  <2>2. \A e \in Devices, n \in Measurements : CacheKey(e, n)' = CacheKey(e, n)
    BY DEF CacheKey
  <2> QED BY <1>4, <2>1, <2>2 DEF CacheFine
<1> QED BY <1>2, <1>3, <1>5, <1>6 DEF Next

LEMMA ConcatIs ==
    ASSUME NEW X, NEW s \in Seq(X), NEW t \in Seq(X)
    PROVE  /\ s \o t \in Seq(X) /\ Len(s \o t) = Len(s) + Len(t)
           /\ \A i \in 1..Len(s) : (s \o t)[i] = s[i]
           /\ \A i \in 1..Len(t) : (s \o t)[Len(s) + i] = t[i]
  OBVIOUS

Keyed(k, a, b) ==
    /\ Len(k) = Len(a) + 1 + Len(b) /\ k[Len(a) + 1] = Colon
    /\ \A i \in 1..Len(a) : k[i] = a[i]
    /\ \A i \in 1..Len(b) : k[Len(a) + 1 + i] = b[i]

LEMMA KeyIs ==
    ASSUME NEW X, Colon \in X, NEW a \in Seq(X), NEW b \in Seq(X)
    PROVE  Keyed(CacheKey(a, b), a, b)
<1>1. PICK c : c = a \o <<Colon>>
  OBVIOUS
<1>2. /\ c \in Seq(X) /\ Len(c) = Len(a) + 1 /\ c[Len(a) + 1] = Colon
      /\ \A i \in 1..Len(a) : c[i] = a[i]
  BY <1>1
<1>3. CacheKey(a, b) = c \o b
  BY <1>1 DEF CacheKey
<1>4. /\ Len(c \o b) = Len(c) + Len(b)
      /\ \A i \in 1..Len(c) : (c \o b)[i] = c[i]
      /\ \A i \in 1..Len(b) : (c \o b)[Len(c) + i] = b[i]
  BY <1>2
<1>5. Len(a) \in Nat /\ Len(b) \in Nat
  OBVIOUS
<1>6. PICK k : k = c \o b
  OBVIOUS
<1>7. Keyed(k, a, b)
  BY <1>2, <1>4, <1>5, <1>6 DEF Keyed
<1> QED BY <1>3, <1>6, <1>7

(* Only the device's name has to be free of the separator.                     *)
LEMMA KeysDiffer ==
    ASSUME NEW Chars, Colon \notin Chars,
           NEW d \in Seq(Chars), NEW e \in Seq(Chars),
           NEW m \in Seq(Chars \cup {Colon}), NEW n \in Seq(Chars \cup {Colon}),
           CacheKey(d, m) = CacheKey(e, n)
    PROVE  d = e /\ m = n
<1>0. PICK X : X = Chars \cup {Colon}
  OBVIOUS
<1>1. /\ Len(d) \in Nat /\ Len(e) \in Nat /\ Len(m) \in Nat /\ Len(n) \in Nat
      /\ d \in Seq(X) /\ e \in Seq(X) /\ <<Colon>> \in Seq(X)
      /\ m \in Seq(X) /\ n \in Seq(X) /\ Colon \in X
  BY <1>0
<1>3. \A i \in 1..Len(d) : d[i] # Colon
  OBVIOUS
<1>4. \A i \in 1..Len(e) : e[i] # Colon
  OBVIOUS
<1>5. PICK k : k = CacheKey(d, m) /\ k = CacheKey(e, n)
  OBVIOUS
<1>6. /\ Len(k) = Len(d) + 1 + Len(m) /\ k[Len(d) + 1] = Colon
      /\ \A i \in 1..Len(d) : k[i] = d[i]
      /\ \A i \in 1..Len(m) : k[Len(d) + 1 + i] = m[i]
  <2>1. Keyed(k, d, m)
    BY <1>1, <1>5, KeyIs
  <2> QED BY <2>1 DEF Keyed
<1>7. /\ Len(k) = Len(e) + 1 + Len(n) /\ k[Len(e) + 1] = Colon
      /\ \A i \in 1..Len(e) : k[i] = e[i]
      /\ \A i \in 1..Len(n) : k[Len(e) + 1 + i] = n[i]
  <2>1. Keyed(k, e, n)
    BY <1>1, <1>5, KeyIs
  <2> QED BY <2>1 DEF Keyed
<1>8. Len(d) = Len(e)
  <2>1. ~(Len(d) < Len(e))
    <3>1. SUFFICES ASSUME Len(d) < Len(e) PROVE FALSE
      OBVIOUS
    <3>2. Len(d) + 1 \in 1..Len(e)
      BY <1>1, <3>1
    <3> QED BY <1>4, <1>6, <1>7, <3>2
  <2>2. ~(Len(e) < Len(d))
    <3>1. SUFFICES ASSUME Len(e) < Len(d) PROVE FALSE
      OBVIOUS
    <3>2. Len(e) + 1 \in 1..Len(d)
      BY <1>1, <3>1
    <3> QED BY <1>3, <1>6, <1>7, <3>2
  <2> QED BY <1>1, <2>1, <2>2
<1>9. Len(m) = Len(n)
  BY <1>1, <1>6, <1>7, <1>8
<1>10. \A i \in 1..Len(d) : d[i] = e[i]
  BY <1>6, <1>7, <1>8
<1>11. \A i \in 1..Len(m) : m[i] = n[i]
  BY <1>6, <1>7, <1>8, <1>9
<1> QED BY <1>1, <1>8, <1>9, <1>10, <1>11, SeqEqual

(* What the cache answers for a series is what the file holds of it, whatever  *)
(* was read before: for device names without the key's separator.              *)
THEOREM SpecCacheIsCoherent ==
    ASSUME NEW Chars, Colon \notin Chars,
           Devices \subseteq Seq(Chars), Measurements \subseteq Seq(Chars \cup {Colon})
    PROVE  Spec => []CacheIsCoherent
<1>1. CacheFine => CacheIsCoherent
  <2> SUFFICES ASSUME CacheFine, NEW d \in Devices, NEW m \in Measurements,
                      CacheKey(d, m) \in DOMAIN cache
               PROVE  Has(d, m) /\ cache[CacheKey(d, m)] = ReadFirst(d, m)
    BY DEF CacheIsCoherent
  <2>1. PICK e \in Devices, n \in Measurements :
           /\ CacheKey(d, m) = CacheKey(e, n)
           /\ Has(e, n) /\ cache[CacheKey(d, m)] = ReadFirst(e, n)
    BY DEF CacheFine
  <2>2. d = e /\ m = n
    BY <2>1, KeysDiffer
  <2> QED BY <2>1, <2>2
<1>2. Init => CacheFine
  BY DEF Init, CacheFine
<1> QED BY <1>1, <1>2, CacheNext, SpecControl, PTL DEF Spec
-------------------------------------------------------------------------------
(* Orderly callers: a tablet has the columns registered for its device, and no *)
(* schema is registered while the device's group is open.  Then the writers    *)
(* are those of the device's schemas, in their order.                          *)
Matching(ws, columns) ==
    Len(ws) = Len(columns) /\ \A i \in 1..Len(ws) : ws[i].name = columns[i]

Aligned ==
    /\ phase = "open" /\ cur # NoDevice => Matching(writers, schemas[cur])
    /\ call.op = "tablet" /\ call.pc \in {"flush", "group", "columns"} =>
          call.input.columns = schemas[call.dev]

\* Until a call is refused, each open page has a value for each timestamp.
Evenly == phase = "open" /\ ~refused => \A i \in 1..Len(writers) : Even(writers[i])

Orderly == Aligned /\ Evenly /\ PanicNeedsRefusal

LEMMA OrderlyAfter ==
    ASSUME phase = "open", schemas' = schemas, NEW out, NEW goOn, Answered(out, goOn),
           cur' # NoDevice => Matching(writers', schemas[cur']),
           goOn.op = "tablet" /\ goOn.pc \in {"flush", "group", "columns"} =>
               goOn.input.columns = schemas[goOn.dev],
           out = "ok" /\ ~refused => \A i \in 1..Len(writers') : Even(writers'[i]),
           out = "panic" => refused
    PROVE  Orderly'
<1>1. NoCall.op = "none" /\ "ok" # "err" /\ "ok" # "panic"
  BY DEF NoCall
<1>2. CASE out = "ok" /\ call' = goOn /\ phase' = "open" /\ refused' = refused
  BY <1>2 DEF Orderly, Aligned, Evenly, PanicNeedsRefusal
<1>3. CASE call' = NoCall /\ phase' = "open" /\ refused' = TRUE
  BY <1>1, <1>3 DEF Orderly, Aligned, Evenly, PanicNeedsRefusal
<1>4. CASE /\ call' = NoCall /\ refused' = refused
           /\ phase' = IF out = "panic" THEN "panicked" ELSE "gone"
  BY <1>1, <1>4 DEF Orderly, Aligned, Evenly, PanicNeedsRefusal
<1> QED BY <1>2, <1>3, <1>4, AnsweredIs

LEMMA OrderlyFlushChunk ==
    ASSUME Inv, Orderly, FlushChunk
    PROVE  Orderly'
<1>1. /\ phase = "open" /\ cur' = NoDevice /\ schemas' = schemas
      /\ writers \in Seq(Writer) /\ writers # <<>>
      /\ \E out \in Outs :
           /\ writers' = IF out = "ok" THEN Tail(writers) ELSE <<>>
           /\ Answered(out, call)
           /\ Even(writers[1]) => out # "panic"
  BY FlushChunkIs
<1>2. PICK out \in Outs :
           /\ writers' = IF out = "ok" THEN Tail(writers) ELSE <<>>
           /\ Answered(out, call)
           /\ Even(writers[1]) => out # "panic"
  BY <1>1
<1>3. ~refused => \A i \in 1..Len(writers) : Even(writers[i])
  BY <1>1 DEF Orderly, Evenly
<1>4. /\ 1 \in 1..Len(writers)
      /\ \A i \in 1..Len(Tail(writers)) :
            Tail(writers)[i] = writers[i + 1] /\ i + 1 \in 1..Len(writers)
  BY <1>1, TailIs
<1>5. out = "ok" /\ ~refused => \A i \in 1..Len(writers') : Even(writers'[i])
  BY <1>2, <1>3, <1>4
<1>6. out = "panic" => refused
  BY <1>2, <1>3, <1>4
<1>7. call.op = "tablet" /\ call.pc \in {"flush", "group", "columns"} =>
          call.input.columns = schemas[call.dev]
  BY DEF Orderly, Aligned
<1> QED BY <1>1, <1>2, <1>5, <1>6, <1>7, OrderlyAfter

LEMMA OrderlyFlushEnd ==
    ASSUME Inv, Orderly, FlushEnd
    PROVE  Orderly'
<1>1. PICK out, after :
        /\ phase = "open" /\ call.pc = "flush" /\ writers = <<>> /\ writers' = writers
        /\ UNCHANGED <<schemas, cur>>
        /\ out = EndChunkGroup(io, call.group) /\ Answered(out, after)
        /\ after = CASE call.op = "flush" -> NoCall
                     [] call.op = "close" -> [call EXCEPT !.pc = "dictionary"]
                     [] OTHER             -> [call EXCEPT !.pc = "group"]
  BY DEF FlushEnd, At
<1>2. call \in Calls /\ cur = NoDevice
  BY <1>1 DEF Inv, Control, CallFine
<1>3. after.op = "tablet" => /\ call.op = "tablet" /\ after.input = call.input
                            /\ after.dev = call.dev
  <2>1. NoCall.op # "tablet"
    BY DEF NoCall
  <2>2. [call EXCEPT !.pc = "dictionary"].op = call.op
    BY <1>2, CallFields DEF Pcs
  <2>3. /\ [call EXCEPT !.pc = "group"].op = call.op
        /\ [call EXCEPT !.pc = "group"].input = call.input
        /\ [call EXCEPT !.pc = "group"].dev = call.dev
    BY <1>2, CallFields DEF Pcs
  <2> QED BY <1>1, <2>1, <2>2, <2>3
<1>4. after.op = "tablet" => after.input.columns = schemas[after.dev]
  BY <1>1, <1>3 DEF Orderly, Aligned
<1>5. out # "panic"
  BY <1>1 DEF EndChunkGroup
<1>6. \A i \in 1..Len(writers') : Even(writers'[i])
  BY <1>1
<1>7. phase = "open" /\ schemas' = schemas /\ Answered(out, after) /\ cur' = NoDevice
  BY <1>1, <1>2
<1> QED BY <1>4, <1>5, <1>6, <1>7, OrderlyAfter

LEMMA OrderlyOpenGroup ==
    ASSUME Inv, Orderly, OpenGroup
    PROVE  Orderly'
<1>1. Control /\ call \in Calls
  BY DEF Inv, Control, CallFine
<1>2. /\ phase = "open" /\ call.pc = "group" /\ call.dev \in Devices
      /\ cur' = call.dev /\ schemas' = schemas
      /\ call.op \in {"record", "tablet"}
      /\ \E out \in {"ok", "err"} : Answered(out, [call EXCEPT !.pc = "columns"])
      /\ \E columns \in Seq(Measurements) :
           /\ writers' = NewWriters(columns)
           /\ columns = IF call.op = "record" THEN schemas[call.dev]
                                              ELSE call.input.columns
  BY <1>1, OpenGroupIs
<1>3. PICK columns \in Seq(Measurements) :
           /\ writers' = NewWriters(columns)
           /\ columns = IF call.op = "record" THEN schemas[call.dev]
                                              ELSE call.input.columns
  BY <1>2
<1>4. columns = schemas[call.dev]
  BY <1>2, <1>3 DEF Orderly, Aligned
<1>5. /\ Len(writers') = Len(columns)
      /\ \A i \in 1..Len(columns) : Even(writers'[i]) /\ writers'[i].name = columns[i]
  BY <1>3, NewWritersAre
<1>6. PICK out, goOn : /\ out \in {"ok", "err"} /\ Answered(out, goOn)
                       /\ goOn = [call EXCEPT !.pc = "columns"]
  BY <1>2
<1>7. goOn.op = call.op /\ goOn.input = call.input /\ goOn.dev = call.dev
  BY <1>1, <1>6, CallFields DEF Pcs
<1>8. goOn.op = "tablet" => goOn.input.columns = schemas[goOn.dev]
  BY <1>2, <1>7 DEF Orderly, Aligned
<1>9. Matching(writers', schemas[cur'])
  BY <1>2, <1>4, <1>5 DEF Matching
<1>10. \A i \in 1..Len(writers') : Even(writers'[i])
  BY <1>5
<1> QED BY <1>2, <1>6, <1>8, <1>9, <1>10, OrderlyAfter

(* A step of a write that leaves the writers alone.                            *)
LEMMA OrderlyKept ==
    ASSUME Inv, Orderly, phase = "open", UNCHANGED <<schemas, cur, writers>>,
           NEW out, NEW goOn, Answered(out, goOn), out # "panic",
           goOn \in {call, Onward, NoCall}
    PROVE  Orderly'
<1>1. call \in Calls
  BY DEF Inv, Control, CallFine
<1>2. goOn.op = "tablet" => /\ call.op = "tablet" /\ goOn.input = call.input
                           /\ goOn.dev = call.dev /\ goOn.pc = call.pc
  <2>1. NoCall.op # "tablet"
    BY DEF NoCall
  <2>2. /\ Onward.op = call.op /\ Onward.input = call.input
        /\ Onward.dev = call.dev /\ Onward.pc = call.pc
    BY <1>1, CallFields DEF Onward
  <2> QED BY <2>1, <2>2
<1>3. goOn.op = "tablet" /\ goOn.pc \in {"flush", "group", "columns"} =>
          goOn.input.columns = schemas[goOn.dev]
  BY <1>2 DEF Orderly, Aligned
<1>4. cur' # NoDevice => Matching(writers', schemas[cur'])
  BY DEF Orderly, Aligned
<1>5. ~refused => \A i \in 1..Len(writers') : Even(writers'[i])
  BY DEF Orderly, Evenly
<1> QED BY <1>3, <1>4, <1>5, OrderlyAfter

(* A step of a write that gives a column to one of the writers.                *)
LEMMA OrderlyColumn ==
    ASSUME Inv, Orderly, phase = "open", UNCHANGED <<schemas, cur>>,
           NEW col \in 1..Len(writers), NEW x, writers' = [writers EXCEPT ![col] = x],
           x \in Writer, x.name = writers[col].name,
           NEW out, Answered(out, Onward),
           Even(writers[col]) => out # "panic" /\ (out = "ok" => Even(x))
    PROVE  Orderly'
<1>1. call \in Calls /\ writers \in Seq(Writer)
  BY DEF Inv, Control, CallFine, WritersFine
<1>2. /\ Len(writers') = Len(writers) /\ writers'[col] = x
      /\ \A i \in 1..Len(writers) : i # col => writers'[i] = writers[i]
  BY <1>1, ReplacedIs
<1>3. /\ Onward.op = call.op /\ Onward.input = call.input
      /\ Onward.dev = call.dev /\ Onward.pc = call.pc
  BY <1>1, CallFields DEF Onward
<1>4. Onward.op = "tablet" /\ Onward.pc \in {"flush", "group", "columns"} =>
          Onward.input.columns = schemas[Onward.dev]
  BY <1>3 DEF Orderly, Aligned
<1>5. cur' # NoDevice => Matching(writers', schemas[cur'])
  <2>1. cur # NoDevice => Matching(writers, schemas[cur])
    BY DEF Orderly, Aligned
  <2> QED BY <1>2, <2>1 DEF Matching
<1>6. ~refused => \A i \in 1..Len(writers) : Even(writers[i])
  BY DEF Orderly, Evenly
<1>7. out = "ok" /\ ~refused => \A i \in 1..Len(writers') : Even(writers'[i])
  BY <1>2, <1>6
<1>8. out = "panic" => refused
  BY <1>6
<1> HIDE DEF Onward
<1> QED BY <1>4, <1>5, <1>7, <1>8, OrderlyAfter

LEMMA OrderlyRecordPoint ==
    ASSUME Inv, Orderly, RecordPoint
    PROVE  Orderly'
<1>1. Control /\ WritersFine
  BY DEF Inv
<1>2. /\ phase = "open" /\ cur = call.dev /\ cur # NoDevice /\ call.dev \in Devices
      /\ UNCHANGED <<schemas, cur>>
  BY <1>1, RecordCases, FileAssumption
<1>3. Matching(writers, schemas[call.dev])
  BY <1>2 DEF Orderly, Aligned
<1>4. CASE Kept /\ \E out \in {"ok", "err"} : \E goOn \in {call, Onward} : Answered(out, goOn)
  <2>1. PICK out, goOn : out \in {"ok", "err"} /\ goOn \in {call, Onward} /\ Answered(out, goOn)
    BY <1>4
  <2> QED BY <1>2, <1>4, <2>1, OrderlyKept DEF Kept
<1>5. ~\E i \in 1..Len(schemas[call.dev]) : i > Len(writers)
  <2>1. Len(schemas[call.dev]) \in Nat
    BY <1>1, <1>2 DEF Control
  <2> QED BY <1>3, <2>1 DEF Matching
<1>6. ASSUME NEW col \in Nat, NEW m \in Measurements, NEW p \in Points,
             NEW matches \in BOOLEAN, RecordWrites(col, m, p, matches)
      PROVE  Orderly'
  <2>1. PICK r : /\ r = WriteValue(writers[col], p, matches)
                 /\ writers' = [writers EXCEPT ![col] = r.cw]
                 /\ Answered(r.out, Onward)
                 /\ col \in 1..Len(schemas[call.dev])
    BY <1>6 DEF RecordWrites, WroteColumn, Onward
  <2>2. col \in 1..Len(writers)
    BY <1>3, <2>1 DEF Matching
  <2>3. PICK g : Holds(writers[col], g)
    BY <1>1, <2>2 DEF WritersFine
  <2>4. /\ r.cw.name = writers[col].name
        /\ \E h : Holds(r.cw, h)
        /\ Even(writers[col]) => r.out # "panic" /\ (r.out = "ok" => Even(r.cw))
    BY <2>1, <2>3, WriteHolds
  <2>5. r.cw \in Writer
    BY <2>4, HoldsTyped
  <2> QED BY <1>2, <2>1, <2>2, <2>4, <2>5, OrderlyColumn
<1> QED BY <1>1, <1>4, <1>5, <1>6, RecordCases

LEMMA OrderlyTabletColumn ==
    ASSUME Inv, Orderly, TabletColumn
    PROVE  Orderly'
<1>1. Control /\ WritersFine
  BY DEF Inv
<1>2. /\ phase = "open" /\ cur = call.dev /\ cur # NoDevice /\ call.dev \in Devices
      /\ call.op = "tablet" /\ call.pc = "columns"
      /\ call.next \in Nat \ {0} /\ call.next <= Len(writers)
      /\ UNCHANGED <<schemas, cur>>
  BY <1>1, TabletCases, FileAssumption
<1>3. Matching(writers, schemas[call.dev]) /\ call.input.columns = schemas[call.dev]
  BY <1>2 DEF Orderly, Aligned
<1>4. ~(call.next > Len(call.input.columns))
  <2>1. Len(schemas[call.dev]) \in Nat
    BY <1>1, <1>2 DEF Control
  <2> QED BY <1>2, <1>3, <2>1 DEF Matching
<1>5. CASE TabletWrites(call.next)
  <2> DEFINE col == call.next
  <2>1. PICK matches, rows, r :
          /\ matches \in BOOLEAN /\ AreRows(rows)
          /\ r = WriteBatch(writers[col], rows, matches)
          /\ writers' = [writers EXCEPT ![col] = r.cw]
          /\ Answered(r.out, Onward)
    <3> DEFINE fits == TypeOf[call.input.columns[col]] = TypeOf[writers[col].name]
    <3>1. fits \in BOOLEAN
      OBVIOUS
    <3>2. /\ AreRows(ColumnRows(col))
          /\ writers' = [writers EXCEPT ![col] = WriteBatch(writers[col], ColumnRows(col), fits).cw]
          /\ Answered(WriteBatch(writers[col], ColumnRows(col), fits).out, Onward)
      BY <1>5 DEF TabletWrites, WroteColumn, Onward
    <3> HIDE DEF fits
    <3> QED BY <3>1, <3>2
  <2>2. col \in 1..Len(writers)
    BY <1>1, <1>2, <2>1 DEF WritersFine
  <2>3. PICK g : Holds(writers[col], g)
    BY <1>1, <2>2 DEF WritersFine
  <2>4. /\ r.cw.name = writers[col].name
        /\ \E got : Holds(r.cw, g \o got)
        /\ Even(writers[col]) => r.out # "panic" /\ (r.out = "ok" => Even(r.cw))
    BY <2>1, <2>3, BatchHolds
  <2>5. r.cw \in Writer
    BY <2>4, HoldsTyped
  <2> QED BY <1>2, <2>1, <2>2, <2>4, <2>5, OrderlyColumn
<1> QED BY <1>1, <1>4, <1>5, TabletCases

LEMMA OrderlyReturnWrite ==
    ASSUME Inv, Orderly, ReturnWrite
    PROVE  Orderly'
<1>1. /\ phase = "open" /\ Answered("ok", NoCall)
      /\ UNCHANGED <<schemas, cur, writers>>
  BY ReturnCases DEF Inv
<1> QED BY <1>1, OrderlyKept

LEMMA OrderlyClose ==
    ASSUME Inv, Control', Orderly, Close
    PROVE  Orderly'
<1>1. /\ call.op = "close" /\ cur' = NoDevice /\ writers' = <<>> /\ call \in Calls
      /\ \/ ClosesWith("dictionary", "metadata", WriteDictionary(io))
         \/ ClosesWith("metadata", "footer", WriteMetadata(io))
         \/ ClosesWith("footer", "complete", WriteFooter(io))
         \/ phase' = "closed"
  BY CloseCases DEF Inv, Control, CallFine
<1>2. \A pc \in Pcs : [call EXCEPT !.pc = pc].op # "tablet"
  BY <1>1, CallFields
<1>3. ASSUME NEW pc, NEW next \in Pcs, NEW x, ClosesWith(pc, next, x) PROVE Orderly'
  <2>1. call'.op # "tablet" /\ phase' # "panicked"
    BY <1>2, <1>3, CloseCases DEF ClosesWith, Answered, Inv
  <2>2. \A i \in 1..Len(writers') : Even(writers'[i])
    BY <1>1
  <2> QED BY <1>1, <2>1, <2>2 DEF Orderly, Aligned, Evenly, PanicNeedsRefusal
<1>4. CASE phase' = "closed"
  <2>1. call'.op # "tablet"
    BY <1>4 DEF Control, NoCall
  <2> QED BY <1>4, <2>1 DEF Orderly, Aligned, Evenly, PanicNeedsRefusal
<1> QED BY <1>1, <1>3, <1>4 DEF Pcs

LEMMA OrderlyStarts ==
    ASSUME AlignedTablets, ~LateSchemas, Inv, Orderly,
           \/ \E d \in Devices, list \in SchemaLists : Register(d, list)
           \/ \E d \in Devices : \E op, input : Starts(op, d, input)
           \/ \E op \in {"flush", "close"} : StartFlush(op)
    PROVE  Orderly'
<1>1. ASSUME NEW d \in Devices, NEW list \in SchemaLists, Register(d, list) PROVE Orderly'
  <2>1. /\ phase = "open" /\ call.pc = "idle" /\ call' = call /\ cur' = cur /\ cur # d
        /\ writers' = writers /\ phase' = phase /\ refused' = refused
        /\ schemas' = [schemas EXCEPT ![d] = @ \o list]
    BY <1>1 DEF Register, Idle
  <2>2. cur # NoDevice => schemas'[cur] = schemas[cur]
    BY <2>1 DEF Inv, Control
  <2> QED BY <2>1, <2>2 DEF Orderly, Aligned, Evenly, PanicNeedsRefusal
<1>2. ASSUME NEW d \in Devices, NEW op, NEW input, Starts(op, d, input) PROVE Orderly'
  <2>1. /\ phase = "open"
        /\ writers' = writers /\ phase' = phase /\ refused' = refused /\ schemas' = schemas
        /\ cur' = IF cur = d THEN cur ELSE NoDevice
        /\ call'.op = op /\ call'.dev = d /\ call'.input = input
        /\ op = "tablet" => input.columns = schemas[d]
    BY <1>2 DEF Starts, StartWrite, Idle
  <2> QED BY <2>1 DEF Orderly, Aligned, Evenly, PanicNeedsRefusal
<1>3. ASSUME NEW op \in {"flush", "close"}, StartFlush(op) PROVE Orderly'
  <2>1. /\ phase = "open"
        /\ writers' = writers /\ phase' = phase /\ refused' = refused /\ schemas' = schemas
        /\ cur' = NoDevice /\ call'.op # "tablet"
    BY <1>3 DEF StartFlush, Idle
  <2> QED BY <2>1 DEF Orderly, Aligned, Evenly, PanicNeedsRefusal
<1> QED BY <1>1, <1>2, <1>3

LEMMA OrderlyStays ==
    ASSUME Orderly, UNCHANGED <<schemas, cur, writers, call, phase, refused>>
    PROVE  Orderly'
  BY DEF Orderly, Aligned, Evenly, PanicNeedsRefusal

THEOREM OrderlyNext ==
    ASSUME AlignedTablets, ~LateSchemas
    PROVE  Inv /\ Control' /\ Orderly /\ [Next]_vars => Orderly'
<1> SUFFICES ASSUME Inv, Control', Orderly, [Next]_vars PROVE Orderly'
  OBVIOUS
<1>1. ASSUME WriterNext PROVE Orderly'
  <2>1. CASE Crash
    <3>1. phase' = "gone" /\ call'.op = "none"
      BY <2>1 DEF Crash, Die, NoCall
    <3> QED BY <3>1 DEF Orderly, Aligned, Evenly, PanicNeedsRefusal
  <2> QED BY <1>1, <2>1, WriterSteps, OrderlyStarts, OrderlyFlushChunk, OrderlyFlushEnd,
             OrderlyOpenGroup, OrderlyRecordPoint, OrderlyTabletColumn, OrderlyReturnWrite,
             OrderlyClose
<1>2. ASSUME UNCHANGED writerVars PROVE Orderly'
  BY <1>2, OrderlyStays DEF writerVars
<1> QED BY <1>1, <1>2 DEF Next, Open, Read, ClearCache, vars

LEMMA OrderlyInit == Init => Orderly
  BY DEF Init, WriterInit, Orderly, Aligned, Evenly, PanicNeedsRefusal, NoCall

THEOREM SpecOrderly ==
    ASSUME AlignedTablets, ~LateSchemas
    PROVE  Spec => [](Inv /\ Orderly)
<1>1. Inv /\ Inv' => Control'
  BY DEF Inv
<1> QED BY <1>1, OrderlyInit, OrderlyNext, SpecInv, PTL DEF Spec

(* No call panics unless an earlier one was refused.                           *)
THEOREM SpecPanicNeedsRefusal ==
    ASSUME AlignedTablets, ~LateSchemas
    PROVE  Spec => []PanicNeedsRefusal
<1>1. Orderly => PanicNeedsRefusal
  BY DEF Orderly
<1> QED BY <1>1, SpecOrderly, PTL
-------------------------------------------------------------------------------
(* No point of an orderly caller is lost, added or moved.  P has the points of *)
(* each measurement that are in the writers of the group that is open or being *)
(* flushed; a later writer of the same name has none.                          *)
DistinctColumns ==
    \A columns \in TabletColumns : \A i, j \in 1..Len(columns) :
        columns[i] = columns[j] => i = j

Active == IF call.pc = "flush" THEN call.group ELSE cur

FirstOf(i) == \A j \in 1..Len(writers) : writers[j].name = writers[i].name => i <= j

Pending(P) ==
    /\ P \in [Measurements -> Seq(Points)]
    /\ \A i \in 1..Len(writers) :
          Holds(writers[i], IF FirstOf(i) THEN P[writers[i].name] ELSE <<>>)
    /\ \A m \in Measurements : (\A i \in 1..Len(writers) : writers[i].name # m) => P[m] = <<>>

Fits(d, m, s) == Sub(s, offered[d][m]) /\ (d \notin damaged => s = offered[d][m])

Stored(d, m) == Content(io.groups, io.stream, d, m)

Ahead(P, d, m) == IF d = Active THEN P[m] ELSE <<>>

Complete(P) == \A d \in Devices, m \in Measurements : Fits(d, m, Stored(d, m) \o Ahead(P, d, m))

Series == phase = "open" \/ ~NoFooter(io.stream) => \E P : Pending(P) /\ Complete(P)

SameStored == \A d \in Devices, m \in Measurements :
    Content(io'.groups, io'.stream, d, m) = Content(io.groups, io.stream, d, m)

LEMMA SeriesKept ==
    ASSUME NEW P, Pending(P), Complete(P), SameStored,
           UNCHANGED <<writers, offered, damaged>>, Active' = Active \/ writers = <<>>
    PROVE  Series'
<1>1. Pending(P)'
  BY DEF Pending, FirstOf
<1>2. ASSUME NEW d \in Devices, NEW m \in Measurements PROVE Ahead(P, d, m)' = Ahead(P, d, m)
  <2>1. CASE Active' = Active
    BY <2>1 DEF Ahead
  <2>2. CASE writers = <<>>
    <3>1. P[m] = <<>>
      BY <2>2 DEF Pending
    <3> QED BY <3>1 DEF Ahead
  <2> QED BY <2>1, <2>2
<1>3. ASSUME NEW d \in Devices, NEW m \in Measurements
      PROVE  Fits(d, m, Stored(d, m) \o Ahead(P, d, m))'
  <2>1. PICK s : s = Stored(d, m) \o Ahead(P, d, m)
    OBVIOUS
  <2>2. Fits(d, m, s)
    BY <2>1 DEF Complete
  <2>3. Stored(d, m)' = Stored(d, m)
    BY DEF SameStored, Stored
  <2>4. (Stored(d, m) \o Ahead(P, d, m))' = s
    BY <1>2, <2>1, <2>3
  <2> QED BY <2>2, <2>4 DEF Fits
<1>4. Complete(P)'
  BY <1>3 DEF Complete
<1> QED BY <1>1, <1>4 DEF Series

LEMMA SameFile ==
    ASSUME io'.groups = io.groups, io'.stream = io.stream
    PROVE  SameStored
  BY DEF SameStored

\* The writer died before the footer: nothing will be read.
LEMMA SeriesGone ==
    ASSUME phase' # "open", Plain(io'.stream)
    PROVE  Series'
  BY PlainHasNoFooter DEF Series

LEMMA StoredTyped ==
    ASSUME Inv, NEW d, NEW m
    PROVE  Stored(d, m) \in Seq(Points)
  BY ContentTyped DEF Inv, FileInv, Stored

LEMMA NothingPending ==
    ASSUME writers = <<>>, NEW P, P = [m \in Measurements |-> <<>>]
    PROVE  Pending(P)
<1>1. P \in [Measurements -> Seq(Points)] /\ Len(writers) = 0
  OBVIOUS
<1> QED BY <1>1 DEF Pending

(* A chunk that is written moves its points from the writer to the file.       *)
LEMMA PendingTail ==
    ASSUME WritersFine, NEW P, Pending(P), writers # <<>>, writers' = Tail(writers),
           NEW Q, Q = [P EXCEPT ![writers[1].name] = <<>>]
    PROVE  Pending(Q)' /\ Holds(writers[1], P[writers[1].name])
<1> DEFINE n == writers[1].name
<1>1. /\ writers \in Seq(Writer) /\ 1 \in 1..Len(writers) /\ Len(writers) \in Nat \ {0}
      /\ Len(writers') = Len(writers) - 1
      /\ \A i \in 1..Len(writers') : writers'[i] = writers[i + 1] /\ i + 1 \in 1..Len(writers)
  BY TailIs DEF WritersFine
<1>2. FirstOf(1)
  BY <1>1 DEF FirstOf
<1>3. Holds(writers[1], P[n])
  BY <1>1, <1>2 DEF Pending
<1>4. n \in Measurements /\ P \in [Measurements -> Seq(Points)]
  BY <1>3, HoldsTyped DEF Pending
<1>5. /\ Q \in [Measurements -> Seq(Points)] /\ Q[n] = <<>>
      /\ \A m \in Measurements : m # n => Q[m] = P[m]
  BY <1>4
<1> HIDE DEF n
<1>6. ASSUME NEW i \in 1..Len(writers')
      PROVE  Holds(writers'[i], IF FirstOf(i)' THEN Q[writers'[i].name] ELSE <<>>)
  <2>1. /\ i \in Nat /\ i + 1 \in 1..Len(writers) /\ writers'[i] = writers[i + 1]
    BY <1>1
  <2>2. Holds(writers[i + 1], IF FirstOf(i + 1) THEN P[writers[i + 1].name] ELSE <<>>)
    BY <2>1 DEF Pending
  <2>3. writers[i + 1].name \in Measurements
    BY <2>2, HoldsTyped
  <2>4. CASE writers[i + 1].name = n
    <3>1. ~FirstOf(i + 1)
      BY <1>1, <2>1, <2>4 DEF FirstOf, n
    <3>2. (IF FirstOf(i)' THEN Q[writers'[i].name] ELSE <<>>) = <<>>
      BY <1>5, <2>1, <2>4
    <3> QED BY <2>1, <2>2, <3>1, <3>2
  <2>5. CASE writers[i + 1].name # n
    <3>1. ASSUME FirstOf(i)' PROVE FirstOf(i + 1)
      <4> SUFFICES ASSUME NEW j \in 1..Len(writers), writers[j].name = writers[i + 1].name
                   PROVE  i + 1 <= j
        BY DEF FirstOf
      <4>1. j # 1
        BY <2>5 DEF n
      <4>2. j - 1 \in 1..Len(writers') /\ (j - 1) + 1 = j
        BY <1>1, <4>1
      <4>3. writers'[j - 1] = writers[j]
        BY <1>1, <4>2
      <4>4. i <= j - 1
        BY <2>1, <3>1, <4>2, <4>3 DEF FirstOf
      <4> QED BY <2>1, <4>2, <4>4
    <3>2. ASSUME FirstOf(i + 1) PROVE FirstOf(i)'
      <4> SUFFICES ASSUME NEW j \in 1..Len(writers'), writers'[j].name = writers'[i].name
                   PROVE  i <= j
        BY DEF FirstOf
      <4>1. j \in Nat /\ j + 1 \in 1..Len(writers) /\ writers'[j] = writers[j + 1]
        BY <1>1
      <4>2. i + 1 <= j + 1
        BY <2>1, <3>2, <4>1 DEF FirstOf
      <4> QED BY <2>1, <4>1, <4>2
    <3>3. Q[writers'[i].name] = P[writers[i + 1].name]
      BY <1>5, <2>1, <2>3, <2>5
    <3>4. CASE FirstOf(i)'
      BY <2>1, <2>2, <3>1, <3>3, <3>4
    <3>5. CASE ~FirstOf(i)'
      BY <2>1, <2>2, <3>2, <3>5
    <3> QED BY <3>4, <3>5
  <2> QED BY <2>4, <2>5
<1>7. ASSUME NEW m \in Measurements, \A i \in 1..Len(writers') : writers'[i].name # m
      PROVE  Q[m] = <<>>
  <2>1. CASE m = n
    BY <1>5, <2>1
  <2>2. CASE m # n
    <3>1. ASSUME NEW i \in 1..Len(writers) PROVE writers[i].name # m
      <4>1. CASE i = 1
        BY <2>2, <4>1 DEF n
      <4>2. CASE i # 1
        <5>1. i - 1 \in 1..Len(writers') /\ (i - 1) + 1 = i
          BY <1>1, <4>2
        <5>2. writers'[i - 1] = writers[i]
          BY <1>1, <5>1
        <5> QED BY <1>7, <5>1, <5>2
      <4> QED BY <4>1, <4>2
    <3>2. P[m] = <<>>
      BY <3>1 DEF Pending
    <3> QED BY <1>5, <2>2, <3>2
  <2> QED BY <2>1, <2>2
<1>8. Pending(Q)'
  BY <1>5, <1>6, <1>7 DEF Pending
<1> QED BY <1>3, <1>8 DEF n

LEMMA EmptyTail ==
    ASSUME NEW X, NEW s \in Seq(X)
    PROVE  s \o <<>> = s
  OBVIOUS

LEMMA SeriesFlushChunk ==
    ASSUME Inv, Control', FlushChunk, NEW P, Pending(P), Complete(P)
    PROVE  Series'
<1>0. PICK n, d : n = writers[1].name /\ d = call.group
  OBVIOUS
<1> DEFINE g == P[n]
<1>1. /\ Control /\ WritersFine /\ IOFine(io, Devices) /\ NoDevice \notin Devices
  BY FileAssumption DEF Inv, FileInv
<1>2. /\ phase = "open" /\ call.pc = "flush" /\ writers # <<>> /\ d \in Devices
      /\ cur' = NoDevice /\ offered' = offered /\ d \in DOMAIN io.groups
  BY <1>0, FlushChunkIs DEF Inv, FileInv, OpenGroups
<1>3. Holds(writers[1], g) /\ n \in Measurements /\ g \in Seq(Points) /\ Active = d
  <2>1. Holds(writers[1], g)
    <3>1. 1 \in 1..Len(writers) /\ FirstOf(1)
      BY <1>1, <1>2, TailIs DEF WritersFine, FirstOf
    <3> QED BY <1>0, <3>1 DEF Pending
  <2>2. n \in Measurements /\ g \in Seq(Points)
    BY <1>0, <2>1, HoldsTyped
  <2> QED BY <1>0, <1>2, <2>1, <2>2 DEF Active
<1>4. \E out \in Outs :
        /\ writers' = IF out = "ok" THEN Tail(writers) ELSE <<>>
        /\ Damage(d, out) /\ Answered(out, call)
        /\ \A h : Holds(writers[1], h) =>
             /\ IOFine(io', Devices) /\ Plain(io'.stream)
             /\ DOMAIN io'.groups = DOMAIN io.groups
             /\ out # "ok" => io'.stream = io.stream /\ io'.groups = io.groups
             /\ out = "ok" => Grew(io, io', d, n, h)
  BY <1>0, FlushChunkIs
<1>5. PICK out \in Outs :
        /\ writers' = IF out = "ok" THEN Tail(writers) ELSE <<>>
        /\ Damage(d, out) /\ Answered(out, call)
        /\ IOFine(io', Devices) /\ Plain(io'.stream)
        /\ out # "ok" => io'.stream = io.stream /\ io'.groups = io.groups
        /\ out = "ok" => Grew(io, io', d, n, g)
  BY <1>3, <1>4
<1> HIDE DEF g
<1>6. CASE out = "ok"
  <2>0. PICK Q : Q = [P EXCEPT ![n] = <<>>]
    OBVIOUS
  <2>1. Grew(io, io', d, n, g)
    BY <1>5, <1>6
  <2>2. writers' = Tail(writers)
    BY <1>5, <1>6
  <2>3. damaged' = damaged
    BY <1>5, <1>6 DEF Damage
  <2>4. call' = call
    <3>1. Answered("ok", call)
      BY <1>5, <1>6
    <3> QED BY <3>1 DEF Answered
  <2>5. Q = [P EXCEPT ![writers[1].name] = <<>>]
    BY <1>0, <2>0
  <2>6. Q[n] = <<>> /\ \A m \in Measurements : m # n => Q[m] = P[m]
    BY <1>3, <2>0 DEF Pending
  <2>7. Pending(Q)'
    BY <1>1, <1>2, <2>2, <2>5, PendingTail
  <2>8. Active' = d
    BY <1>0, <1>2, <2>4 DEF Active
  <2>9. ASSUME NEW e \in Devices, NEW m \in Measurements
        PROVE  (Stored(e, m) \o Ahead(Q, e, m))' = Stored(e, m) \o Ahead(P, e, m)
    <3>1. Content(io'.groups, io'.stream, e, m) =
             IF e = d /\ m = n THEN Content(io.groups, io.stream, e, m) \o g
                               ELSE Content(io.groups, io.stream, e, m)
      <4>1. PICK x, y : x = io /\ y = io'
        OBVIOUS
      <4>2. PICK given \in Seq(Points) : given = g
        BY <1>3
      <4>3. IOFine(x, Devices) /\ IOFine(y, Devices) /\ d \in DOMAIN x.groups
        BY <1>1, <1>2, <1>5, <4>1
      <4>4. Grew(x, y, d, n, given)
        BY <2>1, <4>1, <4>2
      <4>5. Gained(x, y, d, n, given, e, m)
        BY <4>3, <4>4, ContentGrew
      <4> QED BY <4>1, <4>2, <4>5 DEF Gained
    <3>2. Stored(e, m) \in Seq(Points)
      BY StoredTyped
    <3>3. CASE e = d /\ m = n
      <4>1. Stored(e, m)' = Stored(e, m) \o g
        BY <3>1, <3>3 DEF Stored
      <4>2. Ahead(Q, e, m)' = <<>>
        BY <2>6, <2>8, <3>3 DEF Ahead
      <4>3. Ahead(P, e, m) = g
        BY <1>3, <3>3 DEF Ahead, g
      <4>4. PICK s : s = Stored(e, m) \o g
        OBVIOUS
      <4>5. s \in Seq(Points) /\ s \o <<>> = s
        BY <1>3, <3>2, <4>4
      <4> QED BY <4>1, <4>2, <4>3, <4>4, <4>5
    <3>4. CASE ~(e = d /\ m = n)
      <4>1. Stored(e, m)' = Stored(e, m)
        BY <3>1, <3>4 DEF Stored
      <4>2. Ahead(Q, e, m)' = IF e = d THEN Q[m] ELSE <<>>
        BY <2>8 DEF Ahead
      <4>3. Ahead(P, e, m) = IF e = d THEN P[m] ELSE <<>>
        BY <1>3 DEF Ahead
      <4>4. Ahead(Q, e, m)' = Ahead(P, e, m)
        BY <2>6, <3>4, <4>2, <4>3
      <4> QED BY <4>1, <4>4
    <3> QED BY <3>3, <3>4
  <2>10. ASSUME NEW e \in Devices, NEW m \in Measurements
        PROVE  Fits(e, m, Stored(e, m) \o Ahead(Q, e, m))'
    <3>1. PICK s : s = Stored(e, m) \o Ahead(P, e, m)
      OBVIOUS
    <3>2. Fits(e, m, s)
      BY <3>1 DEF Complete
    <3>3. (Stored(e, m) \o Ahead(Q, e, m))' = s
      BY <2>9, <3>1
    <3> QED BY <1>2, <2>3, <3>2, <3>3 DEF Fits
  <2>11. Complete(Q)'
    BY <2>10 DEF Complete
  <2> QED BY <2>7, <2>11 DEF Series
<1>7. CASE out # "ok" /\ phase' = "open"
  <2> DEFINE Q == [m \in Measurements |-> <<>>]
  <2>1. /\ writers' = <<>> /\ damaged' = damaged \cup {d} /\ call' = NoCall
        /\ io'.stream = io.stream /\ io'.groups = io.groups
    BY <1>2, <1>5, <1>7, AnsweredIs DEF Damage
  <2>2. Pending(Q)'
    <3>1. Q \in [Measurements -> Seq(Points)] /\ Len(writers') = 0
          /\ \A m \in Measurements : Q[m] = <<>>
      BY <2>1
    <3> HIDE DEF Q
    <3> QED BY <3>1 DEF Pending
  <2>3. \A m \in Measurements : Q[m] = <<>>
    OBVIOUS
  <2> HIDE DEF Q
  <2>4. Active' = NoDevice
    BY <1>2, <2>1 DEF Active, NoCall
  <2>5. ASSUME NEW e \in Devices, NEW m \in Measurements
        PROVE  Fits(e, m, Stored(e, m) \o Ahead(Q, e, m))'
    <3>1. Fits(e, m, Stored(e, m) \o Ahead(P, e, m)) /\ Stored(e, m) \in Seq(Points)
      BY StoredTyped DEF Complete
    <3>2. Stored(e, m)' = Stored(e, m) /\ Ahead(Q, e, m)' = <<>>
      <4>1. SameStored
        BY <2>1, SameFile
      <4>2. Ahead(Q, e, m)' = <<>>
        BY <2>3 DEF Ahead
      <4> QED BY <4>1, <4>2 DEF Stored, SameStored
    <3>3. (Stored(e, m) \o Ahead(Q, e, m))' = Stored(e, m)
      BY <3>1, <3>2, EmptyTail
    <3>4. CASE e = d
      <4>1. Ahead(P, e, m) \in Seq(Points)
        BY <1>3, <3>4 DEF Ahead, Pending
      <4>2. Sub(Stored(e, m), offered[e][m])
        BY <3>1, <4>1, SubPrefix DEF Fits
      <4>3. e \in damaged'
        BY <2>1, <3>4
      <4> QED BY <1>2, <3>3, <4>2, <4>3 DEF Fits
    <3>5. CASE e # d
      <4>1. Ahead(P, e, m) = <<>>
        BY <1>3, <3>5 DEF Ahead
      <4>2. Fits(e, m, Stored(e, m))
        BY <3>1, <4>1, EmptyTail
      <4>3. e \notin damaged' => e \notin damaged
        BY <2>1
      <4> QED BY <1>2, <3>3, <4>2, <4>3 DEF Fits
    <3> QED BY <3>4, <3>5
  <2>6. Complete(Q)'
    BY <2>5 DEF Complete
  <2> QED BY <2>2, <2>6 DEF Series
<1>8. CASE phase' # "open"
  BY <1>5, <1>8, SeriesGone
<1> QED BY <1>6, <1>7, <1>8

LEMMA SeriesFlushEnd ==
    ASSUME Inv, FlushEnd, NEW P, Pending(P), Complete(P)
    PROVE  Series'
<1>1. writers = <<>> /\ UNCHANGED <<writers, io, offered, damaged>>
  BY DEF FlushEnd
<1>2. SameStored
  BY <1>1, SameFile
<1> QED BY <1>1, <1>2, SeriesKept

LEMMA SeriesOpenGroup ==
    ASSUME Inv, OpenGroup, NEW P, Pending(P), Complete(P)
    PROVE  Series'
<1>1. Control /\ IOFine(io, Devices)
  BY DEF Inv, FileInv
<1>2. /\ call.dev \in Devices /\ writers = <<>>
      /\ io' = StartChunkGroup(io, call.dev)
      /\ UNCHANGED <<offered, damaged>>
      /\ \E columns \in Seq(Measurements) : writers' = NewWriters(columns)
  BY <1>1, OpenGroupIs
<1>3. /\ IOFine(io', Devices) /\ io'.stream = io.stream
      /\ DOMAIN io'.groups = DOMAIN io.groups \cup {call.dev}
      /\ \A e \in DOMAIN io.groups : io'.groups[e] = io.groups[e]
      /\ call.dev \notin DOMAIN io.groups => io'.groups[call.dev] = <<>>
  BY <1>1, <1>2, StartGroupFine
<1>4. ASSUME NEW d \in Devices, NEW m \in Measurements
      PROVE  Stored(d, m)' = Stored(d, m)
  <2>1. Regions(io'.stream) /\ Longer(io.stream, io'.stream)
    BY <1>3 DEF IOFine, Longer
  <2>2. \/ d \in DOMAIN io.groups /\ d \in DOMAIN io'.groups /\ io'.groups[d] = io.groups[d]
        \/ d \notin DOMAIN io.groups /\ (d \in DOMAIN io'.groups => io'.groups[d] = <<>>)
    BY <1>3
  <2> QED BY <1>1, <2>1, <2>2, ContentKept DEF Stored
<1> DEFINE Q == [m \in Measurements |-> <<>>]
<1>5. Q \in [Measurements -> Seq(Points)] /\ \A m \in Measurements : Q[m] = <<>>
  OBVIOUS
<1> HIDE DEF Q
<1>6. Pending(Q)'
  <2>1. PICK columns \in Seq(Measurements) : writers' = NewWriters(columns)
    BY <1>2
  <2>2. /\ Len(writers') = Len(columns)
        /\ \A i \in 1..Len(columns) :
              Holds(writers'[i], <<>>) /\ writers'[i].name = columns[i]
    BY <2>1, NewWritersAre
  <2>3. \A i \in 1..Len(writers') : writers'[i].name \in Measurements
    BY <2>2
  <2>4. \A i \in 1..Len(writers') :
           (IF FirstOf(i)' THEN Q[writers'[i].name] ELSE <<>>) = <<>>
    BY <1>5, <2>3
  <2>5. \A i \in 1..Len(writers') :
           Holds(writers'[i], IF FirstOf(i)' THEN Q[writers'[i].name] ELSE <<>>)
    BY <2>2, <2>4
  <2> QED BY <1>5, <2>5 DEF Pending
<1>7. ASSUME NEW d \in Devices, NEW m \in Measurements
      PROVE  Fits(d, m, Stored(d, m) \o Ahead(Q, d, m))'
  <2>1. Fits(d, m, Stored(d, m) \o Ahead(P, d, m))
    BY DEF Complete
  <2>2. Ahead(P, d, m) = <<>>
    <3>1. P[m] = <<>>
      BY <1>2 DEF Pending
    <3> QED BY <3>1 DEF Ahead
  <2>3. Ahead(Q, d, m)' = <<>>
    BY <1>5 DEF Ahead
  <2>4. PICK s : s = Stored(d, m) \o <<>>
    OBVIOUS
  <2>5. (Stored(d, m) \o Ahead(Q, d, m))' = s
    BY <1>4, <2>3, <2>4
  <2> QED BY <1>2, <2>1, <2>2, <2>4, <2>5 DEF Fits
<1>8. Complete(Q)'
  BY <1>7 DEF Complete
<1> QED BY <1>6, <1>8 DEF Series

(* A column that takes points has them before they are in the file.            *)
LEMMA PendingColumn ==
    ASSUME WritersFine, NEW P, Pending(P), NEW col \in 1..Len(writers), FirstOf(col),
           NEW x, NEW n, n = writers[col].name, x.name = n,
           NEW got \in Seq(Points), Holds(x, P[n] \o got),
           writers' = [writers EXCEPT ![col] = x],
           NEW Q, Q = [P EXCEPT ![n] = P[n] \o got]
    PROVE  Pending(Q)'
<1>1. x \in Writer /\ n \in Measurements
  BY HoldsTyped
<1>2. /\ Len(writers') = Len(writers) /\ writers'[col] = x
      /\ \A i \in 1..Len(writers) : i # col => writers'[i] = writers[i]
  BY <1>1, ReplacedIs DEF WritersFine
<1>3. \A i \in 1..Len(writers) : writers'[i].name = writers[i].name
  BY <1>2
<1>4. \A i \in 1..Len(writers) : FirstOf(i)' <=> FirstOf(i)
  BY <1>2, <1>3 DEF FirstOf
<1>5. P[n] \o got \in Seq(Points)
  <2>1. P[n] \in Seq(Points)
    BY <1>1 DEF Pending
  <2> QED BY <2>1
<1>6. /\ Q \in [Measurements -> Seq(Points)] /\ Q[n] = P[n] \o got
      /\ \A m \in Measurements : m # n => Q[m] = P[m]
  BY <1>1, <1>5 DEF Pending
<1>7. ASSUME NEW i \in 1..Len(writers)
      PROVE  Holds(writers'[i], IF FirstOf(i)' THEN Q[writers'[i].name] ELSE <<>>)
  <2>1. CASE i = col
    <3>1. (IF FirstOf(i)' THEN Q[writers'[i].name] ELSE <<>>) = P[n] \o got
      BY <1>3, <1>4, <1>6, <2>1
    <3> QED BY <1>2, <2>1, <3>1
  <2>2. CASE i # col
    <3>1. Holds(writers[i], IF FirstOf(i) THEN P[writers[i].name] ELSE <<>>)
      BY DEF Pending
    <3>2. writers[i].name \in Measurements
      BY <3>1, HoldsTyped
    <3>3. ASSUME FirstOf(i) PROVE writers[i].name # n
      <4> SUFFICES ASSUME writers[i].name = n PROVE FALSE
        OBVIOUS
      <4>1. i <= col /\ col <= i
        BY <3>3 DEF FirstOf
      <4> QED BY <2>2, <4>1
    <3>4. CASE FirstOf(i)
      <4>1. Q[writers'[i].name] = P[writers[i].name]
        BY <1>3, <1>6, <3>2, <3>3, <3>4
      <4> QED BY <1>2, <1>4, <2>2, <3>1, <3>4, <4>1
    <3>5. CASE ~FirstOf(i)
      BY <1>2, <1>4, <2>2, <3>1, <3>5
    <3> QED BY <3>4, <3>5
  <2> QED BY <2>1, <2>2
<1>8. ASSUME NEW m \in Measurements, \A i \in 1..Len(writers') : writers'[i].name # m
      PROVE  Q[m] = <<>>
  <2>1. m # n
    BY <1>2, <1>3, <1>8
  <2>2. \A i \in 1..Len(writers) : writers[i].name # m
    BY <1>2, <1>3, <1>8
  <2>3. P[m] = <<>>
    BY <2>2 DEF Pending
  <2> QED BY <1>6, <2>1, <2>3
<1> QED BY <1>2, <1>6, <1>7, <1>8 DEF Pending

LEMMA Regroup == \A a, b, c \in Seq(Points) : (a \o b) \o c = a \o (b \o c)
  BY ConcatAssoc

LEMMA SeriesColumn ==
    ASSUME Inv, NEW P, Pending(P), Complete(P), phase = "open", call.pc = "columns",
           cur \in Devices, UNCHANGED <<cur, io>>,
           NEW col \in 1..Len(writers), FirstOf(col),
           NEW x, NEW n, n = writers[col].name, x.name = n,
           NEW got \in Seq(Points), Holds(x, P[n] \o got),
           NEW points \in Seq(Points), Sub(got, points),
           writers' = [writers EXCEPT ![col] = x],
           offered' = [offered EXCEPT ![cur][n] = @ \o points],
           NEW out, Damage(cur, out), Answered(out, Onward), out = "ok" => got = points
    PROVE  Series'
<1>1. Control /\ WritersFine /\ call \in Calls
  BY DEF Inv, Control, CallFine
<1>2. n \in Measurements
  BY HoldsTyped
<1>3. CASE phase' # "open"
  <2>1. Plain(io'.stream)
    BY DEF Inv, FileInv, Sections
  <2> QED BY <1>3, <2>1, SeriesGone
<1>4. CASE phase' = "open"
  <2>1. Active = cur /\ Active' = cur
    <3>1. call' = Onward \/ call' = NoCall
      BY AnsweredIs
    <3>2. Onward.pc = "columns" /\ NoCall.pc = "idle"
      BY <1>1, CallFields DEF Onward, NoCall
    <3>3. call'.pc # "flush"
      BY <3>1, <3>2
    <3> QED BY <3>3 DEF Active
  <2> DEFINE Q == [P EXCEPT ![n] = P[n] \o got]
  <2>2. Pending(Q)'
    <3>1. PICK R : R = Q
      OBVIOUS
    <3>2. Pending(R)'
      BY <1>1, <3>1, PendingColumn
    <3> QED BY <3>1, <3>2
  <2>3. /\ P \in [Measurements -> Seq(Points)] /\ Q[n] = P[n] \o got
        /\ \A m \in Measurements : m # n => Q[m] = P[m]
    BY <1>2 DEF Pending
  <2>4. /\ offered \in [Devices -> [Measurements -> Seq(Points)]]
        /\ offered'[cur][n] = offered[cur][n] \o points
        /\ \A e \in Devices, m \in Measurements :
              ~(e = cur /\ m = n) => offered'[e][m] = offered[e][m]
    BY <1>1, <1>2 DEF Control
  <2> HIDE DEF Q
  <2>5. /\ \A e \in Devices : e \notin damaged' => e \notin damaged
        /\ cur \notin damaged' => out = "ok"
    BY DEF Damage
  <2>6. ASSUME NEW e \in Devices, NEW m \in Measurements
        PROVE  Fits(e, m, Stored(e, m) \o Ahead(Q, e, m))'
    <3>1. Stored(e, m) \in Seq(Points) /\ Stored(e, m)' = Stored(e, m)
      <4>1. SameStored
        BY SameFile
      <4> QED BY <4>1, StoredTyped DEF SameStored, Stored
    <3>2. Fits(e, m, Stored(e, m) \o Ahead(P, e, m))
      BY DEF Complete
    <3>3. CASE ~(e = cur /\ m = n)
      <4>1. Ahead(P, e, m) = IF e = cur THEN P[m] ELSE <<>>
        BY <2>1 DEF Ahead
      <4>2. Ahead(Q, e, m)' = IF e = cur THEN Q[m] ELSE <<>>
        BY <2>1 DEF Ahead
      <4>3. Ahead(Q, e, m)' = Ahead(P, e, m)
        BY <2>3, <3>3, <4>1, <4>2
      <4>4. PICK s : s = Stored(e, m) \o Ahead(P, e, m)
        OBVIOUS
      <4>5. (Stored(e, m) \o Ahead(Q, e, m))' = s
        BY <3>1, <4>3, <4>4
      <4>6. offered'[e][m] = offered[e][m]
        BY <2>4, <3>3
      <4> QED BY <2>5, <3>2, <4>4, <4>5, <4>6 DEF Fits
    <3>4. CASE e = cur /\ m = n
      <4>1. Ahead(P, e, m) = P[n]
        BY <2>1, <3>4 DEF Ahead
      <4>2. Ahead(Q, e, m)' = P[n] \o got
        BY <2>1, <2>3, <3>4 DEF Ahead
      <4>3. P[n] \in Seq(Points)
        BY <1>2, <2>3
      <4>4. PICK s : s = Stored(e, m) \o P[n]
        OBVIOUS
      <4>5. s \in Seq(Points) /\ s \o got = Stored(e, m) \o (P[n] \o got)
        <5>1. PICK a, b \in Seq(Points) : a = Stored(e, m) /\ b = P[n]
          BY <3>1, <4>3
        <5>2. a \o b \in Seq(Points) /\ s = a \o b
          BY <4>4, <5>1
        <5>3. (a \o b) \o got = a \o (b \o got)
          BY Regroup, Zenon
        <5> QED BY <5>1, <5>2, <5>3
      <4>6. PICK r : r = s \o got
        OBVIOUS
      <4>7. (Stored(e, m) \o Ahead(Q, e, m))' = r
        <5>1. Stored(e, m)' = Stored(e, m)
          BY <3>1
        <5>2. r = Stored(e, m) \o (P[n] \o got)
          BY <4>5, <4>6, Zenon
        <5> QED BY <4>2, <5>1, <5>2, Zenon
      <4>8. Fits(e, m, s)
        BY <3>2, <4>1, <4>4, Zenon
      <4>9. offered[e][m] \in Seq(Points) /\ offered'[e][m] = offered[e][m] \o points
        <5>1. offered[cur][n] \in Seq(Points)
          BY <1>2, <2>4
        <5>2. offered'[cur][n] = offered[cur][n] \o points
          BY <2>4
        <5> QED BY <3>4, <5>1, <5>2
      <4>10. Sub(r, offered'[e][m])
        <5>1. PICK o \in Seq(Points) : o = offered[e][m]
          BY <4>9
        <5>2. Sub(s, o)
          BY <4>8, <5>1 DEF Fits
        <5>3. Sub(s \o got, o \o points)
          BY <4>5, <5>2, SubConcat
        <5> QED BY <4>6, <4>9, <5>1, <5>3
      <4>11. e \notin damaged' => r = offered'[e][m]
        BY <2>5, <3>4, <4>6, <4>8, <4>9 DEF Fits
      <4> QED BY <4>7, <4>10, <4>11 DEF Fits
    <3> QED BY <3>3, <3>4
  <2>7. Complete(Q)'
    BY <2>6 DEF Complete
  <2> QED BY <2>2, <2>7 DEF Series
<1> QED BY <1>3, <1>4

LEMMA SeriesSame ==
    ASSUME Inv, NEW P, Pending(P), Complete(P), phase = "open", call.pc = "columns",
           UNCHANGED <<cur, io, writers, offered, damaged>>,
           NEW out, NEW goOn, Answered(out, goOn), goOn.pc # "flush"
    PROVE  Series'
<1>1. SameStored
  BY SameFile
<1>2. call'.pc # "flush"
  <2>1. call' = goOn \/ call' = NoCall
    BY AnsweredIs
  <2>2. NoCall.pc = "idle"
    BY DEF NoCall
  <2> QED BY <2>1, <2>2
<1>3. Active' = Active
  BY <1>2 DEF Active
<1> QED BY <1>1, <1>3, SeriesKept

LEMMA SeriesRecordPoint ==
    ASSUME Inv, Aligned, RecordPoint, NEW P, Pending(P), Complete(P)
    PROVE  Series'
<1>1. Control /\ WritersFine /\ call \in Calls /\ cur # NoDevice
  BY RecordCases, FileAssumption DEF Inv, Control, CallFine
<1>2. /\ phase = "open" /\ call.pc = "columns" /\ cur = call.dev /\ cur \in Devices
      /\ UNCHANGED <<schemas, cur, io>>
  BY <1>1, RecordCases
<1>3. Onward.pc = "columns"
  BY <1>1, <1>2, CallFields DEF Onward
<1>4. CASE /\ Kept
           /\ \/ Answered("err", call) \/ Answered("panic", call) \/ Answered("ok", Onward)
  <2>1. PICK out, goOn : Answered(out, goOn) /\ goOn.pc # "flush"
    BY <1>2, <1>3, <1>4
  <2> QED BY <1>2, <1>4, <2>1, SeriesSame DEF Kept
<1>5. CASE \E col \in Nat, m \in Measurements, p \in Points, matches \in BOOLEAN :
               RecordWrites(col, m, p, matches)
  <2>1. PICK col \in Nat, m \in Measurements, p \in Points, matches \in BOOLEAN :
               RecordWrites(col, m, p, matches)
    BY <1>5
  <2>2. PICK r : r = WriteValue(writers[col], p, matches)
    OBVIOUS
  <2>3. /\ col \in 1..Len(schemas[call.dev]) /\ schemas[call.dev][col] = m
        /\ \A j \in 1..Len(schemas[call.dev]) : schemas[call.dev][j] = m => col <= j
        /\ writers' = [writers EXCEPT ![col] = r.cw]
        /\ offered' = [offered EXCEPT ![cur][m] = @ \o <<p>>]
        /\ Damage(cur, r.out) /\ Answered(r.out, Onward)
    BY <1>2, <2>1, <2>2 DEF RecordWrites, WroteColumn, Onward
  <2>4. Matching(writers, schemas[call.dev])
    BY <1>1, <1>2 DEF Aligned
  <2>5. col \in 1..Len(writers) /\ writers[col].name = m /\ FirstOf(col)
    BY <2>3, <2>4 DEF Matching, FirstOf
  <2>6. Holds(writers[col], P[m])
    BY <2>5 DEF Pending
  <2>7. P[m] \in Seq(Points)
    BY <2>6, HoldsTyped
  <2>8. /\ r.cw.name = m
        /\ Holds(r.cw, IF matches /\ r.out = "ok" THEN Append(P[m], p) ELSE P[m])
        /\ r.out = "ok" => matches
    BY <2>2, <2>5, <2>6, WriteHolds
  <2>9. CASE r.out = "ok"
    <3>1. Append(P[m], p) = P[m] \o <<p>> /\ <<p>> \in Seq(Points)
      BY <2>7
    <3>2. Sub(<<p>>, <<p>>)
      BY <3>1, SubRefl
    <3>3. Holds(r.cw, P[m] \o <<p>>)
      BY <2>8, <2>9, <3>1
    <3> QED BY <1>2, <2>3, <2>5, <2>8, <3>1, <3>2, <3>3, SeriesColumn
  <2>10. CASE r.out # "ok"
    <3>1. P[m] \o <<>> = P[m] /\ <<p>> \in Seq(Points) /\ <<>> \in Seq(Points)
      BY <2>7
    <3>2. Sub(<<>>, <<p>>)
      BY SubEmpty
    <3>3. Holds(r.cw, P[m] \o <<>>)
      BY <2>8, <2>10, <3>1
    <3> QED BY <1>2, <2>3, <2>5, <2>8, <2>10, <3>1, <3>2, <3>3, SeriesColumn
  <2> QED BY <2>9, <2>10
<1> QED BY <1>1, <1>4, <1>5, RecordCases

LEMMA SeriesTabletColumn ==
    ASSUME DistinctColumns, Inv, Aligned, TabletColumn, NEW P, Pending(P), Complete(P)
    PROVE  Series'
<1>1. Control /\ WritersFine /\ call \in Calls /\ cur # NoDevice
  BY TabletCases, FileAssumption DEF Inv, Control, CallFine
<1>2. /\ phase = "open" /\ call.pc = "columns" /\ cur = call.dev /\ cur \in Devices
      /\ call.op = "tablet" /\ call.input \in Tablets
      /\ call.next \in Nat \ {0} /\ call.next <= Len(writers)
      /\ UNCHANGED <<schemas, cur, io>>
  BY <1>1, TabletCases DEF Control, CallFine
<1>3. CASE Kept /\ Answered("panic", call)
  BY <1>2, <1>3, SeriesSame DEF Kept
<1>4. CASE TabletWrites(call.next)
  <2>1. PICK col : col = call.next
    OBVIOUS
  <2>2. PICK columns : columns = call.input.columns
    OBVIOUS
  <2>3. /\ Matching(writers, columns)
        /\ \A i, j \in 1..Len(columns) : columns[i] = columns[j] => i = j
    BY <1>1, <1>2, <2>2 DEF Aligned, DistinctColumns, Tablets
  <2>4. /\ col \in 1..Len(writers) /\ writers[col].name = columns[col] /\ FirstOf(col)
    BY <1>1, <1>2, <2>1, <2>3 DEF Matching, FirstOf, WritersFine
  <2>5. PICK m : m = columns[col]
    OBVIOUS
  <2>6. PICK rows : rows = ColumnRows(col)
    OBVIOUS
  <2>7. /\ AreRows(rows) /\ NonNull(rows) \in Seq(Points)
        /\ WroteColumn(col, WriteBatch(writers[col], rows, TypeOf[m] = TypeOf[writers[col].name]),
                       m, NonNull(rows))
    BY <1>4, <2>1, <2>2, <2>5, <2>6 DEF TabletWrites, ColumnPoints
  <2>8. AreRows(rows) /\ NonNull(rows) \in Seq(Points)
    BY <2>7
  <2>9. PICK w, matches, r :
          /\ w = writers[col] /\ matches \in BOOLEAN /\ matches
          /\ r = WriteBatch(w, rows, matches)
          /\ writers' = [writers EXCEPT ![col] = r.cw]
          /\ offered' = [offered EXCEPT ![cur][m] = @ \o NonNull(rows)]
          /\ Damage(cur, r.out) /\ Answered(r.out, Onward)
    <3> DEFINE fits == TypeOf[m] = TypeOf[writers[col].name]
    <3>1. fits \in BOOLEAN /\ fits
      BY <2>4, <2>5
    <3>2. LET r == WriteBatch(writers[col], rows, fits)
          IN  /\ writers' = [writers EXCEPT ![col] = r.cw]
              /\ offered' = [offered EXCEPT ![cur][m] = @ \o NonNull(rows)]
              /\ Damage(cur, r.out) /\ Answered(r.out, Onward)
      BY <1>2, <2>7 DEF WroteColumn, Onward
    <3> HIDE DEF fits
    <3> QED BY <3>1, <3>2
  <2>10. Holds(w, P[m])
    BY <2>4, <2>5, <2>9 DEF Pending
  <2>11. PICK g : g = P[m]
    OBVIOUS
  <2>12. /\ r.cw.name = w.name
         /\ \E got \in Seq(Points) :
               /\ Holds(r.cw, g \o got) /\ Sub(got, NonNull(rows))
               /\ matches /\ r.out = "ok" => got = NonNull(rows)
    <3>1. Holds(w, g) /\ matches \in BOOLEAN /\ r = WriteBatch(w, rows, matches)
      BY <2>9, <2>10, <2>11
    <3> QED BY <2>8, <3>1, BatchHolds
  <2>13. PICK got \in Seq(Points) : /\ Holds(r.cw, P[m] \o got) /\ Sub(got, NonNull(rows))
                                    /\ r.out = "ok" => got = NonNull(rows)
    BY <2>9, <2>11, <2>12
  <2> QED BY <1>2, <2>4, <2>5, <2>8, <2>9, <2>12, <2>13, SeriesColumn
<1> QED BY <1>1, <1>3, <1>4, TabletCases

LEMMA SeriesReturnWrite ==
    ASSUME Inv, Aligned, ReturnWrite, NEW P, Pending(P), Complete(P)
    PROVE  Series'
<1>1. Control /\ WritersFine /\ cur # NoDevice
  BY ReturnCases, FileAssumption DEF Inv
<1>2. /\ phase = "open" /\ call.pc = "columns" /\ cur = call.dev /\ cur \in Devices
      /\ Answered("ok", NoCall) /\ UNCHANGED <<cur, writers, io, damaged>>
  BY <1>1, ReturnCases
<1>3. NoCall.pc # "flush"
  BY DEF NoCall
<1>4. offered' = offered
  <2>1. CASE call.op = "record" /\ offered' = offered
    BY <2>1
  <2>2. CASE /\ call.op = "tablet" /\ call.next > Len(writers) /\ call.next \in Nat \ {0}
             /\ Len(call.input.columns) \in Nat
             /\ offered' = [offered EXCEPT ![call.dev] = [m \in Measurements |->
                   IF Beyond(m) = {} THEN offered[call.dev][m]
                   ELSE offered[call.dev][m] \o ColumnPoints(Min(Beyond(m)))]]
    <3>1. Len(writers) = Len(call.input.columns)
      BY <1>1, <1>2, <2>2 DEF Aligned, Matching
    <3>2. \A m \in Measurements : Beyond(m) = {}
      BY <2>2, <3>1 DEF Beyond
    <3>3. /\ offered \in [Devices -> [Measurements -> Seq(Points)]]
      BY <1>1 DEF Control
    <3>4. [m \in Measurements |->
                   IF Beyond(m) = {} THEN offered[call.dev][m]
                   ELSE offered[call.dev][m] \o ColumnPoints(Min(Beyond(m)))]
          = offered[call.dev]
      BY <1>2, <3>2, <3>3
    <3> QED BY <1>2, <2>2, <3>3, <3>4
  <2> QED BY <1>1, <2>1, <2>2, ReturnCases
<1> QED BY <1>2, <1>3, <1>4, SeriesSame

LEMMA SeriesStarts ==
    ASSUME Inv, NEW P, Pending(P), Complete(P),
           \/ \E d \in Devices, list \in SchemaLists : Register(d, list)
           \/ \E d \in Devices : \E op, input : Starts(op, d, input)
           \/ \E op \in {"flush", "close"} : StartFlush(op)
    PROVE  Series'
<1>1. ASSUME UNCHANGED <<writers, offered, damaged, io>>, Active' = Active PROVE Series'
  BY <1>1, SameFile, SeriesKept
<1>2. ASSUME NEW d \in Devices, NEW list \in SchemaLists, Register(d, list) PROVE Series'
  <2>1. UNCHANGED <<writers, offered, damaged, io>> /\ Active' = Active
    BY <1>2 DEF Register, Active
  <2> QED BY <1>1, <2>1
<1>3. ASSUME NEW d \in Devices, NEW op, NEW input, Starts(op, d, input) PROVE Series'
  <2>1. /\ UNCHANGED <<writers, offered, damaged, io>> /\ call.pc = "idle"
        /\ cur' = IF cur = d THEN cur ELSE NoDevice
        /\ call'.group = cur
        /\ call'.pc = IF cur = d THEN "columns" ELSE IF cur # NoDevice THEN "flush" ELSE "group"
    BY <1>3 DEF Starts, StartWrite, Idle
  <2>2. Active' = Active
    BY <2>1 DEF Active
  <2> QED BY <1>1, <2>1, <2>2
<1>4. ASSUME NEW op \in {"flush", "close"}, StartFlush(op) PROVE Series'
  <2>1. /\ UNCHANGED <<writers, offered, damaged, io>> /\ call.pc = "idle"
        /\ cur' = NoDevice /\ call'.group = cur
        /\ call'.pc = IF cur = NoDevice THEN IF op = "flush" THEN "idle" ELSE "dictionary"
                                        ELSE "flush"
    BY <1>4 DEF StartFlush, Idle
  <2>2. Active' = Active
    BY <2>1 DEF Active
  <2> QED BY <1>1, <2>1, <2>2
<1> QED BY <1>2, <1>3, <1>4

\* A section that close appends moves no chunk.
LEMMA SectionKeeps ==
    ASSUME IOFine(io, Devices),
           \/ io' = WriteDictionary(io) \/ io' = WriteMetadata(io) \/ io' = WriteFooter(io)
    PROVE  SameStored
<1>1. ASSUME NEW region, Extended(io, io', region), region.kind \notin {"header", "chunk"}
      PROVE  SameStored
  <2>1. IOFine(io', Devices) /\ Lengthened(io.stream, io'.stream, region)
    BY <1>1, ExtendedFine
  <2>2. io'.groups = io.groups /\ Regions(io'.stream)
    BY <1>1, <2>1 DEF Extended, IOFine
  <2>3. Longer(io.stream, io'.stream)
    BY <2>1 DEF Lengthened, Longer
  <2>4. ASSUME NEW d \in Devices, NEW m \in Measurements
        PROVE  Content(io'.groups, io'.stream, d, m) = Content(io.groups, io.stream, d, m)
    <3>1. CASE d \in DOMAIN io.groups
      BY <2>2, <2>3, <3>1, ContentKept
    <3>2. CASE d \notin DOMAIN io.groups
      BY <2>2, <3>2 DEF Content
    <3> QED BY <3>1, <3>2
  <2> QED BY <2>4 DEF SameStored
<1>2. CASE io' = WriteDictionary(io)
  <2>1. CASE io' = io
    BY <2>1, SameFile
  <2>2. ASSUME NEW region, Extended(io, io', region), region.kind = "dictionary"
        PROVE  SameStored
    BY <1>1, <2>2
  <2> QED BY <1>2, <2>1, <2>2, DictionaryIs
<1>3. CASE io' = WriteMetadata(io)
  <2>1. PICK region : Extended(io, io', region) /\ region.kind = "metadata"
    BY <1>3, MetadataIs
  <2> QED BY <1>1, <2>1
<1>4. CASE io' = WriteFooter(io)
  <2>1. PICK region : Extended(io, io', region) /\ region.kind = "footer"
    BY <1>4, FooterIs
  <2> QED BY <1>1, <2>1
<1> QED BY <1>2, <1>3, <1>4

LEMMA SeriesClose ==
    ASSUME Inv, Close, NEW P, Pending(P), Complete(P)
    PROVE  Series'
<1>1. /\ Control /\ IOFine(io, Devices)
  BY DEF Inv, FileInv
<1>2. /\ writers = <<>> /\ UNCHANGED <<writers, offered, damaged>>
      /\ \/ io' = WriteDictionary(io) \/ io' = WriteMetadata(io) \/ io' = WriteFooter(io)
         \/ io' = io
  BY <1>1, CloseCases DEF ClosesWith
<1>3. SameStored
  BY <1>1, <1>2, SectionKeeps, SameFile
<1> QED BY <1>2, <1>3, SeriesKept

LEMMA SeriesCrash ==
    ASSUME Inv, Crash, NEW P, Pending(P), Complete(P)
    PROVE  Series'
<1>1. /\ phase = "open" /\ phase' = "gone" /\ call' = NoCall
      /\ UNCHANGED <<cur, writers, io, offered, damaged>>
  BY DEF Crash, Die
<1>2. Control /\ FileInv /\ call.pc \in Pcs
  BY CallFields DEF Inv, Control, CallFine
<1>3. CASE NoFooter(io.stream)
  BY <1>1, <1>3 DEF Series
<1>4. CASE ~NoFooter(io.stream)
  <2>1. call.pc = "complete"
    BY <1>1, <1>2, <1>4, PlainHasNoFooter DEF FileInv, Sections, Pcs
  <2>2. writers = <<>>
    BY <1>1, <1>2, <2>1 DEF Control, CallFine
  <2> QED BY <1>1, <2>2, SameFile, SeriesKept
<1> QED BY <1>3, <1>4

LEMMA SeriesStays ==
    ASSUME Series, UNCHANGED writerVars
    PROVE  Series'
<1>1. UNCHANGED <<cur, writers, io, call, phase, offered, damaged>>
  BY DEF writerVars
<1>2. CASE phase = "open" \/ ~NoFooter(io.stream)
  <2>1. PICK P : Pending(P) /\ Complete(P)
    BY <1>2 DEF Series
  <2>2. Active' = Active
    BY <1>1 DEF Active
  <2> QED BY <1>1, <2>1, <2>2, SameFile, SeriesKept
<1>3. CASE ~(phase = "open" \/ ~NoFooter(io.stream))
  BY <1>1, <1>3 DEF Series
<1> QED BY <1>2, <1>3

THEOREM SeriesNext ==
    ASSUME DistinctColumns
    PROVE  Inv /\ Control' /\ Aligned /\ Series /\ [Next]_vars => Series'
<1> SUFFICES ASSUME Inv, Control', Aligned, Series, [Next]_vars PROVE Series'
  OBVIOUS
<1>1. ASSUME WriterNext PROVE Series'
  <2>1. phase = "open"
    BY <1>1, WriterIsOpen
  <2>2. PICK P : Pending(P) /\ Complete(P)
    BY <2>1 DEF Series
  <2> QED BY <1>1, <2>2, WriterSteps, SeriesStarts, SeriesFlushChunk, SeriesFlushEnd,
             SeriesOpenGroup, SeriesRecordPoint, SeriesTabletColumn, SeriesReturnWrite,
             SeriesClose, SeriesCrash
<1>2. CASE UNCHANGED writerVars
  BY <1>2, SeriesStays
<1> QED BY <1>1, <1>2 DEF Next, Open, Read, ClearCache, vars

LEMMA SeriesInit == Init => Series
<1> SUFFICES ASSUME Init PROVE Series
  OBVIOUS
<1>1. /\ writers = <<>> /\ io = NewIOWriter
      /\ offered = [d \in Devices |-> [m \in Measurements |-> <<>>]]
  BY DEF Init, WriterInit
<1> DEFINE P == [m \in Measurements |-> <<>>]
<1>2. Pending(P)
  BY <1>1, NothingPending
<1>3. P \in [Measurements -> Seq(Points)] /\ \A m \in Measurements : P[m] = <<>>
  OBVIOUS
<1> HIDE DEF P
<1>4. ASSUME NEW d \in Devices, NEW m \in Measurements
      PROVE  Fits(d, m, Stored(d, m) \o Ahead(P, d, m))
  <2>1. io.groups = <<>>
    BY <1>1 DEF NewIOWriter
  <2>2. d \notin DOMAIN io.groups
    BY <2>1
  <2>3. Stored(d, m) = <<>>
    BY <2>2 DEF Stored, Content
  <2>4. Ahead(P, d, m) = <<>>
    BY <1>3 DEF Ahead
  <2>5. Stored(d, m) \o Ahead(P, d, m) = <<>>
    BY <2>3, <2>4
  <2>6. offered[d][m] = <<>>
    BY <1>1
  <2> QED BY <2>5, <2>6, SubEmpty DEF Fits
<1>5. Complete(P)
  BY <1>4 DEF Complete
<1> QED BY <1>2, <1>5 DEF Series

THEOREM SpecSeries ==
    ASSUME AlignedTablets, ~LateSchemas, DistinctColumns
    PROVE  Spec => [](Inv /\ Series)
<1>1. Inv /\ Inv' => Control'
  BY DEF Inv
<1>2. Orderly => Aligned
  BY DEF Orderly
<1> QED BY <1>1, <1>2, SeriesInit, SeriesNext, SpecInv, SpecOrderly, PTL DEF Spec

(* A reader that is open has all of the file, and nothing is left in memory.   *)
LEMMA OpenedFits ==
    ASSUME Inv, Series, opened, NEW d \in Devices, NEW m \in Measurements
    PROVE  /\ file = io.stream /\ groups = io.groups
           /\ Stored(d, m) = Content(groups, file, d, m)
           /\ Fits(d, m, Content(groups, file, d, m))
<1>1. Control /\ Sections /\ Disk
  BY DEF Inv, FileInv
<1>2. /\ Footed(io.stream, io.groups, io.dict) /\ file = io.stream /\ groups = io.groups
      /\ phase # "open" /\ call = NoCall
  BY <1>1 DEF Disk, Control
<1>3. ~NoFooter(io.stream)
  <2>1. Len(io.stream) \in Nat \ {0}
    BY DEF Inv, FileInv, IOFine, Regions
  <2> QED BY <1>2, <2>1 DEF Footed, NoFooter
<1>4. cur = NoDevice
  BY <1>1, <1>2, <1>3 DEF Sections
<1>5. PICK P : Complete(P)
  BY <1>3 DEF Series
<1>6. Ahead(P, d, m) = <<>>
  <2>1. Active = NoDevice
    BY <1>2, <1>4 DEF Active, NoCall
  <2>2. d # NoDevice
    BY FileAssumption
  <2> QED BY <2>1, <2>2 DEF Ahead
<1>7. PICK s : s = Stored(d, m)
  OBVIOUS
<1>8. s \in Seq(Points)
  BY <1>7, StoredTyped
<1>9. s \o <<>> = s
  BY <1>8
<1>10. Fits(d, m, s)
  BY <1>5, <1>6, <1>7, <1>9 DEF Complete
<1> QED BY <1>2, <1>7, <1>10 DEF Stored

(* A file that opens is complete.                                              *)
THEOREM SpecOpenedIsComplete ==
    ASSUME AlignedTablets, ~LateSchemas, DistinctColumns
    PROVE  Spec => []OpenedIsComplete
<1>1. Inv /\ Series => OpenedIsComplete
  BY OpenedFits DEF OpenedIsComplete, Fits
<1> QED BY <1>1, SpecSeries, PTL

(* A device that failed may lose points and never gains or reorders any.       *)
THEOREM SpecNothingInvented ==
    ASSUME AlignedTablets, ~LateSchemas, DistinctColumns
    PROVE  Spec => []NothingInvented
<1>1. ASSUME Inv, Series, opened, NEW d \in Devices, NEW m \in Measurements,
             NEW got, got = Content(groups, file, d, m),
             NEW i \in DOMAIN got, NEW j \in DOMAIN got, i < j
      PROVE  \E k, l \in DOMAIN offered[d][m] :
                k < l /\ got[i] = offered[d][m][k] /\ got[j] = offered[d][m][l]
  <2>1. PICK given : given = offered[d][m]
    OBVIOUS
  <2>2. Sub(got, given) /\ got \in Seq(Points) /\ given \in Seq(Points)
    BY <1>1, <2>1, OpenedFits, StoredTyped DEF Fits, Inv, Control
  <2>3. PICK f \in [1..Len(got) -> 1..Len(given)] :
          /\ \A k \in 1..Len(got) : got[k] = given[f[k]]
          /\ \A k, l \in 1..Len(got) : k < l => f[k] < f[l]
    BY <2>2 DEF Sub
  <2>4. i \in 1..Len(got) /\ j \in 1..Len(got)
    BY <1>1, <2>2
  <2>5. f[i] \in DOMAIN given /\ f[j] \in DOMAIN given
    BY <2>2, <2>3, <2>4
  <2>6. f[i] < f[j] /\ got[i] = given[f[i]] /\ got[j] = given[f[j]]
    BY <1>1, <2>3, <2>4
  <2> QED BY <2>1, <2>5, <2>6
<1>2. Inv /\ Series => NothingInvented
  BY <1>1 DEF NothingInvented
<1> QED BY <1>2, SpecSeries, PTL

(* What read returns of a series begins it: its first chunk.                   *)
LEMMA FirstBegins ==
    ASSUME Inv, opened, NEW d \in Devices, NEW m \in Measurements, Has(d, m)
    PROVE  /\ ReadFirst(d, m) \in Seq(Points)
           /\ Begins(ReadFirst(d, m), Content(groups, file, d, m), Points)
<1>1. IOFine(io, Devices) /\ file = io.stream /\ groups = io.groups
  BY DEF Inv, FileInv, Disk
<1>2. d \in DOMAIN io.groups /\ ChunksOf(d, m) # {}
  BY <1>1 DEF Has
<1> DEFINE seqs == Chunked(io.groups, io.stream, d, m)
<1>3. /\ seqs \in Seq(Seq(Points)) /\ Len(seqs) = Len(io.groups[d])
      /\ Len(io.groups[d]) \in Nat
  BY <1>1, <1>2, ChunkedTyped
<1>4. DOMAIN io.groups[d] = 1..Len(io.groups[d])
  <2>1. io.groups[d] \in Seq(Meta)
    BY <1>1, <1>2 DEF IOFine
  <2> QED BY <2>1
<1>5. ChunksOf(d, m) \in SUBSET Nat
  BY <1>1, <1>3, <1>4 DEF ChunksOf
<1>6. PICK i : i = Min(ChunksOf(d, m))
  OBVIOUS
<1>7. i \in ChunksOf(d, m) /\ \A j \in ChunksOf(d, m) : i <= j
  BY <1>2, <1>5, <1>6, MinIsLeast
<1>8. i \in 1..Len(seqs) /\ io.groups[d][i].name = m
  BY <1>1, <1>3, <1>4, <1>7 DEF ChunksOf
<1>9. seqs[i] = ReadFirst(d, m)
  BY <1>1, <1>3, <1>6, <1>8 DEF Chunked, ReadFirst
<1>10. \A j \in 1..(i - 1) : seqs[j] = <<>>
  <2> SUFFICES ASSUME NEW j \in 1..(i - 1) PROVE seqs[j] = <<>>
    OBVIOUS
  <2>1. j \in 1..Len(io.groups[d]) /\ ~(i <= j)
    BY <1>3, <1>8
  <2>2. io.groups[d][j].name # m
    BY <1>1, <1>4, <1>7, <2>1 DEF ChunksOf
  <2> QED BY <2>1, <2>2 DEF Chunked
<1>11. Content(groups, file, d, m) = Joined(seqs)
  BY <1>1, <1>2 DEF Content, Chunked
<1> HIDE DEF seqs
<1>12. seqs[i] \in Seq(Points)
  BY <1>3, <1>8
<1>13. Begins(seqs[i], Joined(seqs), Points)
  BY <1>3, <1>8, <1>10, JoinedFirst
<1> QED BY <1>9, <1>11, <1>12, <1>13

THEOREM SpecReadIsPrefix ==
    ASSUME AlignedTablets, ~LateSchemas, DistinctColumns
    PROVE  Spec => []ReadIsPrefix
<1>1. ASSUME Inv, Series, opened, NEW d \in Devices \ damaged, NEW m \in Measurements,
             Has(d, m)
      PROVE  IsPrefix(ReadFirst(d, m), offered[d][m])
  <2>1. PICK first \in Seq(Points) : first = ReadFirst(d, m)
    BY <1>1, FirstBegins
  <2>2. Begins(first, offered[d][m], Points)
    BY <1>1, <2>1, FirstBegins, OpenedFits DEF Fits
  <2>3. IsPrefix(first, offered[d][m])
    BY <2>2 DEF Begins, IsPrefix
  <2> QED BY <2>1, <2>3
<1>2. Inv /\ Series => ReadIsPrefix
  BY <1>1 DEF ReadIsPrefix
<1> QED BY <1>2, SpecSeries, PTL
===============================================================================
