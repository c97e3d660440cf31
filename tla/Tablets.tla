------------------------------- MODULE Tablets ------------------------------
(***************************************************************************)
(* The caller's table of rows for one device (common/tablet.rs), as        *)
(* operators on its state: the timestamps, and for each column a vector of *)
(* values and a bitmap of nulls, which no method keeps of equal length.    *)
(* A column is [name, type]; a cell is a value [type, v] in a sequence of  *)
(* one, or <<>> for None.                                                  *)
(***************************************************************************)
EXTENDS Integers, SequencesExt

CONSTANT Default   \* the value a null leaves in its column: false, 0, 0.0, ""

(* ValueMatrix::new and data_type: the vector a column's values are in.    *)
Matrix(type) ==
    CASE type \in {"Int32", "Date"}      -> "Int32"
      [] type \in {"Int64", "Timestamp"} -> "Int64"
      [] type \in {"Text", "String"}     -> "Text"
      [] type \in {"Boolean", "Float", "Double"} -> type
      [] OTHER                           -> "Int32"

(* BitMap: a set of rows, of a size that set and get keep to.              *)
NewBitMap(size) == [nulls |-> {}, size |-> size]

BitMapSet(b, row, isNull) ==
    IF row > b.size THEN b
    ELSE [b EXCEPT !.nulls = IF isNull THEN @ \cup {row} ELSE @ \ {row}]

IsNullAt(b, row) == row <= b.size /\ row \in b.nulls

NewTablet(device, columns, max_rows, aligned) ==
    [device |-> device, columns |-> columns, max_rows |-> max_rows,
     aligned |-> aligned, timestamps |-> <<>>,
     values  |-> [c \in DOMAIN columns |-> <<>>],
     bitmaps |-> [c \in DOMAIN columns |-> NewBitMap(max_rows)]]

RowCount(tab) == Len(tab.timestamps)
IsFull(tab) == RowCount(tab) >= tab.max_rows

Answer(tab, out) == [tab |-> tab, out |-> out]
-----------------------------------------------------------------------------
Accepts(column, cell) ==
    \/ cell = <<>>
    \/ cell[1].type \notin {"Blob", "Null"} /\ Matrix(column.type) = Matrix(cell[1].type)

Number(cell) == IF cell = <<>> THEN Default ELSE cell[1].v

(* add_value and add_default_value for the cells of each column: at its    *)
(* end, and in the bits from `row` on, which a bitmap keeps to its size.   *)
Pushed(tab, row, columns) ==
    LET Bits(b, cells) ==
            LET rows(where) == {row + i - 1 : i \in where} \cap 1..b.size
            IN  [b EXCEPT !.nulls = (@ \ rows(DOMAIN cells)) \cup
                                    rows({i \in DOMAIN cells : cells[i] = <<>>})]
    IN  [tab EXCEPT
            !.values  = [c \in DOMAIN @ |->
                            @[c] \o [i \in DOMAIN columns[c] |-> Number(columns[c][i])]],
            !.bitmaps = [c \in DOMAIN @ |-> Bits(@[c], columns[c])]]

(* add_column_bulk: the cells of a column up to the first of another type. *)
Fitting(column, cells) ==
    LET bad == {i \in DOMAIN cells : ~Accepts(column, cells[i])}
    IN  IF bad = {} THEN cells ELSE SubSeq(cells, 1, Min(bad) - 1)

(* The columns one after the other; the first that does not take all of    *)
(* its cells ends the loop, and the columns before it stay as they are.    *)
PushColumns(tab, row, columns) ==
    LET fitting == [c \in DOMAIN columns |-> Fitting(tab.columns[c], columns[c])]
        short == {c \in DOMAIN columns : fitting[c] # columns[c]}
        taken == [c \in DOMAIN columns |->
                     IF short = {} \/ c <= Min(short) THEN fitting[c] ELSE <<>>]
    IN  Answer(Pushed(tab, row, taken), IF short = {} THEN "ok" ELSE "err")

(* A row is a cell for each column.  The one that is refused has no value, *)
(* but its bit is cleared; the timestamp and the cells before it stay.     *)
PushCells(tab, row, cells) ==
    LET pushed == PushColumns(tab, row, [c \in DOMAIN cells |-> <<cells[c]>>])
        bad == {c \in DOMAIN cells : ~Accepts(tab.columns[c], cells[c])}
    IN  IF bad = {} THEN pushed
        ELSE [pushed EXCEPT !.tab.bitmaps[Min(bad)] = BitMapSet(@, row, FALSE)]

MayAddRow(tab, timestamp, cells) ==
    /\ ~IsFull(tab)
    /\ Len(cells) = Len(tab.columns)
    /\ tab.aligned /\ tab.timestamps # <<>> => timestamp > Last(tab.timestamps)

\* Mutant: the row's index is taken after the timestamp was pushed.
AddRow_IndexAfterPush(tab, timestamp, cells) ==
    IF ~MayAddRow(tab, timestamp, cells) THEN Answer(tab, "err")
    ELSE PushCells([tab EXCEPT !.timestamps = Append(@, timestamp)],
                   RowCount(tab) + 2, cells)

AddRow(tab, timestamp, cells) ==
    IF ~MayAddRow(tab, timestamp, cells) THEN Answer(tab, "err")
    ELSE PushCells([tab EXCEPT !.timestamps = Append(@, timestamp)],
                   RowCount(tab) + 1, cells)

\* Mutant: the bits stay.
Clear_KeepsBits(tab) ==
    [tab EXCEPT !.timestamps = <<>>, !.values = [c \in DOMAIN @ |-> <<>>]]

Clear(tab) ==
    [tab EXCEPT !.timestamps = <<>>,
                !.values  = [c \in DOMAIN @ |-> <<>>],
                !.bitmaps = [c \in DOMAIN @ |-> NewBitMap(tab.max_rows)]]
-----------------------------------------------------------------------------
(* add_rows_bulk: columns is a sequence of columns of cells.  Neither the  *)
(* order of the times of an aligned tablet is looked at, nor the types     *)
(* before the timestamps and the columns before are in.                    *)
AddRowsBulk(tab, timestamps, columns) ==
    IF timestamps = <<>> THEN Answer(tab, "ok")
    ELSE IF \/ RowCount(tab) + Len(timestamps) > tab.max_rows
            \/ Len(columns) # Len(tab.columns)
            \/ \E c \in DOMAIN columns : Len(columns[c]) # Len(timestamps)
         THEN Answer(tab, "err")
    ELSE PushColumns([tab EXCEPT !.timestamps = @ \o timestamps],
                     RowCount(tab) + 1, columns)
=============================================================================
