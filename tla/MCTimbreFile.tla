------------------------------ MODULE MCTimbreFile ------------------------------
(* TimbreFile on small instances: two devices, two measurements of one type,    *)
(* pages of two points.                                                        *)
EXTENDS TimbreFile

d1 == <<"d", "1">>
d2 == <<"d", "2">>
temp == <<"t">>
hum  == <<"h">>

MCDevices      == {d1, d2}
MCMeasurements == {temp, hum}
\* Room for the points of three calls of up to three rows.
MCPoints       == {NewPoint(m, n, r) : m \in MCMeasurements, n \in 1..3, r \in 1..3}
MCTypeOf       == [m \in MCMeasurements |-> "float"]
MCEncodes      == [m \in MCMeasurements |-> TRUE]

\* One column or both; registering the first twice makes an empty duplicate.
MCSchemaLists == {<<temp>>, <<temp, hum>>}

Cell(m, cell) == [m |-> m, cell |-> cell]

\* A full record, one that leaves the first column empty, one of a wrong type.
MCRecordShapes == {<<Cell(temp, "ok"), Cell(hum, "ok")>>,
                   <<Cell(temp, "null"), Cell(hum, "ok")>>,
                   <<Cell(hum, "bad")>>}

MCPlainRecords == {<<Cell(temp, "ok"), Cell(hum, "ok")>>}

MCTabletColumns == {<<temp>>, <<temp, hum>>}

\* A caller whose tablets list the columns in another order.
MCAnyColumns == {<<temp, hum>>, <<hum, temp>>}

\* Three full rows, and two of which one has no second column.
MCTabletRows == {<<{}, {}, {}>>, <<{}, {2}>>}
===============================================================================
