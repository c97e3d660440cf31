----------------------------- MODULE MCPipeline -----------------------------
(***************************************************************************)
(* Numbers of 4 and 8 bits for i32 and i64, and floats with an infinity    *)
(* and NaN; pages of three points in one mini-block.  The encodings are    *)
(* those that Arrow's types select, but for a column that is Plain.  One   *)
(* device has a tablet of two columns, another an aligned one whose only   *)
(* column cannot be read back.  Batches whose devices lie apart and next   *)
(* to each other, with nulls, an unsigned number too large, a column of    *)
(* delta of delta, and times that cannot be read.                          *)
(***************************************************************************)
EXTENDS Pipeline

CONSTANTS d1, d2, d3

MCI32Min == -8
MCI64Min == -128

a == <<"a">>
b == <<"b">>
c == <<"c">>
e == <<"e">>
y == <<"y">>

MCTypeOf ==
    (a :> "Int32") @@ (b :> "Float") @@ (c :> "Int32") @@ (e :> "Boolean") @@ (y :> "Date")
MCEncodingOf ==
    (a :> "Plain") @@ (b :> "Gorilla") @@ (c :> "DeltaOfDelta") @@ (e :> "Rle") @@ (y :> "Plain")

Val(kind, v) == [type |-> kind, v |-> v]
Col(name, kind) == [name |-> name, type |-> kind]

MCTypes == {"Boolean", "Int32", "Int64", "Float", "Double", "Text", "Date", "Timestamp"}
Sample(kind) ==
    CASE kind = "Boolean" -> {0, 1}
      [] kind = "Float"   -> {-2, NaN, Inf}
      [] kind = "Double"  -> {3, NaN, -Inf}
      [] kind = "Int32"   -> {I32Min, 0, I32Max}
      [] OTHER            -> {0, 3}
MCValues == [kind \in MCTypes |-> {Val(kind, v) : v \in Sample(kind)}]

\* A filter of every kind, over a bound that values are below, at and above.
Simple(kind) ==
    LET x  == Val(kind, CHOOSE v \in Sample(kind) : v # NaN)
        z  == Val(kind, 0)
    IN  {ValueFilter("x", op, <<z>>) : op \in Operators}
        \cup {ValueFilter("x", op, <<x>>) : op \in {"GreaterThan", "LessThanOrEqual"}}
        \cup {ValueFilter("x", "In", <<x, z>>), ValueFilter("x", "NotIn", <<x, z>>),
              ValueFilter("x", "Equals", <<Val("Text", 0)>>),
              ValueFilter("x", "LessThan", <<Val("Float", NaN)>>),
              ValueFilter("x", "IsNull", <<>>), ValueFilter("x", "IsNotNull", <<>>),
              ValueFilter("other", "LessThan", <<z>>)}
Times == {TimeFilter(op, <<2>>) : op \in Operators} \cup
         {TimeFilter("Between", <<1, 2>>), TimeFilter("Between", <<2, 2>>)}
Nests(kind) ==
    LET low   == ValueFilter("x", "LessThan", <<Val(kind, 1)>>)
        high  == ValueFilter("x", "GreaterThanOrEqual", <<Val(kind, 1)>>)
        early == TimeFilter("LessThan", <<2>>)
        late  == TimeFilter("GreaterThan", <<1>>)
    IN  {And(<<>>), Or(<<>>), And(<<low>>), Not(low), Not(Not(early)),
         And(<<Or(<<low, late>>), high>>), Or(<<And(<<low, early>>), high>>),
         And(<<And(<<early, low>>), late>>), Or(<<Or(<<high>>), low>>),
         Not(And(<<low, Not(Or(<<early, high>>))>>))}
Families == {Family(kind) : kind \in MCTypes}
MCPredicates ==
    [f \in Families |->
        LET kind == IF f = "String" THEN "Text" ELSE f
        IN  Simple(kind) \cup Times \cup Nests(kind)]

MCTablets == {NewTablet(d1, <<Col(a, "Int32"), Col(b, "Float")>>, 2, FALSE),
              NewTablet(d3, <<Col(y, "Date")>>, 2, TRUE)}

RowAt(t, cells) == [t |-> t, cells |-> cells]
MCRows == {RowAt(1, <<<<Val("Int32", 5)>>, <<Val("Float", 6)>>>>),
           RowAt(2, <<<<>>, <<Val("Float", 7)>>>>),
           RowAt(1, <<<<Val("Int32", 4)>>, <<Val("Int32", 4)>>>>),
           RowAt(2, <<<<Val("Int32", 3)>>>>)}
MCBulks == {[times |-> <<2, 1>>,
             columns |-> <<<<<<Val("Int32", 1)>>, <<>>>>,
                           <<<<Val("Float", 2)>>, <<Val("Float", 3)>>>>>>],
            [times |-> <<1, 2>>,
             columns |-> <<<<<<Val("Int32", 1)>>, <<Val("Text", 1)>>>>,
                           <<<<>>, <<>>>>>>],
            [times |-> <<1>>, columns |-> <<<<<<Val("Int32", 2)>>>>>>],
            [times |-> <<>>, columns |-> <<>>]}

Arrow(name, kind, cells) == [name |-> name, type |-> kind, cells |-> cells]
MCBatches ==
    {[unit |-> "ms", devices |-> <<d1, d2, d1>>, times |-> <<1, NullTime, 2>>,
      columns |-> <<Arrow(a, "Int32", <<<<1>>, <<2>>, <<3>>>>),
                    Arrow(b, "Float32", <<<<4>>, <<5>>, <<6>>>>)>>],
     [unit |-> "int64", devices |-> <<d2, d2, NoDevice>>, times |-> <<1, 2, 3>>,
      columns |-> <<Arrow(a, "UInt32", <<<<9>>, <<>>, <<1>>>>),
                    Arrow(c, "Int32", <<<<1>>, <<0>>, <<1>>>>)>>],
     [unit |-> "us", devices |-> <<d1>>, times |-> <<1>>,
      columns |-> <<Arrow(a, "Int32", <<<<1>>>>)>>],
     [unit |-> "ms", devices |-> <<d2, d1>>, times |-> <<1, 1>>,
      columns |-> <<Arrow(b, "Float16", <<<<1>>, <<1>>>>)>>],
     [unit |-> "ms", devices |-> <<d2>>, times |-> <<2>>,
      columns |-> <<Arrow(b, "Float32", <<<<2>>>>), Arrow(e, "Boolean", <<<<1>>>>)>>]}
=============================================================================
