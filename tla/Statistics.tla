----------------------------- MODULE Statistics -----------------------------
(***************************************************************************)
(* The statistics a page keeps of its values (common/statistic.rs): one    *)
(* kind of record for each of six families of types, over the count and    *)
(* the times of BaseStats, which ChunkOps has.  A value is an integer, in  *)
(* floats also an infinity or NaN, which no comparison is true of.  Sums   *)
(* are exact: neither i64 nor f64 is at its limit here.                    *)
(***************************************************************************)
EXTENDS ChunkOps

CONSTANTS
    I32Min, I32Max,     \* the range of an i32; I64Min..I64Max is i64's
    F32Max, F64Max,     \* the greatest finite f32 and f64
    Inf, NaN

ASSUME NumberAssumption ==
    /\ {I32Min, I32Max, F32Max, F64Max, Inf, NaN} \subseteq Int
    /\ I32Min < 0 /\ 0 < I32Max /\ I64Min <= I32Min /\ I32Max <= I64Max
    /\ I64Max < NaN /\ 0 < F32Max /\ F32Max < F64Max /\ F64Max < Inf /\ Inf < NaN
-----------------------------------------------------------------------------
(* Arithmetic of floats: f32::min and f32::max answer the other operand    *)
(* when one of them is NaN.                                                *)

FloatMin(a, b) == IF a = NaN THEN b ELSE IF b = NaN THEN a ELSE Smaller(a, b)
FloatMax(a, b) == IF a = NaN THEN b ELSE IF b = NaN THEN a ELSE Larger(a, b)

FloatAdd(a, b) ==
    IF NaN \in {a, b} \/ {Inf, -Inf} \subseteq {a, b} THEN NaN
    ELSE IF Inf \in {a, b} THEN Inf
    ELSE IF -Inf \in {a, b} THEN -Inf
    ELSE a + b
-----------------------------------------------------------------------------
(* What the six have in common.                                            *)

NewStat == [base |-> EmptyStat, sum |-> 0, first |-> 0, last |-> 0]

NewNumbers(lowest, highest) ==
    [base |-> EmptyStat, sum |-> 0, first |-> 0, last |-> 0,
     min |-> highest, max |-> lowest]

\* Mutant: the first value is known by its value, not by the count.
WithPoint_FirstByValue(s, t, v) ==
    [s EXCEPT !.base = UpdateTime(@, t),
              !.first = IF @ = 0 THEN v ELSE @,
              !.last = v]

WithPoint(s, t, v) ==
    [s EXCEPT !.base = UpdateTime(@, t),
              !.first = IF s.base.count = 0 THEN v ELSE @,
              !.last = v]

(* An empty statistic is left out of a merge, and one that is merged into  *)
(* an empty one replaces it; Both(s, o) joins the values of two others.    *)
Merging(s, o, Both(_, _)) ==
    IF o.base.count = 0 THEN s
    ELSE IF s.base.count = 0 THEN o
    ELSE [Both(s, o) EXCEPT !.base = MergeStat(s.base, o.base), !.last = o.last]
-----------------------------------------------------------------------------
BooleanNew == NewStat
BooleanUpdate(s, t, v) == [WithPoint(s, t, v) EXCEPT !.sum = @ + v]
BooleanMerge(s, o) ==
    Merging(s, o, LAMBDA a, b : [a EXCEPT !.sum = @ + b.sum])

Int32New == NewNumbers(I32Min, I32Max)

Int32Update(s, t, v) ==
    [WithPoint(s, t, v) EXCEPT !.sum = @ + v,
                               !.min = Smaller(@, v), !.max = Larger(@, v)]

Int32Merge(s, o) ==
    Merging(s, o, LAMBDA a, b : [a EXCEPT !.sum = @ + b.sum,
                        !.min = Smaller(@, b.min), !.max = Larger(@, b.max)])

Int64New == NewNumbers(I64Min, I64Max)

Int64Update(s, t, v) ==
    [WithPoint(s, t, v) EXCEPT !.sum = @ + v,
                               !.min = Smaller(@, v), !.max = Larger(@, v)]

Int64Merge(s, o) ==
    Merging(s, o, LAMBDA a, b : [a EXCEPT !.sum = @ + b.sum,
                        !.min = Smaller(@, b.min), !.max = Larger(@, b.max)])

FloatNew == NewNumbers(-F32Max, F32Max)

FloatUpdate(s, t, v) ==
    [WithPoint(s, t, v) EXCEPT !.sum = FloatAdd(@, v),
                               !.min = FloatMin(v, @), !.max = FloatMax(v, @)]

FloatMerge(s, o) ==
    Merging(s, o, LAMBDA a, b : [a EXCEPT !.sum = FloatAdd(@, b.sum),
                        !.min = FloatMin(@, b.min), !.max = FloatMax(@, b.max)])

DoubleNew == NewNumbers(-F64Max, F64Max)

DoubleUpdate(s, t, v) ==
    [WithPoint(s, t, v) EXCEPT !.sum = FloatAdd(@, v),
                               !.min = FloatMin(v, @), !.max = FloatMax(v, @)]

DoubleMerge(s, o) ==
    Merging(s, o, LAMBDA a, b : [a EXCEPT !.sum = FloatAdd(@, b.sum),
                        !.min = FloatMin(@, b.min), !.max = FloatMax(@, b.max)])

StringNew == NewStat
StringUpdate(s, t, v) == WithPoint(s, t, v)
StringMerge(s, o) == Merging(s, o, LAMBDA a, b : a)
-----------------------------------------------------------------------------
(* StatisticEnum: the family a column's type is kept by, and the dispatch. *)

Family(type) ==
    CASE type = "Boolean"                -> "Boolean"
      [] type \in {"Int64", "Timestamp"} -> "Int64"
      [] type = "Float"                  -> "Float"
      [] type = "Double"                 -> "Double"
      [] type \in {"Text", "String"}     -> "String"
      [] OTHER                           -> "Int32"

StatisticNew(type) ==
    LET f == Family(type)
    IN  CASE f = "Boolean" -> BooleanNew [] f = "Int32"  -> Int32New
          [] f = "Int64"   -> Int64New   [] f = "Float"  -> FloatNew
          [] f = "Double"  -> DoubleNew  [] f = "String" -> StringNew

(* update_bool .. update_string: a call for another family than the        *)
(* statistic's own is ignored.                                             *)
StatisticUpdate(type, s, t, value) ==
    LET f == Family(type) v == value.v
    IN  IF Family(value.type) # f THEN s
        ELSE CASE f = "Boolean" -> BooleanUpdate(s, t, v)
               [] f = "Int32"   -> Int32Update(s, t, v)
               [] f = "Int64"   -> Int64Update(s, t, v)
               [] f = "Float"   -> FloatUpdate(s, t, v)
               [] f = "Double"  -> DoubleUpdate(s, t, v)
               [] f = "String"  -> StringUpdate(s, t, v)

\* update_x_batch
StatisticBatch(type, s, points) ==
    LET updated[n \in 0..Len(points)] ==
            IF n = 0 THEN s
            ELSE StatisticUpdate(type, updated[n - 1], points[n].t, points[n].value)
    IN  updated[Len(points)]

StatisticMerge(type, s, o) ==
    LET f == Family(type)
    IN  CASE f = "Boolean" -> BooleanMerge(s, o) [] f = "Int32"  -> Int32Merge(s, o)
          [] f = "Int64"   -> Int64Merge(s, o)   [] f = "Float"  -> FloatMerge(s, o)
          [] f = "Double"  -> DoubleMerge(s, o)  [] f = "String" -> StringMerge(s, o)

(* min_value and max_value, as options: <<>> for None.  Booleans and       *)
(* strings have none, and nothing has before its first value.              *)
HasRange(type, s) == Family(type) \notin {"Boolean", "String"} /\ s.base.count > 0

MinValue(type, s) ==
    IF HasRange(type, s) THEN <<[type |-> Family(type), v |-> s.min]>> ELSE <<>>
MaxValue(type, s) ==
    IF HasRange(type, s) THEN <<[type |-> Family(type), v |-> s.max]>> ELSE <<>>
=============================================================================
