-------------------------------- MODULE Query -------------------------------
(***************************************************************************)
(* The filters of a query and the predicates made of them (query/filter),  *)
(* and the scan that applies them to a chunk (reader/scan.rs, chunk_reader *)
(* and file_reader).  A filter is [op, args]; a value is [type, v], and an *)
(* option is <<>> or <<value>>.  A predicate is one of                     *)
(*    [kind |-> "Time", filter], [kind |-> "Value", name, filter],         *)
(*    [kind |-> "And" or "Or", of |-> a sequence], [kind |-> "Not", of].   *)
(***************************************************************************)
EXTENDS Statistics, Picking, Maps

CONSTANT MaxNesting   \* bound: how deep predicates are nested

ASSUME NestingAssumption == MaxNesting \in Nat \ {0}

TimeFilter(op, args) == [kind |-> "Time", filter |-> [op |-> op, args |-> args]]
ValueFilter(name, op, args) ==
    [kind |-> "Value", name |-> name, filter |-> [op |-> op, args |-> args]]
And(ps) == [kind |-> "And", of |-> ps]
Or(ps)  == [kind |-> "Or", of |-> ps]
Not(p)  == [kind |-> "Not", of |-> p]

Operators == {"GreaterThan", "GreaterThanOrEqual", "LessThan", "LessThanOrEqual",
              "Equals", "NotEquals", "In", "NotIn"}

(* TimeFilter, ValueFilter and Predicate, the last by its depth.           *)
Comparisons == Operators \ {"In", "NotIn"}

TimeFilters == [op : Comparisons, args : [1..1 -> Int]]
               \cup [op : {"Between"}, args : [1..2 -> Int]]
               \cup [op : {"In", "NotIn"}, args : Seq(Int)]

TsValue == [type : STRING, v : Int]

ValueFilters == [op : Comparisons, args : [1..1 -> TsValue]]
                \cup [op : {"In", "NotIn"}, args : Seq(TsValue)]
                \cup [op : {"IsNull", "IsNotNull"}, args : {<<>>}]

Leaves == [kind : {"Time"}, filter : TimeFilters]
          \cup [kind : {"Value"}, name : STRING, filter : ValueFilters]

Combined(inner) == [kind : {"And", "Or"}, of : Seq(inner)]
                   \cup [kind : {"Not"}, of : inner]

PredicatesTo[depth \in 0..MaxNesting] ==
    IF depth = 0 THEN Leaves ELSE Leaves \cup Combined(PredicatesTo[depth - 1])

Predicates == PredicatesTo[MaxNesting]
-----------------------------------------------------------------------------
TimeMatches(f, t) ==
    LET a == f.args
    IN  CASE f.op = "GreaterThan"        -> t > a[1]
          [] f.op = "GreaterThanOrEqual" -> t >= a[1]
          [] f.op = "LessThan"           -> t < a[1]
          [] f.op = "LessThanOrEqual"    -> t <= a[1]
          [] f.op = "Between"            -> t >= a[1] /\ t <= a[2]
          [] f.op = "Equals"             -> t = a[1]
          [] f.op = "NotEquals"          -> t # a[1]
          [] f.op = "In"                 -> t \in ToSet(a)
          [] f.op = "NotIn"              -> t \notin ToSet(a)

\* Mutant: a range is skipped when its end is the start of the interval.
TimeMightMatch_Strict(f, lo, hi) ==
    LET a == f.args
    IN  CASE f.op \in {"GreaterThan", "GreaterThanOrEqual"} -> hi > a[1]
          [] f.op \in {"LessThan", "LessThanOrEqual"}       -> lo < a[1]
          [] f.op = "Between"            -> ~(hi <= a[1] \/ lo >= a[2])
          [] f.op \in {"Equals", "In"}   -> \E t \in ToSet(a) : lo <= t /\ t <= hi
          [] OTHER                       -> TRUE

TimeMightMatch(f, lo, hi) ==
    LET a == f.args
    IN  CASE f.op = "GreaterThan"        -> hi > a[1]
          [] f.op = "GreaterThanOrEqual" -> hi >= a[1]
          [] f.op = "LessThan"           -> lo < a[1]
          [] f.op = "LessThanOrEqual"    -> lo <= a[1]
          [] f.op = "Between"            -> ~(hi < a[1] \/ lo > a[2])
          [] f.op \in {"Equals", "In"}   -> \E t \in ToSet(a) : lo <= t /\ t <= hi
          [] OTHER                       -> TRUE

Opposite == [GreaterThan |-> "LessThanOrEqual", GreaterThanOrEqual |-> "LessThan",
             LessThan |-> "GreaterThanOrEqual", LessThanOrEqual |-> "GreaterThan",
             Equals |-> "NotEquals", NotEquals |-> "Equals",
             In |-> "NotIn", NotIn |-> "In",
             IsNull |-> "IsNotNull", IsNotNull |-> "IsNull"]

\* An interval has no opposite filter and is answered as it is.
NegateTime(f) == IF f.op = "Between" THEN f ELSE [f EXCEPT !.op = Opposite[@]]
-----------------------------------------------------------------------------
(* Values of different types do not compare, nor does NaN.                 *)

Ordered == {"Int32", "Int64", "Float", "Double", "Boolean", "Text", "String"}
Comparable(a, b) == a.type = b.type /\ a.type \in Ordered /\ NaN \notin {a.v, b.v}

Gt(a, b)   == Comparable(a, b) /\ a.v > b.v
Lt(a, b)   == Comparable(a, b) /\ a.v < b.v
Same(a, b) == a.type = b.type /\ a.v = b.v /\ a.v # NaN
Gte(a, b)  == Gt(a, b) \/ Same(a, b)
Lte(a, b)  == Lt(a, b) \/ Same(a, b)

ValueMatches(f, option) ==
    IF f.op = "IsNull" THEN option = <<>>
    ELSE IF f.op = "IsNotNull" THEN option # <<>>
    ELSE option # <<>> /\
         LET val == option[1]
             x   == f.args[1]
             Listed == \E i \in DOMAIN f.args : Same(val, f.args[i])
         IN  CASE f.op = "GreaterThan"         -> Gt(val, x)
               [] f.op = "GreaterThanOrEqual"  -> Gte(val, x)
               [] f.op = "LessThan"            -> Lt(val, x)
               [] f.op = "LessThanOrEqual"     -> Lte(val, x)
               [] f.op \in {"Equals", "In"}    -> Listed
               [] f.op \in {"NotEquals", "NotIn"} -> ~Listed

(* Whether values between the options min and max can match.               *)
ValueMightMatch(f, min, max) ==
    LET x == f.args[1]
        Within(v) == ~Lt(v, min[1]) /\ ~Gt(v, max[1])
    IN  CASE f.op = "GreaterThan"        -> max = <<>> \/ ~Lte(max[1], x)
          [] f.op = "GreaterThanOrEqual" -> max = <<>> \/ ~Lt(max[1], x)
          [] f.op = "LessThan"           -> min = <<>> \/ ~Gte(min[1], x)
          [] f.op = "LessThanOrEqual"    -> min = <<>> \/ ~Gt(min[1], x)
          [] f.op \in {"Equals", "In"}   ->
                \/ min = <<>> \/ max = <<>>
                \/ \E i \in DOMAIN f.args : Within(f.args[i])
          [] OTHER                       -> TRUE

\* Mutant: the bound stays on the side it was.
NegateValue_KeepsBound(f) ==
    [f EXCEPT !.op = IF @ = "GreaterThan" THEN "LessThan"
                     ELSE IF @ = "LessThan" THEN "GreaterThan" ELSE Opposite[@]]

NegateValue(f) == [f EXCEPT !.op = Opposite[@]]
-----------------------------------------------------------------------------
(* Predicates.  values maps a measurement to an option, and a name it does *)
(* not have is null too; stats maps a measurement to its [type, stat].     *)

Option(values, name) == IF name \in DOMAIN values THEN values[name] ELSE <<>>

(* The three recursions are functions, of which one step is an operator.   *)
EvaluateStep(evaluate, q, t, values) ==
    CASE q.kind = "Time"  -> TimeMatches(q.filter, t)
      [] q.kind = "Value" -> ValueMatches(q.filter, Option(values, q.name))
      [] q.kind = "And"   -> \A i \in DOMAIN q.of : evaluate[q.of[i]]
      [] q.kind = "Or"    -> \E i \in DOMAIN q.of : evaluate[q.of[i]]
      [] q.kind = "Not"   -> ~evaluate[q.of]

Evaluate(p, t, values) ==
    LET evaluate[q \in Predicates] == EvaluateStep(evaluate, q, t, values)
    IN  evaluate[p]

(* A value without a statistic might match, and so might every negation.   *)
ValueMightMatchIn(f, name, stats) ==
    \/ name \notin DOMAIN stats
    \/ LET s == stats[name]
       IN  ValueMightMatch(f, MinValue(s.type, s.stat), MaxValue(s.type, s.stat))

MightMatchStep(might, q, range, stats) ==
    CASE q.kind = "Time"  -> TimeMightMatch(q.filter, range[1], range[2])
      [] q.kind = "Value" -> ValueMightMatchIn(q.filter, q.name, stats)
      [] q.kind = "And"   -> \A i \in DOMAIN q.of : might[q.of[i]]
      [] q.kind = "Or"    -> \E i \in DOMAIN q.of : might[q.of[i]]
      [] q.kind = "Not"   -> TRUE

MightMatchChunk(p, range, stats) ==
    LET might[q \in Predicates] == MightMatchStep(might, q, range, stats)
    IN  might[p]

\* Mutant: whatever is nested is flattened, an Or inside an And too.
Flatten_AnyKind(kind, ps) ==
    Joined([i \in DOMAIN ps |->
        IF ps[i].kind \in {"And", "Or"} THEN ps[i].of ELSE <<ps[i]>>])

Flatten(kind, ps) ==
    Joined([i \in DOMAIN ps |-> IF ps[i].kind = kind THEN ps[i].of ELSE <<ps[i]>>])

SimplifyStep(simplify, q) ==
    IF q.kind = "Not"
    THEN LET inner == simplify[q.of]
         IN  IF inner.kind = "Not" THEN simplify[inner.of] ELSE Not(inner)
    ELSE IF q.kind \notin {"And", "Or"} \/ q.of = <<>> THEN q
    ELSE IF Len(q.of) = 1 THEN simplify[q.of[1]]
    ELSE [kind |-> q.kind,
          of |-> Flatten(q.kind, [i \in DOMAIN q.of |-> simplify[q.of[i]]])]

Simplify(p) == LET simplify[q \in Predicates] == SimplifyStep(simplify, q) IN simplify[p]
-----------------------------------------------------------------------------
(* A decoded chunk is [name, type, points], a point [t, v].                *)

FilterByPredicate(chunk, p) ==
    [chunk EXCEPT !.points = Picked(@, {i \in DOMAIN @ :
        Evaluate(p, @[i].t, Only(chunk.name, <<[type |-> chunk.type, v |-> @[i].v]>>))})]

FilterTimeRange(chunk, min_time, max_time) ==
    [chunk EXCEPT !.points =
        Picked(@, {i \in DOMAIN @ : @[i].t >= min_time /\ @[i].t <= max_time})]

EmptyChunk(chunk) == [chunk EXCEPT !.points = <<>>]

(* scan_with_predicate: the metadata of a chunk that was read from a file  *)
(* says nothing of its times, and there are no statistics of its values.   *)
ScanWithPredicate(chunk, p) ==
    IF ~MightMatchChunk(p, <<I64Min, I64Max>>, <<>>) THEN EmptyChunk(chunk)
    ELSE FilterByPredicate(chunk, p)

\* ScanBuilder::execute, with what time_range, where_value and where_predicate left.
ExecuteScan(chunk, predicates) ==
    IF predicates = <<>> THEN chunk
    ELSE ScanWithPredicate(chunk,
            Simplify(IF Len(predicates) = 1 THEN predicates[1] ELSE And(predicates)))
=============================================================================
