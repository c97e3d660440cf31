---------------------------- MODULE Query_proofs ------------------------------
(* What a caller hands over and asks for.  For every type of the column, every *)
(* sequence of points, batches and rows and every pair of filters: pruning by  *)
(* statistics never excludes a row a predicate is true of, simplifying one     *)
(* does not change what it is true of, statistics describe the points they     *)
(* were updated with, the scan returns what matches, a tablet holds the rows   *)
(* it was given, and tablets and Arrow batches stand for rows of points.       *)
EXTENDS Pipeline, WriterOps_proofs

(* The sets of predicates by depth are what their definition says: by          *)
(* induction, there is a function that follows it.                             *)
LEMMA PredicatesDefined ==
    PredicatesTo = [n \in 0..MaxNesting |->
        IF n = 0 THEN Leaves ELSE Leaves \cup Combined(PredicatesTo[n - 1])]
<1> DEFINE Fits(f, m) == f = [n \in 0..m |->
               IF n = 0 THEN Leaves ELSE Leaves \cup Combined(f[n - 1])]
           T == {m \in Nat : \E f : Fits(f, m)}
<1>1. 0 \in T
  <2>1. Fits([n \in 0..0 |-> Leaves], 0)
    OBVIOUS
  <2> QED BY <2>1
<1>2. ASSUME NEW m \in Nat, m \in T PROVE m + 1 \in T
  <2>1. PICK g : Fits(g, m)
    BY <1>2
  <2> DEFINE f == [n \in 0..(m + 1) |-> IF n = m + 1 THEN Leaves \cup Combined(g[m]) ELSE g[n]]
  <2>2. \A n \in 0..(m + 1) :
            f[n] = IF n = 0 THEN Leaves ELSE Leaves \cup Combined(f[n - 1])
    <3> SUFFICES ASSUME NEW n \in 0..(m + 1)
                 PROVE  f[n] = IF n = 0 THEN Leaves ELSE Leaves \cup Combined(f[n - 1])
      OBVIOUS
    <3>1. CASE n = m + 1
      <4>1. f[n - 1] = g[m] /\ n # 0 /\ f[n] = Leaves \cup Combined(g[m])
        BY <3>1
      <4> QED BY <4>1
    <3>2. CASE n \in 0..m
      <4>1. g[n] = IF n = 0 THEN Leaves ELSE Leaves \cup Combined(g[n - 1])
        BY <2>1, <3>2
      <4>2. f[n] = g[n] /\ (n # 0 => f[n - 1] = g[n - 1])
        BY <3>2
      <4> QED BY <4>1, <4>2
    <3> QED BY <3>1, <3>2
  <2>3. Fits(f, m + 1)
    BY <2>2
  <2> HIDE DEF f, Fits
  <2> QED BY <2>3
<1>3. MaxNesting \in T
  <2> HIDE DEF T
  <2> QED BY <1>1, <1>2, InductiveSet, NestingAssumption
<1> QED BY <1>3, Zenon DEF PredicatesTo

LEMMA PredicatesAt ==
    /\ PredicatesTo[0] = Leaves
    /\ \A d \in 0..MaxNesting : d # 0 =>
          PredicatesTo[d] = Leaves \cup Combined(PredicatesTo[d - 1])
<1>1. 0 \in 0..MaxNesting
  BY NestingAssumption
<1> DEFINE P == PredicatesTo
<1> HIDE DEF P
<1>2. P = [n \in 0..MaxNesting |->
        IF n = 0 THEN Leaves ELSE Leaves \cup Combined(P[n - 1])]
  BY PredicatesDefined DEF P
<1>3. P[0] = Leaves /\ \A d \in 0..MaxNesting : d # 0 => P[d] = Leaves \cup Combined(P[d - 1])
  BY <1>1, <1>2, Zenon
<1> QED BY <1>3 DEF P

(* A predicate may be nested less deep than it might be.                       *)
LEMMA PredicatesGrow ==
    ASSUME NEW d \in Nat, d < MaxNesting
    PROVE  PredicatesTo[d] \subseteq PredicatesTo[d + 1]
<1> DEFINE T == {m \in Nat : m < MaxNesting => PredicatesTo[m] \subseteq PredicatesTo[m + 1]}
<1>0. \A m \in Nat : m < MaxNesting => PredicatesTo[m + 1] = Leaves \cup Combined(PredicatesTo[m])
  <2> SUFFICES ASSUME NEW m \in Nat, m < MaxNesting
               PROVE  PredicatesTo[m + 1] = Leaves \cup Combined(PredicatesTo[m])
    OBVIOUS
  <2>1. m + 1 \in 0..MaxNesting /\ m + 1 # 0 /\ (m + 1) - 1 = m
    BY NestingAssumption
  <2> QED BY <2>1, PredicatesAt
<1>1. 0 \in T
  BY <1>0, PredicatesAt, NestingAssumption
<1>2. ASSUME NEW m \in Nat, m \in T PROVE m + 1 \in T
  <2> SUFFICES ASSUME m + 1 < MaxNesting
               PROVE  PredicatesTo[m + 1] \subseteq PredicatesTo[(m + 1) + 1]
    OBVIOUS
  <2>1. PredicatesTo[m] \subseteq PredicatesTo[m + 1]
    BY <1>2, NestingAssumption
  <2>2. Seq(PredicatesTo[m]) \subseteq Seq(PredicatesTo[m + 1])
    BY <2>1
  <2>3. Combined(PredicatesTo[m]) \subseteq Combined(PredicatesTo[m + 1])
    BY <2>1, <2>2 DEF Combined
  <2> QED BY <1>0, <2>3, NestingAssumption
<1>3. d \in T
  <2> HIDE DEF T
  <2> QED BY <1>1, <1>2, InductiveSet
<1> QED BY <1>3

LEMMA PredicatesBelow ==
    ASSUME NEW d \in 0..MaxNesting, NEW j \in 0..d
    PROVE  PredicatesTo[j] \subseteq PredicatesTo[d]
<1> DEFINE T == {k \in Nat : k <= d => PredicatesTo[d - k] \subseteq PredicatesTo[d]}
<1>1. 0 \in T
  BY NestingAssumption
<1>2. ASSUME NEW k \in Nat, k \in T PROVE k + 1 \in T
  <2> SUFFICES ASSUME k + 1 <= d
               PROVE  PredicatesTo[d - (k + 1)] \subseteq PredicatesTo[d]
    OBVIOUS
  <2>1. PICK m \in Nat : m = d - (k + 1) /\ m < MaxNesting /\ m + 1 = d - k
    BY NestingAssumption
  <2>2. PredicatesTo[m] \subseteq PredicatesTo[m + 1]
    BY <2>1, PredicatesGrow
  <2>3. PredicatesTo[m + 1] \subseteq PredicatesTo[d]
    BY <1>2, <2>1, NestingAssumption
  <2> QED BY <2>1, <2>2, <2>3
<1>3. d - j \in T
  <2> HIDE DEF T
  <2> QED BY <1>1, <1>2, InductiveSet, NestingAssumption
<1>4. d - j <= d /\ d - (d - j) = j
  BY NestingAssumption
<1> QED BY <1>3, <1>4

(* All of them are predicates.                                                 *)
LEMMA PredicatesWithin ==
    ASSUME NEW d \in 0..MaxNesting
    PROVE  PredicatesTo[d] \subseteq Predicates
<1>1. MaxNesting \in 0..MaxNesting /\ d \in 0..MaxNesting
  BY NestingAssumption
<1> QED BY <1>1, PredicatesBelow DEF Predicates

(* The parts of a predicate are nested less deep than it is.                   *)
LEMMA PartsOf ==
    ASSUME NEW d \in 0..MaxNesting, NEW q \in PredicatesTo[d]
    PROVE  /\ q.kind \in {"Time", "Value", "And", "Or", "Not"}
           /\ q.kind = "Time" => q.filter \in TimeFilters
           /\ q.kind = "Value" => q.filter \in ValueFilters /\ q.name \in STRING
           /\ q.kind \in {"And", "Or"} =>
                 /\ d # 0 /\ q.of \in Seq(PredicatesTo[d - 1])
                 /\ q = [kind |-> q.kind, of |-> q.of]
           /\ q.kind = "Not" =>
                 /\ d # 0 /\ q.of \in PredicatesTo[d - 1]
                 /\ q = Not(q.of)
           /\ d = 0 => q.kind \in {"Time", "Value"}
<1>1. q \in Leaves \/ (d # 0 /\ q \in Combined(PredicatesTo[d - 1]))
  BY PredicatesAt
<1>2. CASE q \in Leaves
  BY <1>2 DEF Leaves
<1>3. CASE d # 0 /\ q \in Combined(PredicatesTo[d - 1])
  BY <1>3 DEF Combined, Not
<1> QED BY <1>1, <1>2, <1>3

(* Evaluating a predicate looks at the values of its parts only.               *)
LEMMA EvaluateParts ==
    ASSUME NEW d \in 0..MaxNesting, NEW q \in PredicatesTo[d], NEW t, NEW values,
           NEW e, NEW f, \A p : (d # 0 /\ p \in PredicatesTo[d - 1]) => e[p] = f[p]
    PROVE  EvaluateStep(e, q, t, values) = EvaluateStep(f, q, t, values)
<1>1. CASE q.kind \in {"Time", "Value"}
  BY <1>1 DEF EvaluateStep
<1>2. CASE q.kind \in {"And", "Or"}
  <2>1. d # 0 /\ q.of \in Seq(PredicatesTo[d - 1])
    BY <1>2, PartsOf
  <2>2. \A i \in DOMAIN q.of : e[q.of[i]] = f[q.of[i]]
    BY <2>1
  <2> QED BY <1>2, <2>2 DEF EvaluateStep
<1>3. CASE q.kind = "Not"
  <2>1. e[q.of] = f[q.of]
    BY <1>3, PartsOf
  <2> QED BY <1>3, <2>1 DEF EvaluateStep
<1> QED BY <1>1, <1>2, <1>3, PartsOf

(* A function that follows a definition over the predicates of depth d.        *)
Evaluates(e, d, t, values) == e = [q \in PredicatesTo[d] |-> EvaluateStep(e, q, t, values)]

LEMMA EvaluateDefined ==
    ASSUME NEW t, NEW values
    PROVE  \E e : Evaluates(e, MaxNesting, t, values)
<1> DEFINE T == {d \in Nat : d <= MaxNesting => \E e : Evaluates(e, d, t, values)}
<1>1. 0 \in T
  <2> DEFINE e == [q \in PredicatesTo[0] |-> EvaluateStep(<<>>, q, t, values)]
  <2>1. 0 \in 0..MaxNesting
    BY NestingAssumption
  <2>2. \A q \in PredicatesTo[0] : EvaluateStep(e, q, t, values) = EvaluateStep(<<>>, q, t, values)
    BY <2>1, EvaluateParts
  <2> HIDE DEF EvaluateStep
  <2>3. e = [q \in PredicatesTo[0] |-> EvaluateStep(e, q, t, values)]
    BY <2>2, Zenon
  <2> QED BY <2>3 DEF Evaluates
<1>2. ASSUME NEW d \in Nat, d \in T PROVE d + 1 \in T
  <2> SUFFICES ASSUME d + 1 <= MaxNesting PROVE \E e : Evaluates(e, d + 1, t, values)
    OBVIOUS
  <2>1. PICK g : Evaluates(g, d, t, values)
    BY <1>2, NestingAssumption
  <2> DEFINE e == [q \in PredicatesTo[d + 1] |-> EvaluateStep(g, q, t, values)]
  <2>2. d + 1 \in 0..MaxNesting /\ (d + 1) - 1 = d
    BY NestingAssumption
  <2>3. \A p \in PredicatesTo[d] : e[p] = g[p]
    <3>1. \A p \in PredicatesTo[d] : p \in PredicatesTo[d + 1]
      BY PredicatesGrow, NestingAssumption
    <3>2. \A p \in PredicatesTo[d] : g[p] = EvaluateStep(g, p, t, values)
      BY <2>1, Zenon DEF Evaluates
    <3> QED BY <3>1, <3>2, Zenon
  <2> HIDE DEF e
  <2>4. \A q \in PredicatesTo[d + 1] : EvaluateStep(e, q, t, values) = EvaluateStep(g, q, t, values)
    BY <2>2, <2>3, EvaluateParts
  <2>5. e = [q \in PredicatesTo[d + 1] |-> EvaluateStep(e, q, t, values)]
    BY <2>4, Zenon DEF e
  <2> QED BY <2>5 DEF Evaluates
<1>3. MaxNesting \in T
  <2> HIDE DEF T
  <2> QED BY <1>1, <1>2, InductiveSet, NestingAssumption
<1> QED BY <1>3, NestingAssumption

LEMMA EvaluateIs ==
    ASSUME NEW t, NEW values
    PROVE  \E e : /\ \A q : Evaluate(q, t, values) = e[q]
                  /\ \A q \in Predicates : e[q] = EvaluateStep(e, q, t, values)
<1> DEFINE e == CHOOSE f : Evaluates(f, MaxNesting, t, values)
<1>1. \A q : Evaluate(q, t, values) = e[q]
  BY Zenon DEF Evaluate, Evaluates, Predicates
<1>2. Evaluates(e, MaxNesting, t, values)
  BY EvaluateDefined, Zenon
<1>3. \A q \in Predicates : e[q] = EvaluateStep(e, q, t, values)
  <2> HIDE DEF e
  <2> QED BY <1>2, Zenon DEF Evaluates, Predicates
<1> QED BY <1>1, <1>3

(* Whether a predicate might match is asked of its parts only, in the same way.*)
LEMMA MightParts ==
    ASSUME NEW d \in 0..MaxNesting, NEW q \in PredicatesTo[d], NEW range, NEW stats,
           NEW e, NEW f, \A p : (d # 0 /\ p \in PredicatesTo[d - 1]) => e[p] = f[p]
    PROVE  MightMatchStep(e, q, range, stats) = MightMatchStep(f, q, range, stats)
<1>1. CASE q.kind \in {"Time", "Value", "Not"}
  BY <1>1 DEF MightMatchStep
<1>2. CASE q.kind \in {"And", "Or"}
  <2>1. d # 0 /\ q.of \in Seq(PredicatesTo[d - 1])
    BY <1>2, PartsOf
  <2>2. \A i \in DOMAIN q.of : e[q.of[i]] = f[q.of[i]]
    BY <2>1
  <2> QED BY <1>2, <2>2 DEF MightMatchStep
<1> QED BY <1>1, <1>2, PartsOf

Mights(e, d, range, stats) ==
    e = [q \in PredicatesTo[d] |-> MightMatchStep(e, q, range, stats)]

LEMMA MightDefined ==
    ASSUME NEW range, NEW stats
    PROVE  \E e : Mights(e, MaxNesting, range, stats)
<1> DEFINE T == {d \in Nat : d <= MaxNesting => \E e : Mights(e, d, range, stats)}
<1>1. 0 \in T
  <2> DEFINE e == [q \in PredicatesTo[0] |-> MightMatchStep(<<>>, q, range, stats)]
  <2>1. 0 \in 0..MaxNesting
    BY NestingAssumption
  <2>2. \A q \in PredicatesTo[0] :
            MightMatchStep(e, q, range, stats) = MightMatchStep(<<>>, q, range, stats)
    BY <2>1, MightParts
  <2> HIDE DEF MightMatchStep
  <2>3. e = [q \in PredicatesTo[0] |-> MightMatchStep(e, q, range, stats)]
    BY <2>2, Zenon
  <2> QED BY <2>3 DEF Mights
<1>2. ASSUME NEW d \in Nat, d \in T PROVE d + 1 \in T
  <2> SUFFICES ASSUME d + 1 <= MaxNesting PROVE \E e : Mights(e, d + 1, range, stats)
    OBVIOUS
  <2>1. PICK g : Mights(g, d, range, stats)
    BY <1>2, NestingAssumption
  <2> DEFINE e == [q \in PredicatesTo[d + 1] |-> MightMatchStep(g, q, range, stats)]
  <2>2. d + 1 \in 0..MaxNesting /\ (d + 1) - 1 = d
    BY NestingAssumption
  <2>3. \A p \in PredicatesTo[d] : e[p] = g[p]
    <3>1. \A p \in PredicatesTo[d] : p \in PredicatesTo[d + 1]
      BY PredicatesGrow, NestingAssumption
    <3>2. \A p \in PredicatesTo[d] : g[p] = MightMatchStep(g, p, range, stats)
      BY <2>1, Zenon DEF Mights
    <3> QED BY <3>1, <3>2, Zenon
  <2> HIDE DEF e
  <2>4. \A q \in PredicatesTo[d + 1] :
            MightMatchStep(e, q, range, stats) = MightMatchStep(g, q, range, stats)
    BY <2>2, <2>3, MightParts
  <2>5. e = [q \in PredicatesTo[d + 1] |-> MightMatchStep(e, q, range, stats)]
    BY <2>4, Zenon DEF e
  <2> QED BY <2>5 DEF Mights
<1>3. MaxNesting \in T
  <2> HIDE DEF T
  <2> QED BY <1>1, <1>2, InductiveSet, NestingAssumption
<1> QED BY <1>3, NestingAssumption

LEMMA MightIs ==
    ASSUME NEW range, NEW stats
    PROVE  \E e : /\ \A q : MightMatchChunk(q, range, stats) = e[q]
                  /\ \A q \in Predicates : e[q] = MightMatchStep(e, q, range, stats)
<1> DEFINE e == CHOOSE f : Mights(f, MaxNesting, range, stats)
<1>1. \A q : MightMatchChunk(q, range, stats) = e[q]
  BY Zenon DEF MightMatchChunk, Mights, Predicates
<1>2. Mights(e, MaxNesting, range, stats)
  BY MightDefined, Zenon
<1>3. \A q \in Predicates : e[q] = MightMatchStep(e, q, range, stats)
  <2> HIDE DEF e
  <2> QED BY <1>2, Zenon DEF Mights, Predicates
<1> QED BY <1>1, <1>3

(* The filters.  A time within the bounds that matches a filter makes the      *)
(* interval one that might match.                                              *)
LEMMA TimePruning ==
    ASSUME NEW f \in TimeFilters, NEW t \in Int, NEW lo \in Int, NEW hi \in Int,
           lo <= t, t <= hi, TimeMatches(f, t)
    PROVE  TimeMightMatch(f, lo, hi)
<1>1. CASE f \in [op : Comparisons, args : [1..1 -> Int]]
  <2>1. f.args[1] \in Int /\ f.op \in Comparisons /\ ToSet(f.args) = {f.args[1]}
    BY <1>1 DEF ToSet
  <2>2. CASE f.op \in {"GreaterThan", "GreaterThanOrEqual", "LessThan", "LessThanOrEqual"}
    <3> DEFINE x == f.args[1]
    <3>1. x \in Int
      BY <2>1
    <3>2. CASE f.op = "GreaterThan"
      BY <3>1, <3>2 DEF TimeMatches, TimeMightMatch
    <3>3. CASE f.op = "GreaterThanOrEqual"
      BY <3>1, <3>3 DEF TimeMatches, TimeMightMatch
    <3>4. CASE f.op = "LessThan"
      BY <3>1, <3>4 DEF TimeMatches, TimeMightMatch
    <3>5. CASE f.op = "LessThanOrEqual"
      BY <3>1, <3>5 DEF TimeMatches, TimeMightMatch
    <3> QED BY <2>2, <3>2, <3>3, <3>4, <3>5
  <2>3. CASE f.op = "Equals"
    <3>1. t = f.args[1] /\ t \in ToSet(f.args)
      BY <2>1, <2>3 DEF TimeMatches
    <3> HIDE DEF ToSet
    <3> QED BY <2>3, <3>1 DEF TimeMightMatch
  <2>4. CASE f.op = "NotEquals"
    BY <2>4 DEF TimeMightMatch
  <2> QED BY <2>1, <2>2, <2>3, <2>4 DEF Comparisons, Operators
<1>2. CASE f \in [op : {"Between"}, args : [1..2 -> Int]]
  <2>1. f.args[1] \in Int /\ f.args[2] \in Int /\ f.op = "Between"
    BY <1>2
  <2> QED BY <2>1 DEF TimeMatches, TimeMightMatch
<1>3. CASE f \in [op : {"In", "NotIn"}, args : Seq(Int)]
  <2>1. f.op \in {"In", "NotIn"}
    BY <1>3
  <2> QED BY <2>1 DEF TimeMatches, TimeMightMatch
<1> QED BY <1>1, <1>2, <1>3 DEF TimeFilters

(* A value that its column's statistic has bounds for lies between them.       *)
Covers(ty, s, v) ==
    HasRange(ty, s) => /\ s.min \in Int /\ s.max \in Int
                       /\ v # NaN => s.min <= v /\ v <= s.max

LEMMA ValuePruning ==
    ASSUME NEW f \in ValueFilters, NEW ty, NEW s, NEW option,
           option # <<>> => /\ option[1] \in TsValue /\ option[1].type = ty
                            /\ Covers(ty, s, option[1].v),
           ValueMatches(f, option)
    PROVE  ValueMightMatch(f, MinValue(ty, s), MaxValue(ty, s))
<1> DEFINE val == option[1]
           min == MinValue(ty, s)
           max == MaxValue(ty, s)
<1>1. CASE f.op \in {"NotEquals", "NotIn", "IsNull", "IsNotNull"}
  BY <1>1 DEF ValueMightMatch
<1>2. CASE ~HasRange(ty, s)
  BY <1>2 DEF ValueMightMatch, MinValue, MaxValue, ValueFilters, Comparisons, Operators
<1>3. CASE HasRange(ty, s) /\ f.op \notin {"NotEquals", "NotIn", "IsNull", "IsNotNull"}
  <2>2. option # <<>>
    BY <1>3 DEF ValueMatches
  <2>1. /\ min[1].type = max[1].type /\ min[1].v = s.min /\ max[1].v = s.max
        /\ s.min \in Int /\ s.max \in Int /\ min # <<>> /\ max # <<>>
    <3>1. min = <<[type |-> Family(ty), v |-> s.min]>>
      BY <1>3 DEF MinValue
    <3>2. max = <<[type |-> Family(ty), v |-> s.max]>>
      BY <1>3 DEF MaxValue
    <3>3. s.min \in Int /\ s.max \in Int
      BY <1>3, <2>2 DEF Covers
    <3> HIDE DEF min, max
    <3> QED BY <3>1, <3>2, <3>3
  <2>3. val.v \in Int /\ (val.v # NaN => s.min <= val.v /\ val.v <= s.max)
    BY <1>3, <2>2 DEF Covers, TsValue
  <2>4. \A i \in DOMAIN f.args : f.args[i].v \in Int
    <3>1. f.args \in [1..1 -> TsValue] \/ f.args \in Seq(TsValue)
      BY <1>3 DEF ValueFilters
    <3>2. \A i \in DOMAIN f.args : f.args[i] \in TsValue
      BY <3>1
    <3> QED BY <3>2 DEF TsValue
  <2> HIDE DEF val, min, max
  <2>5. CASE f.op \in {"Equals", "In"}
    <3>1. PICK i \in DOMAIN f.args : Same(val, f.args[i])
      BY <2>5, <2>2 DEF ValueMatches, val
    <3>2. ~Lt(f.args[i], min[1]) /\ ~Gt(f.args[i], max[1])
      BY <2>1, <2>3, <2>4, <3>1 DEF Same, Lt, Gt, Comparable
    <3> QED BY <2>5, <3>1, <3>2 DEF ValueMightMatch, min, max
  <2>6. CASE f.op \in {"GreaterThan", "GreaterThanOrEqual", "LessThan", "LessThanOrEqual"}
    <3>1. 1 \in DOMAIN f.args
      BY <2>6 DEF ValueFilters
    <3> DEFINE x == f.args[1]
    <3>2. x.v \in Int
      BY <2>4, <3>1
    <3> HIDE DEF x
    <3>3. CASE f.op = "GreaterThan"
      <4>1. Gt(val, x)
        BY <3>3, <2>2 DEF ValueMatches, val, x
      <4>2. ~Lte(max[1], x)
        BY <2>1, <2>3, <3>2, <4>1 DEF Same, Lt, Gt, Lte, Comparable
      <4> QED BY <3>3, <4>2 DEF ValueMightMatch, max, x
    <3>4. CASE f.op = "GreaterThanOrEqual"
      <4>1. Gte(val, x)
        BY <3>4, <2>2 DEF ValueMatches, val, x
      <4>2. ~Lt(max[1], x)
        BY <2>1, <2>3, <3>2, <4>1 DEF Same, Lt, Gt, Gte, Comparable
      <4> QED BY <3>4, <4>2 DEF ValueMightMatch, max, x
    <3>5. CASE f.op = "LessThan"
      <4>1. Lt(val, x)
        BY <3>5, <2>2 DEF ValueMatches, val, x
      <4>2. ~Gte(min[1], x)
        BY <2>1, <2>3, <3>2, <4>1 DEF Same, Lt, Gt, Gte, Comparable
      <4> QED BY <3>5, <4>2 DEF ValueMightMatch, min, x
    <3>6. CASE f.op = "LessThanOrEqual"
      <4>1. Lte(val, x)
        BY <3>6, <2>2 DEF ValueMatches, val, x
      <4>2. ~Gt(min[1], x)
        BY <2>1, <2>3, <3>2, <4>1 DEF Same, Lt, Gt, Lte, Comparable
      <4> QED BY <3>6, <4>2 DEF ValueMightMatch, min, x
    <3> QED BY <2>6, <3>3, <3>4, <3>5, <3>6
  <2>7. f.op \in {"Equals", "In", "GreaterThan", "GreaterThanOrEqual", "LessThan",
                  "LessThanOrEqual"}
    BY <1>3 DEF ValueFilters, Comparisons, Operators
  <2> QED BY <2>5, <2>6, <2>7
<1> QED BY <1>1, <1>2, <1>3

(* What is known of a chunk covers a row: its times are within the range, and  *)
(* a filter that its values match is one that the statistics might match.      *)
CoversRow(range, stats, t, values) ==
    /\ range[1] \in Int /\ range[2] \in Int /\ t \in Int
    /\ range[1] <= t /\ t <= range[2]
    /\ \A name \in STRING, f \in ValueFilters :
          ValueMatches(f, Option(values, name)) => ValueMightMatchIn(f, name, stats)

(* A chunk with a row that a predicate is true of is never skipped for it.     *)
THEOREM PruningKeepsMatches ==
    ASSUME NEW range, NEW stats, NEW t, NEW values, CoversRow(range, stats, t, values),
           NEW p \in Predicates, Evaluate(p, t, values)
    PROVE  MightMatchChunk(p, range, stats)
<1>1. PICK e : /\ \A q : Evaluate(q, t, values) = e[q]
               /\ \A q \in Predicates : e[q] = EvaluateStep(e, q, t, values)
  BY EvaluateIs
<1>2. PICK g : /\ \A q : MightMatchChunk(q, range, stats) = g[q]
               /\ \A q \in Predicates : g[q] = MightMatchStep(g, q, range, stats)
  BY MightIs
<1> DEFINE T == {d \in Nat : d <= MaxNesting => \A q \in PredicatesTo[d] \cap Predicates :
                                                   e[q] => g[q]}
<1>3. ASSUME NEW d \in 0..MaxNesting, NEW q \in PredicatesTo[d], q \in Predicates, e[q],
             d # 0 => \A r \in PredicatesTo[d - 1] : r \in Predicates /\ (e[r] => g[r])
      PROVE  g[q]
  <2>1. EvaluateStep(e, q, t, values)
    BY <1>1, <1>3
  <2>2. MightMatchStep(g, q, range, stats) => g[q]
    BY <1>2, <1>3
  <2>3. CASE q.kind = "Time"
    <3>1. TimeMatches(q.filter, t) /\ q.filter \in TimeFilters
      BY <2>1, <2>3, PartsOf DEF EvaluateStep
    <3>2. TimeMightMatch(q.filter, range[1], range[2])
      BY <3>1, TimePruning DEF CoversRow
    <3> QED BY <2>2, <2>3, <3>2 DEF MightMatchStep
  <2>4. CASE q.kind = "Value"
    <3>1. /\ ValueMatches(q.filter, Option(values, q.name))
          /\ q.filter \in ValueFilters /\ q.name \in STRING
      BY <2>1, <2>4, PartsOf DEF EvaluateStep
    <3>2. ValueMightMatchIn(q.filter, q.name, stats)
      BY <3>1 DEF CoversRow
    <3> QED BY <2>2, <2>4, <3>2 DEF MightMatchStep
  <2>5. CASE q.kind \in {"And", "Or"}
    <3>1. d # 0 /\ q.of \in Seq(PredicatesTo[d - 1])
      BY <2>5, PartsOf
    <3>2. \A i \in DOMAIN q.of : e[q.of[i]] => g[q.of[i]]
      BY <3>1, <1>3
    <3>3. MightMatchStep(g, q, range, stats)
      BY <2>1, <2>5, <3>2 DEF EvaluateStep, MightMatchStep
    <3> QED BY <2>2, <3>3
  <2>6. CASE q.kind = "Not"
    BY <2>2, <2>6 DEF MightMatchStep
  <2> QED BY <2>3, <2>4, <2>5, <2>6, PartsOf
<1>4. \A d \in 0..MaxNesting : PredicatesTo[d] \subseteq Predicates
  BY PredicatesWithin
<1>5. 0 \in T
  BY <1>3, NestingAssumption
<1>6. ASSUME NEW d \in Nat, d \in T PROVE d + 1 \in T
  <2> SUFFICES ASSUME d + 1 <= MaxNesting, NEW q \in PredicatesTo[d + 1], q \in Predicates,
                      e[q]
               PROVE  g[q]
    OBVIOUS
  <2>1. d + 1 \in 0..MaxNesting /\ (d + 1) - 1 = d /\ d \in 0..MaxNesting
    BY NestingAssumption
  <2>2. \A r \in PredicatesTo[d] : r \in Predicates /\ (e[r] => g[r])
    BY <1>4, <1>6, <2>1
  <2> QED BY <1>3, <2>1, <2>2
<1>7. MaxNesting \in T
  <2> HIDE DEF T
  <2> QED BY <1>5, <1>6, InductiveSet, NestingAssumption
<1> QED BY <1>1, <1>2, <1>7, NestingAssumption DEF Predicates

(* The members of sequences that are joined are the members of each of them.   *)
LEMMA JoinedMembers ==
    ASSUME NEW X, NEW seqs \in Seq(Seq(X))
    PROVE  /\ Joined(seqs) \in Seq(X)
           /\ \A i \in DOMAIN Joined(seqs) :
                 \E k \in DOMAIN seqs : \E j \in DOMAIN seqs[k] : seqs[k][j] = Joined(seqs)[i]
           /\ \A k \in DOMAIN seqs : \A j \in DOMAIN seqs[k] :
                 \E i \in DOMAIN Joined(seqs) : seqs[k][j] = Joined(seqs)[i]
<1>1. PICK join \in [0..Len(seqs) -> Seq(X)] :
         Joins(join, seqs) /\ Joined(seqs) = join[Len(seqs)]
  BY JoinedRecursion
<1>2. PICK N \in Nat : N = Len(seqs)
  OBVIOUS
<1>3. \A n \in 0..N : join[n] = IF n = 0 THEN <<>> ELSE join[n - 1] \o seqs[n]
  BY <1>1, <1>2 DEF Joins
<1> DEFINE In(n, k) == \A j \in DOMAIN seqs[k] : \E i \in DOMAIN join[n] : seqs[k][j] = join[n][i]
           Out(n) == \A i \in DOMAIN join[n] :
                        \E k \in 1..n : \E j \in DOMAIN seqs[k] : seqs[k][j] = join[n][i]
           T == {n \in Nat : n <= N => Out(n) /\ \A k \in 1..n : In(n, k)}
<1>4. 0 \in T
  <2>1. 0 \in 0..N
    OBVIOUS
  <2>2. join[0] = <<>>
    BY <1>3, <2>1
  <2> QED BY <2>2
<1>5. ASSUME NEW n \in Nat, n \in T PROVE n + 1 \in T
  <2> SUFFICES ASSUME n + 1 <= N PROVE Out(n + 1) /\ \A k \in 1..(n + 1) : In(n + 1, k)
    OBVIOUS
  <2> DEFINE s == join[n]
             x == seqs[n + 1]
             y == join[n + 1]
  <2>1. s \in Seq(X) /\ x \in Seq(X) /\ n + 1 \in 1..N /\ n \in 0..N
    <3>1. n + 1 \in 1..N /\ n \in 0..N
      OBVIOUS
    <3>2. join \in [0..N -> Seq(X)]
      BY <1>1, <1>2
    <3>3. \A k \in 1..N : seqs[k] \in Seq(X)
      BY <1>2
    <3> QED BY <3>1, <3>2, <3>3
  <2>2. y = s \o x
    <3>1. n + 1 \in 0..N /\ n + 1 # 0 /\ (n + 1) - 1 = n
      BY <2>1
    <3> QED BY <1>3, <3>1
  <2>3. Out(n) /\ \A k \in 1..n : In(n, k)
    <3> HIDE DEF In, Out
    <3> QED BY <1>5, <2>1
  <2> DEFINE a == Len(s)
             b == Len(x)
  <2>4. /\ a \in Nat /\ b \in Nat /\ DOMAIN s = 1..a /\ DOMAIN x = 1..b /\ DOMAIN y = 1..(a + b)
        /\ \A i \in 1..a : y[i] = s[i]
        /\ \A i \in 1..b : y[a + i] = x[i]
    <3> HIDE DEF s, x, y
    <3> QED BY <2>1, <2>2, ConcatParts
  <2> HIDE DEF s, x, y, a, b
  <2>5. Out(n + 1)
    <3> SUFFICES ASSUME NEW i \in 1..(a + b)
                 PROVE  \E k \in 1..(n + 1) : \E j \in DOMAIN seqs[k] : seqs[k][j] = y[i]
      BY <2>4 DEF y
    <3>1. CASE i \in 1..a
      <4>1. PICK k \in 1..n : \E j \in DOMAIN seqs[k] : seqs[k][j] = s[i]
        BY <2>3, <2>4, <3>1 DEF s
      <4>2. k \in 1..(n + 1)
        OBVIOUS
      <4>3. y[i] = s[i]
        BY <2>4, <3>1, Zenon
      <4> QED BY <4>1, <4>2, <4>3
    <3>2. CASE i \in (a + 1)..(a + b)
      <4>1. PICK j \in 1..b : i = a + j
        BY <2>4, <3>2
      <4>2. j \in DOMAIN seqs[n + 1] /\ seqs[n + 1][j] = y[i]
        BY <2>4, <4>1 DEF x
      <4>3. n + 1 \in 1..(n + 1)
        OBVIOUS
      <4> QED BY <4>2, <4>3
    <3> QED BY <3>1, <3>2, <2>4
  <2>6. ASSUME NEW k \in 1..(n + 1), NEW j \in DOMAIN seqs[k]
        PROVE  \E i \in DOMAIN y : seqs[k][j] = y[i]
    <3>1. CASE k \in 1..n
      <4>1. PICK i \in DOMAIN s : seqs[k][j] = s[i]
        BY <2>3, <2>6, <3>1 DEF s
      <4>2. i \in 1..a /\ i \in 1..(a + b)
        BY <2>4, <4>1
      <4>3. y[i] = s[i] /\ i \in DOMAIN y
        BY <2>4, <4>2, Zenon
      <4> QED BY <4>1, <4>3, Zenon
    <3>2. CASE k = n + 1
      <4>1. j \in 1..b /\ seqs[k][j] = x[j]
        BY <2>4, <2>6, <3>2 DEF x
      <4>2. a + j \in DOMAIN y /\ y[a + j] = x[j]
        BY <2>4, <4>1
      <4> QED BY <4>1, <4>2
    <3> QED BY <3>1, <3>2
  <2> QED BY <2>5, <2>6 DEF y
<1>6. N \in T
  <2> HIDE DEF T
  <2> QED BY <1>4, <1>5, InductiveSet
<1>7. DOMAIN seqs = 1..N /\ N \in 0..N
  BY <1>2
<1>8. Out(N) /\ \A k \in 1..N : In(N, k)
  BY <1>6
<1>9. join[N] \in Seq(X)
  BY <1>1, <1>2, <1>7
<1>10. Joined(seqs) = join[N]
  BY <1>1, <1>2
<1>11. /\ \A i \in DOMAIN join[N] :
             \E k \in DOMAIN seqs : \E j \in DOMAIN seqs[k] : seqs[k][j] = join[N][i]
       /\ \A k \in DOMAIN seqs : \A j \in DOMAIN seqs[k] :
             \E i \in DOMAIN join[N] : seqs[k][j] = join[N][i]
  BY <1>7, <1>8, Zenon
<1> DEFINE J == Joined(seqs)
<1> HIDE DEF In, Out, T
<1>12. J = join[N]
  BY <1>10
<1> HIDE DEF J
<1>13. /\ J \in Seq(X)
       /\ \A i \in DOMAIN J :
             \E k \in DOMAIN seqs : \E j \in DOMAIN seqs[k] : seqs[k][j] = J[i]
       /\ \A k \in DOMAIN seqs : \A j \in DOMAIN seqs[k] :
             \E i \in DOMAIN J : seqs[k][j] = J[i]
  BY <1>9, <1>11, <1>12, Zenon
<1> QED BY <1>13, Zenon DEF J

(* Flattening keeps to predicates of a depth, and joins the parts of those of  *)
(* the kind with the others.                                                   *)
LEMMA FlattenParts ==
    ASSUME NEW d \in 0..MaxNesting, NEW kind \in {"And", "Or"}, NEW ps \in Seq(PredicatesTo[d])
    PROVE  LET flat == Flatten(kind, ps)
           IN  /\ flat \in Seq(PredicatesTo[d])
               /\ \A i \in DOMAIN flat : \E k \in DOMAIN ps :
                     IF ps[k].kind = kind
                     THEN \E j \in DOMAIN ps[k].of : flat[i] = ps[k].of[j]
                     ELSE flat[i] = ps[k]
               /\ \A k \in DOMAIN ps :
                     IF ps[k].kind = kind
                     THEN \A j \in DOMAIN ps[k].of : \E i \in DOMAIN flat : flat[i] = ps[k].of[j]
                     ELSE \E i \in DOMAIN flat : flat[i] = ps[k]
<1> DEFINE P == PredicatesTo[d]
           seqs == [k \in DOMAIN ps |-> IF ps[k].kind = kind THEN ps[k].of ELSE <<ps[k]>>]
           flat == Flatten(kind, ps)
<1>1. \A k \in DOMAIN ps : seqs[k] \in Seq(P)
  <2> SUFFICES ASSUME NEW k \in DOMAIN ps PROVE seqs[k] \in Seq(P)
    OBVIOUS
  <2>1. ps[k] \in P
    OBVIOUS
  <2>2. CASE ps[k].kind = kind
    <3>1. d # 0 /\ ps[k].of \in Seq(PredicatesTo[d - 1])
      BY <2>1, <2>2, PartsOf
    <3>2. d - 1 \in Nat /\ d - 1 < MaxNesting /\ (d - 1) + 1 = d
      BY <3>1, NestingAssumption
    <3>3. PredicatesTo[d - 1] \subseteq P
      BY <3>2, PredicatesGrow
    <3>4. ps[k].of \in Seq(P)
      <4> HIDE DEF P
      <4> QED BY <3>1, <3>3
    <3> QED BY <2>2, <3>4
  <2>3. CASE ps[k].kind # kind
    <3> HIDE DEF P
    <3> QED BY <2>1, <2>3
  <2> QED BY <2>2, <2>3
<1>2. seqs \in Seq(Seq(P)) /\ DOMAIN seqs = DOMAIN ps
  <2>1. DOMAIN ps = 1..Len(ps) /\ Len(ps) \in Nat
    OBVIOUS
  <2> HIDE DEF P
  <2> QED BY <1>1, <2>1
<1>3. flat = Joined(seqs)
  BY Zenon DEF Flatten
<1>4. \A k \in DOMAIN ps : seqs[k] = IF ps[k].kind = kind THEN ps[k].of ELSE <<ps[k]>>
  OBVIOUS
<1> HIDE DEF P, seqs, flat
<1>5. /\ flat \in Seq(P)
      /\ \A i \in DOMAIN flat :
            \E k \in DOMAIN seqs : \E j \in DOMAIN seqs[k] : seqs[k][j] = flat[i]
      /\ \A k \in DOMAIN seqs : \A j \in DOMAIN seqs[k] :
            \E i \in DOMAIN flat : seqs[k][j] = flat[i]
  BY <1>2, <1>3, JoinedMembers
<1>6. ASSUME NEW i \in DOMAIN flat
      PROVE  \E k \in DOMAIN ps : IF ps[k].kind = kind
                                   THEN \E j \in DOMAIN ps[k].of : flat[i] = ps[k].of[j]
                                   ELSE flat[i] = ps[k]
  <2>1. PICK k \in DOMAIN ps : \E j \in DOMAIN seqs[k] : seqs[k][j] = flat[i]
    BY <1>2, <1>5
  <2>2. ps[k].kind # kind => flat[i] = ps[k]
    <3> SUFFICES ASSUME ps[k].kind # kind PROVE flat[i] = ps[k]
      OBVIOUS
    <3>1. seqs[k] = <<ps[k]>>
      BY <1>4
    <3> QED BY <2>1, <3>1
  <2>3. ps[k].kind = kind => \E j \in DOMAIN ps[k].of : flat[i] = ps[k].of[j]
    BY <1>4, <2>1
  <2> QED BY <2>2, <2>3
<1>7. ASSUME NEW k \in DOMAIN ps
      PROVE  IF ps[k].kind = kind
             THEN \A j \in DOMAIN ps[k].of : \E i \in DOMAIN flat : flat[i] = ps[k].of[j]
             ELSE \E i \in DOMAIN flat : flat[i] = ps[k]
  <2>1. CASE ps[k].kind = kind
    BY <1>2, <1>4, <1>5, <2>1
  <2>2. CASE ps[k].kind # kind
    <3>1. seqs[k] = <<ps[k]>>
      BY <1>4, <2>2
    <3>2. 1 \in DOMAIN seqs[k] /\ seqs[k][1] = ps[k]
      BY <3>1
    <3> QED BY <1>2, <1>5, <2>2, <3>2
  <2> QED BY <2>1, <2>2
<1> QED BY <1>5, <1>6, <1>7 DEF P, flat

(* Simplifying a predicate looks at its parts, and at what they are made of,   *)
(* and nests no deeper.                                                        *)
LEMMA SimplifyParts ==
    ASSUME NEW d \in 0..MaxNesting, NEW q \in PredicatesTo[d], NEW e, NEW f,
           d # 0 => \A p \in PredicatesTo[d - 1] : e[p] = f[p] /\ e[p] \in PredicatesTo[d - 1]
    PROVE  SimplifyStep(e, q) = SimplifyStep(f, q) /\ SimplifyStep(e, q) \in PredicatesTo[d]
<1> DEFINE P == PredicatesTo[d]
           R == PredicatesTo[d - 1]
<1>1. CASE q.kind \in {"Time", "Value"}
  BY <1>1 DEF SimplifyStep
<1>2. ASSUME d # 0 PROVE /\ d - 1 \in 0..MaxNesting /\ R \subseteq P
                         /\ P = Leaves \cup Combined(R)
  <2>1. d - 1 \in Nat /\ d - 1 < MaxNesting /\ (d - 1) + 1 = d
    BY <1>2, NestingAssumption
  <2>2. R \subseteq P
    BY <2>1, PredicatesGrow
  <2>3. P = Leaves \cup Combined(R)
    BY <1>2, PredicatesAt
  <2>4. d - 1 \in 0..MaxNesting
    BY <2>1, NestingAssumption
  <2> HIDE DEF P, R
  <2> QED BY <2>2, <2>3, <2>4
<1>3. CASE q.kind = "Not"
  <2>1. d # 0 /\ q.of \in R
    BY <1>3, PartsOf
  <2> DEFINE inner == e[q.of]
  <2>2. inner = f[q.of] /\ inner \in R /\ R \subseteq P
    BY <1>2, <2>1
  <2>3. CASE inner.kind = "Not"
    <3>1. d - 1 # 0 /\ inner.of \in PredicatesTo[(d - 1) - 1]
      BY <1>2, <2>1, <2>2, <2>3, PartsOf
    <3>2. (d - 1) - 1 \in Nat /\ (d - 1) - 1 < MaxNesting /\ ((d - 1) - 1) + 1 = d - 1
      <4>1. d \in Nat /\ d <= MaxNesting /\ d # 0 /\ d - 1 # 0 /\ MaxNesting \in Nat
        BY <2>1, <3>1, NestingAssumption
      <4> QED BY <4>1
    <3>3. inner.of \in R
      BY <3>1, <3>2, PredicatesGrow
    <3>4. e[inner.of] = f[inner.of] /\ e[inner.of] \in R
      BY <2>1, <3>3
    <3>5. SimplifyStep(e, q) = e[inner.of] /\ SimplifyStep(f, q) = f[inner.of]
      BY <1>3, <2>2, <2>3, Zenon DEF SimplifyStep
    <3> QED BY <2>2, <3>4, <3>5
  <2>4. CASE inner.kind # "Not"
    <3>1. SimplifyStep(e, q) = Not(inner) /\ SimplifyStep(f, q) = Not(inner)
      BY <1>3, <2>2, <2>4, Zenon DEF SimplifyStep
    <3> HIDE DEF inner, P, R
    <3>2. Not(inner) \in P
      BY <1>2, <2>1, <2>2 DEF Combined, Not
    <3> QED BY <3>1, <3>2 DEF P
  <2> QED BY <2>3, <2>4
<1>4. CASE q.kind \in {"And", "Or"}
  <2>1. d # 0 /\ q.of \in Seq(R)
    BY <1>4, PartsOf
  <2>2. \A i \in DOMAIN q.of : e[q.of[i]] = f[q.of[i]] /\ e[q.of[i]] \in R
    BY <2>1
  <2>3. CASE q.of = <<>>
    BY <1>4, <2>3, Zenon DEF SimplifyStep
  <2>4. CASE q.of # <<>> /\ Len(q.of) = 1
    <3>1. SimplifyStep(e, q) = e[q.of[1]] /\ SimplifyStep(f, q) = f[q.of[1]]
      BY <1>4, <2>4, SMT DEF SimplifyStep
    <3>2. 1 \in DOMAIN q.of
      BY <2>1, <2>4
    <3> QED BY <1>2, <2>1, <2>2, <3>1, <3>2
  <2>5. CASE q.of # <<>> /\ Len(q.of) # 1
    <3> DEFINE ps == [i \in DOMAIN q.of |-> e[q.of[i]]]
    <3>1. ps = [i \in DOMAIN q.of |-> f[q.of[i]]]
      BY <2>2, Zenon
    <3>2. ps \in Seq(R)
      <4>1. DOMAIN q.of = 1..Len(q.of) /\ Len(q.of) \in Nat
        BY <2>1
      <4> HIDE DEF R
      <4> QED BY <2>2, <4>1
    <3>3. /\ SimplifyStep(e, q) = [kind |-> q.kind, of |-> Flatten(q.kind, ps)]
          /\ SimplifyStep(f, q) = [kind |-> q.kind,
                                   of |-> Flatten(q.kind, [i \in DOMAIN q.of |-> f[q.of[i]]])]
      BY <1>4, <2>5, SMT DEF SimplifyStep
    <3> HIDE DEF ps
    <3>4. Flatten(q.kind, ps) \in Seq(R)
      BY <1>2, <1>4, <2>1, <3>2, FlattenParts
    <3>5. [kind |-> q.kind, of |-> Flatten(q.kind, ps)] \in Combined(R)
      BY <1>4, <3>4 DEF Combined
    <3> HIDE DEF P, R
    <3> QED BY <1>2, <2>1, <3>1, <3>3, <3>5 DEF P
  <2> QED BY <2>3, <2>4, <2>5
<1> QED BY <1>1, <1>3, <1>4, PartsOf

Simplifies(e, d) == /\ e = [q \in PredicatesTo[d] |-> SimplifyStep(e, q)]
                    /\ \A j \in 0..d : \A q \in PredicatesTo[j] : e[q] \in PredicatesTo[j]

LEMMA SimplifyDefined == \E e : Simplifies(e, MaxNesting)
<1> DEFINE T == {d \in Nat : d <= MaxNesting => \E e : Simplifies(e, d)}
<1>1. 0 \in T
  <2> DEFINE e == [q \in PredicatesTo[0] |-> SimplifyStep(<<>>, q)]
  <2>1. 0 \in 0..MaxNesting
    BY NestingAssumption
  <2>2. \A q \in PredicatesTo[0] : /\ SimplifyStep(<<>>, q) = SimplifyStep(e, q)
                                  /\ SimplifyStep(<<>>, q) \in PredicatesTo[0]
    BY <2>1, SimplifyParts
  <2> HIDE DEF SimplifyStep
  <2>3. e = [q \in PredicatesTo[0] |-> SimplifyStep(e, q)]
    BY <2>2, Zenon
  <2>4. \A j \in 0..0 : \A q \in PredicatesTo[j] : e[q] \in PredicatesTo[j]
    BY <2>2
  <2> HIDE DEF e
  <2> QED BY <2>3, <2>4 DEF Simplifies
<1>2. ASSUME NEW d \in Nat, d \in T PROVE d + 1 \in T
  <2> SUFFICES ASSUME d + 1 <= MaxNesting PROVE \E e : Simplifies(e, d + 1)
    OBVIOUS
  <2>1. PICK g : Simplifies(g, d)
    BY <1>2, NestingAssumption
  <2> DEFINE e == [q \in PredicatesTo[d + 1] |-> SimplifyStep(g, q)]
  <2>2. d + 1 \in 0..MaxNesting /\ (d + 1) - 1 = d /\ d \in 0..d
    BY NestingAssumption
  <2>3. \A p \in PredicatesTo[d] : g[p] = e[p] /\ g[p] \in PredicatesTo[d]
    <3>1. \A p \in PredicatesTo[d] : p \in PredicatesTo[d + 1]
      BY PredicatesGrow, NestingAssumption
    <3>2. \A p \in PredicatesTo[d] : g[p] = SimplifyStep(g, p)
      BY <2>1, Zenon DEF Simplifies
    <3>3. \A p \in PredicatesTo[d] : g[p] \in PredicatesTo[d]
      BY <2>1, <2>2 DEF Simplifies
    <3> QED BY <3>1, <3>2, <3>3, Zenon
  <2> HIDE DEF e
  <2>4. \A q \in PredicatesTo[d + 1] : /\ SimplifyStep(g, q) = SimplifyStep(e, q)
                                      /\ SimplifyStep(g, q) \in PredicatesTo[d + 1]
    BY <2>2, <2>3, SimplifyParts
  <2>5. e = [q \in PredicatesTo[d + 1] |-> SimplifyStep(e, q)]
    BY <2>4, Zenon DEF e
  <2>6. ASSUME NEW j \in 0..(d + 1), NEW q \in PredicatesTo[j] PROVE e[q] \in PredicatesTo[j]
    <3>1. CASE j = d + 1
      BY <2>4, <2>5, <2>6, <3>1
    <3>2. CASE j \in 0..d
      <4>1. g[q] \in PredicatesTo[j]
        BY <2>1, <3>2 DEF Simplifies
      <4>2. q \in PredicatesTo[d]
        <5>1. d \in 0..MaxNesting
          BY NestingAssumption
        <5> QED BY <3>2, <5>1, PredicatesBelow
      <4> QED BY <2>3, <4>1, <4>2
    <3> QED BY <3>1, <3>2
  <2> QED BY <2>5, <2>6 DEF Simplifies
<1>3. MaxNesting \in T
  <2> HIDE DEF T
  <2> QED BY <1>1, <1>2, InductiveSet, NestingAssumption
<1> QED BY <1>3, NestingAssumption

LEMMA SimplifyIs ==
    \E e : /\ \A q : Simplify(q) = e[q]
           /\ \A q \in Predicates : e[q] = SimplifyStep(e, q)
           /\ \A d \in 0..MaxNesting : \A q \in PredicatesTo[d] : e[q] \in PredicatesTo[d]
<1> DEFINE e == CHOOSE f : f = [q \in Predicates |-> SimplifyStep(f, q)]
<1>1. \A q : Simplify(q) = e[q]
  BY Zenon DEF Simplify
<1>2. e = [q \in Predicates |-> SimplifyStep(e, q)]
  <2>1. \E f : f = [q \in Predicates |-> SimplifyStep(f, q)]
    BY SimplifyDefined, Zenon DEF Simplifies, Predicates
  <2> QED BY <2>1, Zenon
<1> HIDE DEF e
<1>3. \A q \in Predicates : e[q] = SimplifyStep(e, q)
  BY <1>2, Zenon
<1> DEFINE T == {d \in Nat : d <= MaxNesting => \A q \in PredicatesTo[d] : e[q] \in PredicatesTo[d]}
<1>4. ASSUME NEW d \in 0..MaxNesting, NEW q \in PredicatesTo[d],
             d # 0 => \A p \in PredicatesTo[d - 1] : e[p] \in PredicatesTo[d - 1]
      PROVE  e[q] \in PredicatesTo[d]
  <2>1. SimplifyStep(e, q) \in PredicatesTo[d]
    BY <1>4, SimplifyParts
  <2> QED BY <1>3, <2>1, PredicatesWithin
<1>5. 0 \in T
  BY <1>4, NestingAssumption
<1>6. ASSUME NEW d \in Nat, d \in T PROVE d + 1 \in T
  <2> SUFFICES ASSUME d + 1 <= MaxNesting, NEW q \in PredicatesTo[d + 1]
               PROVE  e[q] \in PredicatesTo[d + 1]
    OBVIOUS
  <2>1. d + 1 \in 0..MaxNesting /\ (d + 1) - 1 = d /\ d <= MaxNesting
    BY NestingAssumption
  <2>2. \A p \in PredicatesTo[d] : e[p] \in PredicatesTo[d]
    BY <1>6, <2>1
  <2> QED BY <1>4, <2>1, <2>2
<1>7. \A d \in 0..MaxNesting : d \in T
  <2> HIDE DEF T
  <2> QED BY <1>5, <1>6, InductiveSet, NestingAssumption
<1>8. \A d \in 0..MaxNesting : \A q \in PredicatesTo[d] : e[q] \in PredicatesTo[d]
  BY <1>7, NestingAssumption
<1> QED BY <1>1, <1>3, <1>8

(* Simplifying a predicate changes nothing of what it is true of.              *)
THEOREM SimplifyKeepsMeaning ==
    ASSUME NEW t, NEW values, NEW p \in Predicates
    PROVE  /\ Simplify(p) \in Predicates
           /\ Evaluate(Simplify(p), t, values) <=> Evaluate(p, t, values)
<1>1. PICK e : /\ \A q : Evaluate(q, t, values) = e[q]
               /\ \A q \in Predicates : e[q] = EvaluateStep(e, q, t, values)
  BY EvaluateIs
<1>2. PICK s : /\ \A q : Simplify(q) = s[q]
               /\ \A q \in Predicates : s[q] = SimplifyStep(s, q)
               /\ \A d \in 0..MaxNesting : \A q \in PredicatesTo[d] : s[q] \in PredicatesTo[d]
  BY SimplifyIs
<1> DEFINE T == {d \in Nat : d <= MaxNesting => \A q \in PredicatesTo[d] : e[s[q]] <=> e[q]}
<1>3. ASSUME NEW d \in 0..MaxNesting, NEW q \in PredicatesTo[d],
             d # 0 => \A r \in PredicatesTo[d - 1] : e[s[r]] <=> e[r]
      PROVE  e[s[q]] <=> e[q]
  <2>0. q \in Predicates /\ s[q] = SimplifyStep(s, q) /\ s[q] \in Predicates
    BY <1>2, PredicatesWithin
  <2> DEFINE R == PredicatesTo[d - 1]
  <2>1. ASSUME d # 0
        PROVE  /\ d - 1 \in 0..MaxNesting
               /\ \A r \in R : s[r] \in R /\ r \in Predicates
    <3>1. d - 1 \in 0..MaxNesting
      BY <2>1, NestingAssumption
    <3> QED BY <1>2, <3>1, PredicatesWithin
  <2>2. CASE q.kind \in {"Time", "Value"}
    <3>1. s[q] = q
      BY <2>0, <2>2, Zenon DEF SimplifyStep
    <3> QED BY <3>1
  <2>3. CASE q.kind = "Not"
    <3>1. d # 0 /\ q.of \in R
      BY <2>3, PartsOf
    <3> DEFINE inner == s[q.of]
    <3>2. inner \in R /\ (e[inner] <=> e[q.of]) /\ inner \in Predicates
      BY <1>3, <2>1, <3>1
    <3>3. e[q] <=> ~e[q.of]
      BY <1>1, <2>0, <2>3 DEF EvaluateStep
    <3>4. CASE inner.kind = "Not"
      <4>1. d - 1 # 0 /\ inner.of \in PredicatesTo[(d - 1) - 1]
        BY <2>1, <3>1, <3>2, <3>4, PartsOf
      <4>2. (d - 1) - 1 \in Nat /\ (d - 1) - 1 < MaxNesting /\ ((d - 1) - 1) + 1 = d - 1
        <5>1. d \in Nat /\ d <= MaxNesting /\ d # 0 /\ d - 1 # 0 /\ MaxNesting \in Nat
          BY <3>1, <4>1, NestingAssumption
        <5> QED BY <5>1
      <4>3. inner.of \in R
        BY <4>1, <4>2, PredicatesGrow
      <4>4. e[s[inner.of]] <=> e[inner.of]
        BY <1>3, <3>1, <4>3
      <4>5. e[inner] <=> ~e[inner.of]
        BY <1>1, <3>2, <3>4 DEF EvaluateStep
      <4>6. s[q] = s[inner.of]
        BY <2>0, <2>3, <3>4, Zenon DEF SimplifyStep
      <4> QED BY <3>2, <3>3, <4>4, <4>5, <4>6
    <3>5. CASE inner.kind # "Not"
      <4>1. s[q] = Not(inner)
        BY <2>0, <2>3, <3>5, Zenon DEF SimplifyStep
      <4> HIDE DEF inner
      <4>2. s[q].kind = "Not" /\ s[q].of = inner
        BY <4>1 DEF Not
      <4>3. e[s[q]] <=> ~e[inner]
        BY <1>1, <2>0, <4>2 DEF EvaluateStep
      <4> QED BY <3>2, <3>3, <4>3
    <3> QED BY <3>4, <3>5
  <2>4. CASE q.kind \in {"And", "Or"}
    <3>1. d # 0 /\ q.of \in Seq(R)
      BY <2>4, PartsOf
    <3>2. \A i \in DOMAIN q.of : /\ q.of[i] \in R /\ s[q.of[i]] \in R
                                /\ (e[s[q.of[i]]] <=> e[q.of[i]])
      BY <1>3, <2>1, <3>1
    <3>3. /\ q.kind = "And" => (e[q] <=> \A i \in DOMAIN q.of : e[q.of[i]])
          /\ q.kind = "Or"  => (e[q] <=> \E i \in DOMAIN q.of : e[q.of[i]])
      BY <1>1, <2>0 DEF EvaluateStep
    <3>4. CASE q.of = <<>>
      <4>1. s[q] = q
        BY <2>0, <2>4, <3>4, Zenon DEF SimplifyStep
      <4> QED BY <4>1
    <3>5. CASE q.of # <<>> /\ Len(q.of) = 1
      <4>1. s[q] = s[q.of[1]]
        BY <2>0, <2>4, <3>5, SMT DEF SimplifyStep
      <4>2. DOMAIN q.of = {1}
        BY <3>1, <3>5
      <4>3. e[q] <=> e[q.of[1]]
        BY <2>4, <3>3, <4>2
      <4> QED BY <3>2, <4>1, <4>2, <4>3
    <3>6. CASE q.of # <<>> /\ Len(q.of) # 1
      <4> DEFINE ps == [i \in DOMAIN q.of |-> s[q.of[i]]]
                 flat == Flatten(q.kind, ps)
      <4>1. s[q] = [kind |-> q.kind, of |-> flat]
        BY <2>0, <2>4, <3>6, SMT DEF SimplifyStep
      <4>2. ps \in Seq(R)
        <5>1. DOMAIN q.of = 1..Len(q.of) /\ Len(q.of) \in Nat
          BY <3>1
        <5> HIDE DEF R
        <5> QED BY <3>2, <5>1
      <4>3. DOMAIN ps = DOMAIN q.of /\ \A i \in DOMAIN ps : ps[i] = s[q.of[i]]
        OBVIOUS
      <4> HIDE DEF ps, flat
      <4>4. /\ \A i \in DOMAIN flat : \E k \in DOMAIN ps :
                  IF ps[k].kind = q.kind
                  THEN \E j \in DOMAIN ps[k].of : flat[i] = ps[k].of[j]
                  ELSE flat[i] = ps[k]
            /\ \A k \in DOMAIN ps :
                  IF ps[k].kind = q.kind
                  THEN \A j \in DOMAIN ps[k].of : \E i \in DOMAIN flat : flat[i] = ps[k].of[j]
                  ELSE \E i \in DOMAIN flat : flat[i] = ps[k]
        <5>1. d - 1 \in 0..MaxNesting
          BY <2>1, <3>1
        <5> QED BY <5>1, <2>4, <4>2, FlattenParts DEF flat
      <4>5. \A k \in DOMAIN ps : /\ ps[k] \in R /\ ps[k] \in Predicates
                                /\ (e[ps[k]] <=> e[q.of[k]])
        BY <2>1, <3>1, <3>2, <4>3
      <4>6. s[q].kind = q.kind /\ s[q].of = flat
        BY <4>1
      <4>7. CASE q.kind = "And"
        <5>1. e[s[q]] <=> \A i \in DOMAIN flat : e[flat[i]]
          <6>1. EvaluateStep(e, s[q], t, values)
                   <=> \A i \in DOMAIN s[q].of : e[s[q].of[i]]
            BY <4>6, <4>7 DEF EvaluateStep
          <6>2. e[s[q]] <=> EvaluateStep(e, s[q], t, values)
            BY <1>1, <2>0
          <6> QED BY <4>6, <6>1, <6>2
        <5>2. \A k \in DOMAIN ps : ps[k].kind = "And" =>
                 (e[ps[k]] <=> \A j \in DOMAIN ps[k].of : e[ps[k].of[j]])
          BY <1>1, <4>5 DEF EvaluateStep
        <5>3. (\A i \in DOMAIN flat : e[flat[i]]) <=> (\A k \in DOMAIN ps : e[ps[k]])
          BY <4>4, <4>7, <5>2
        <5> QED BY <3>3, <4>3, <4>5, <4>7, <5>1, <5>3
      <4>8. CASE q.kind = "Or"
        <5>1. e[s[q]] <=> \E i \in DOMAIN flat : e[flat[i]]
          <6>1. EvaluateStep(e, s[q], t, values)
                   <=> \E i \in DOMAIN s[q].of : e[s[q].of[i]]
            BY <4>6, <4>8 DEF EvaluateStep
          <6>2. e[s[q]] <=> EvaluateStep(e, s[q], t, values)
            BY <1>1, <2>0
          <6> QED BY <4>6, <6>1, <6>2
        <5>2. \A k \in DOMAIN ps : ps[k].kind = "Or" =>
                 (e[ps[k]] <=> \E j \in DOMAIN ps[k].of : e[ps[k].of[j]])
          BY <1>1, <4>5 DEF EvaluateStep
        <5>3. (\E i \in DOMAIN flat : e[flat[i]]) <=> (\E k \in DOMAIN ps : e[ps[k]])
          BY <4>4, <4>8, <5>2
        <5> QED BY <3>3, <4>3, <4>5, <4>8, <5>1, <5>3
      <4> QED BY <2>4, <4>7, <4>8
    <3> QED BY <3>4, <3>5, <3>6
  <2> QED BY <2>2, <2>3, <2>4, PartsOf
<1>4. 0 \in T
  BY <1>3, NestingAssumption
<1>5. ASSUME NEW d \in Nat, d \in T PROVE d + 1 \in T
  <2> SUFFICES ASSUME d + 1 <= MaxNesting, NEW q \in PredicatesTo[d + 1]
               PROVE  e[s[q]] <=> e[q]
    OBVIOUS
  <2>1. d + 1 \in 0..MaxNesting /\ (d + 1) - 1 = d /\ d <= MaxNesting
    BY NestingAssumption
  <2>2. \A r \in PredicatesTo[d] : e[s[r]] <=> e[r]
    BY <1>5, <2>1
  <2> QED BY <1>3, <2>1, <2>2
<1>6. MaxNesting \in T
  <2> HIDE DEF T
  <2> QED BY <1>4, <1>5, InductiveSet, NestingAssumption
<1>7. e[s[p]] <=> e[p]
  BY <1>6, NestingAssumption DEF Predicates
<1>8. s[p] \in Predicates
  BY <1>2, NestingAssumption DEF Predicates
<1> QED BY <1>1, <1>2, <1>7, <1>8
-------------------------------------------------------------------------------
(* Statistics as records; those of booleans and strings have no bounds.        *)
Unranged == {"Boolean", "String"}
PlainStat  == [base : Stat, sum : Int, first : Int, last : Int]
RangedStat == [base : Stat, sum : Int, first : Int, last : Int, min : Int, max : Int]
StatKept(ty) == IF Family(ty) \in Unranged THEN PlainStat ELSE RangedStat

Real(ty) == Family(ty) \in {"Float", "Double"}
Plus(ty, a, b) == IF Real(ty) THEN FloatAdd(a, b) ELSE a + b
Least(ty, a, b) == IF Real(ty) THEN FloatMin(a, b) ELSE Smaller(a, b)
Greatest(ty, a, b) == IF Real(ty) THEN FloatMax(a, b) ELSE Larger(a, b)

LEMMA Families ==
    \A ty : Family(ty) \in {"Boolean", "Int32", "Int64", "Float", "Double", "String"}
  BY DEF Family

LEMMA NumbersAreIntegers ==
    /\ I32Min \in Int /\ I32Max \in Int /\ I64Min \in Int /\ I64Max \in Int
    /\ F32Max \in Int /\ F64Max \in Int /\ Inf \in Int /\ NaN \in Int
  BY NumberAssumption, SizeAssumption

LEMMA ArithmeticTyped ==
    ASSUME NEW ty, NEW a \in Int, NEW b \in Int
    PROVE  /\ Plus(ty, a, b) \in Int /\ Least(ty, a, b) \in Int /\ Greatest(ty, a, b) \in Int
  BY NumbersAreIntegers
     DEF Plus, Least, Greatest, FloatAdd, FloatMin, FloatMax, Smaller, Larger

(* An update and a merge, field by field.                                      *)
LEMMA NewIs ==
    ASSUME NEW ty
    PROVE  LET s == StatisticNew(ty)
           IN  /\ s \in StatKept(ty) /\ s.base = EmptyStat /\ s.sum = 0
               /\ Family(ty) \notin Unranged =>
                     /\ s.min = IF Real(ty) THEN IF Family(ty) = "Float" THEN F32Max ELSE F64Max
                                ELSE IF Family(ty) = "Int32" THEN I32Max ELSE I64Max
                     /\ s.max = IF Real(ty) THEN -s.min
                                ELSE IF Family(ty) = "Int32" THEN I32Min ELSE I64Min
<1>1. EmptyStat \in Stat /\ -F32Max \in Int /\ -F64Max \in Int
  BY SizeAssumption, NumbersAreIntegers DEF EmptyStat, Stat, Stamps
<1>2. CASE Family(ty) = "Boolean"
  BY <1>1, <1>2 DEF StatisticNew, BooleanNew, NewStat, StatKept, PlainStat, Unranged
<1>3. CASE Family(ty) = "String"
  BY <1>1, <1>3 DEF StatisticNew, StringNew, NewStat, StatKept, PlainStat, Unranged
<1>4. CASE Family(ty) = "Int32"
  BY <1>1, <1>4, NumbersAreIntegers
     DEF StatisticNew, Int32New, NewNumbers, StatKept, RangedStat, Unranged, Real
<1>5. CASE Family(ty) = "Int64"
  BY <1>1, <1>5, NumbersAreIntegers
     DEF StatisticNew, Int64New, NewNumbers, StatKept, RangedStat, Unranged, Real
<1>6. CASE Family(ty) = "Float"
  BY <1>1, <1>6, NumbersAreIntegers
     DEF StatisticNew, FloatNew, NewNumbers, StatKept, RangedStat, Unranged, Real
<1>7. CASE Family(ty) = "Double"
  BY <1>1, <1>7, NumbersAreIntegers
     DEF StatisticNew, DoubleNew, NewNumbers, StatKept, RangedStat, Unranged, Real
<1> QED BY <1>2, <1>3, <1>4, <1>5, <1>6, <1>7, Families

LEMMA UpdateIs ==
    ASSUME NEW ty, NEW s \in StatKept(ty), NEW t \in Stamps, NEW value, value.v \in Int,
           Family(value.type) = Family(ty)
    PROVE  LET u == StatisticUpdate(ty, s, t, value)
           IN  /\ u \in StatKept(ty)
               /\ u.base = UpdateTime(s.base, t) /\ u.last = value.v
               /\ u.first = IF s.base.count = 0 THEN value.v ELSE s.first
               /\ Family(ty) # "String" => u.sum = Plus(ty, s.sum, value.v)
               /\ Family(ty) \notin Unranged =>
                     /\ u.min = Least(ty, value.v, s.min) \/ u.min = Least(ty, s.min, value.v)
                     /\ u.max = Greatest(ty, value.v, s.max) \/ u.max = Greatest(ty, s.max, value.v)
<1> DEFINE f == Family(ty)
           v == value.v
           p == WithPoint(s, t, v)
           u == StatisticUpdate(ty, s, t, value)
<1>1. s.base \in Stat /\ UpdateTime(s.base, t) \in Stat
  BY UpdateTimeType DEF StatKept, PlainStat, RangedStat
<1>2. CASE f \in Unranged
  <2>1. s \in PlainStat
    BY <1>2 DEF StatKept
  <2>2. /\ p \in PlainStat /\ p.base = UpdateTime(s.base, t) /\ p.sum = s.sum
        /\ p.first = (IF s.base.count = 0 THEN v ELSE s.first) /\ p.last = v
    BY <1>1, <2>1 DEF WithPoint, PlainStat
  <2> HIDE DEF p, v
  <2>3. CASE f = "Boolean"
    <3>1. u = [p EXCEPT !.sum = @ + v]
      BY <2>3 DEF StatisticUpdate, BooleanUpdate, p, v
    <3>2. v \in Int
      BY DEF v
    <3>3. u \in PlainStat /\ u.base = p.base /\ u.first = p.first /\ u.last = p.last
          /\ u.sum = p.sum + v
      BY <2>2, <3>1, <3>2 DEF PlainStat
    <3>4. ~Real(ty)
      BY <2>3 DEF Real
    <3> HIDE DEF u, f
    <3> QED BY <1>2, <2>2, <3>3, <3>4 DEF StatKept, Plus, u, f, v
  <2>4. CASE f = "String"
    <3>1. u = p
      BY <2>4 DEF StatisticUpdate, StringUpdate, p, v
    <3> HIDE DEF u, f
    <3> QED BY <1>2, <2>2, <2>4, <3>1 DEF StatKept, u, f, v
  <2> QED BY <1>2, <2>3, <2>4 DEF Unranged
<1>3. CASE f \notin Unranged
  <2>1. s \in RangedStat
    BY <1>3 DEF StatKept
  <2>2. /\ p \in RangedStat /\ p.base = UpdateTime(s.base, t) /\ p.sum = s.sum
        /\ p.first = (IF s.base.count = 0 THEN v ELSE s.first) /\ p.last = v
        /\ p.min = s.min /\ p.max = s.max
    BY <1>1, <2>1 DEF WithPoint, RangedStat
  <2> HIDE DEF p, v
  <2>3. v \in Int
    BY DEF v
  <2>4. ASSUME NEW sum \in Int, NEW lo \in Int, NEW hi \in Int,
               u = [p EXCEPT !.sum = sum, !.min = lo, !.max = hi]
        PROVE  /\ u \in RangedStat /\ u.base = p.base /\ u.first = p.first /\ u.last = p.last
               /\ u.sum = sum /\ u.min = lo /\ u.max = hi
    BY <2>2, <2>4 DEF RangedStat
  <2>5. CASE f \in {"Int32", "Int64"}
    <3>1. ~Real(ty)
      BY <2>5 DEF Real
    <3>2. u = [p EXCEPT !.sum = p.sum + v, !.min = Smaller(p.min, v), !.max = Larger(p.max, v)]
      BY <2>5 DEF StatisticUpdate, Int32Update, Int64Update, p, v
    <3>3. p.sum + v \in Int /\ Smaller(p.min, v) \in Int /\ Larger(p.max, v) \in Int
      BY <2>2, <2>3 DEF RangedStat, Smaller, Larger
    <3> HIDE DEF u
    <3>4. /\ u \in RangedStat /\ u.base = p.base /\ u.first = p.first /\ u.last = p.last
          /\ u.sum = Plus(ty, p.sum, v)
          /\ u.min = Least(ty, p.min, v) /\ u.max = Greatest(ty, p.max, v)
      BY <2>4, <3>1, <3>2, <3>3 DEF Plus, Least, Greatest
    <3> HIDE DEF f
    <3> QED BY <1>3, <2>2, <3>4 DEF StatKept, u, f, v
  <2>6. CASE f \in {"Float", "Double"}
    <3>1. Real(ty)
      BY <2>6 DEF Real
    <3>2. u = [p EXCEPT !.sum = FloatAdd(p.sum, v), !.min = FloatMin(v, p.min),
                        !.max = FloatMax(v, p.max)]
      BY <2>6 DEF StatisticUpdate, FloatUpdate, DoubleUpdate, p, v
    <3>3. FloatAdd(p.sum, v) \in Int /\ FloatMin(v, p.min) \in Int /\ FloatMax(v, p.max) \in Int
      <4>1. p.sum \in Int /\ p.min \in Int /\ p.max \in Int
        BY <2>2 DEF RangedStat
      <4> QED BY <2>3, <3>1, <4>1, ArithmeticTyped DEF Plus, Least, Greatest
    <3> HIDE DEF u
    <3>4. /\ u \in RangedStat /\ u.base = p.base /\ u.first = p.first /\ u.last = p.last
          /\ u.sum = Plus(ty, p.sum, v)
          /\ u.min = Least(ty, v, p.min) /\ u.max = Greatest(ty, v, p.max)
      BY <2>4, <3>1, <3>2, <3>3 DEF Plus, Least, Greatest
    <3> HIDE DEF f
    <3> QED BY <1>3, <2>2, <3>4 DEF StatKept, u, f, v
  <2> QED BY <1>3, <2>5, <2>6, Families DEF Unranged
<1> QED BY <1>2, <1>3

LEMMA MergeIs ==
    ASSUME NEW ty, NEW s \in StatKept(ty), NEW o \in StatKept(ty)
    PROVE  LET m == StatisticMerge(ty, s, o)
           IN  /\ m \in StatKept(ty)
               /\ o.base.count = 0 => m = s
               /\ o.base.count # 0 /\ s.base.count = 0 => m = o
               /\ o.base.count # 0 /\ s.base.count # 0 =>
                     /\ m.base = MergeStat(s.base, o.base)
                     /\ m.first = s.first /\ m.last = o.last
                     /\ Family(ty) # "String" => m.sum = Plus(ty, s.sum, o.sum)
                     /\ Family(ty) \notin Unranged =>
                           /\ m.min = Least(ty, s.min, o.min)
                           /\ m.max = Greatest(ty, s.max, o.max)
<1> DEFINE f == Family(ty)
           m == StatisticMerge(ty, s, o)
           base == MergeStat(s.base, o.base)
<1>1. s.base \in Stat /\ o.base \in Stat
  BY DEF StatKept, PlainStat, RangedStat
<1>2. base \in Stat
  BY <1>1, SizeAssumption DEF MergeStat, Stat, Stamps, Smaller, Larger
<1>3. CASE o.base.count = 0
  <2>1. m = s
    BY <1>3, Families
       DEF StatisticMerge, BooleanMerge, Int32Merge, Int64Merge, FloatMerge, DoubleMerge,
           StringMerge, Merging
  <2> HIDE DEF m
  <2> QED BY <1>3, <2>1 DEF m
<1>4. CASE o.base.count # 0 /\ s.base.count = 0
  <2>1. m = o
    BY <1>4, Families
       DEF StatisticMerge, BooleanMerge, Int32Merge, Int64Merge, FloatMerge, DoubleMerge,
           StringMerge, Merging
  <2> HIDE DEF m
  <2> QED BY <1>4, <2>1 DEF m
<1>5. CASE o.base.count # 0 /\ s.base.count # 0
  <2> HIDE DEF base
  <2>1. CASE f = "String"
    <3>1. m = [s EXCEPT !.base = base, !.last = o.last]
      BY <1>5, <2>1 DEF StatisticMerge, StringMerge, Merging, base
    <3>2. s \in PlainStat /\ o \in PlainStat
      BY <2>1 DEF StatKept, Unranged
    <3> HIDE DEF m
    <3>3. m \in PlainStat /\ m.base = base /\ m.first = s.first /\ m.last = o.last
      BY <1>2, <3>1, <3>2 DEF PlainStat
    <3> QED BY <1>5, <2>1, <3>3 DEF StatKept, Unranged, base, m
  <2>2. CASE f = "Boolean"
    <3>1. m = [[s EXCEPT !.sum = s.sum + o.sum] EXCEPT !.base = base, !.last = o.last]
      BY <1>5, <2>2 DEF StatisticMerge, BooleanMerge, Merging, base
    <3>2. s \in PlainStat /\ o \in PlainStat
      BY <2>2 DEF StatKept, Unranged
    <3> HIDE DEF m
    <3>3. /\ m \in PlainStat /\ m.base = base /\ m.first = s.first /\ m.last = o.last
          /\ m.sum = s.sum + o.sum
      <4> DEFINE x == s.sum + o.sum
      <4>1. x \in Int
        BY <3>2 DEF PlainStat
      <4>2. m = [[s EXCEPT !.sum = x] EXCEPT !.base = base, !.last = o.last]
        BY <3>1
      <4> HIDE DEF x
      <4>3. /\ m \in PlainStat /\ m.base = base /\ m.first = s.first /\ m.last = o.last
            /\ m.sum = x
        BY <1>2, <3>2, <4>1, <4>2 DEF PlainStat
      <4> QED BY <4>3 DEF x
    <3> QED BY <1>5, <2>2, <3>3 DEF StatKept, Unranged, base, m, Plus, Real
  <2>3. CASE f \notin Unranged
    <3>1. s \in RangedStat /\ o \in RangedStat
      BY <2>3 DEF StatKept
    <3>2. /\ Plus(ty, s.sum, o.sum) \in Int /\ Least(ty, s.min, o.min) \in Int
          /\ Greatest(ty, s.max, o.max) \in Int
      BY <3>1, ArithmeticTyped DEF RangedStat
    <3>3. m = [[s EXCEPT !.sum = Plus(ty, s.sum, o.sum),
                         !.min = Least(ty, s.min, o.min),
                         !.max = Greatest(ty, s.max, o.max)] EXCEPT
                    !.base = base, !.last = o.last]
      <4>1. CASE f = "Int32"
        BY <1>5, <4>1 DEF StatisticMerge, Int32Merge, Merging, base, Plus, Least, Greatest, Real
      <4>2. CASE f = "Int64"
        BY <1>5, <4>2 DEF StatisticMerge, Int64Merge, Merging, base, Plus, Least, Greatest, Real
      <4>3. CASE f = "Float"
        BY <1>5, <4>3 DEF StatisticMerge, FloatMerge, Merging, base, Plus, Least, Greatest, Real
      <4>4. CASE f = "Double"
        BY <1>5, <4>4 DEF StatisticMerge, DoubleMerge, Merging, base, Plus, Least, Greatest, Real
      <4> QED BY <2>3, <4>1, <4>2, <4>3, <4>4, Families DEF Unranged
    <3> HIDE DEF m
    <3>4. /\ m \in RangedStat /\ m.base = base /\ m.first = s.first /\ m.last = o.last
          /\ m.sum = Plus(ty, s.sum, o.sum) /\ m.min = Least(ty, s.min, o.min)
          /\ m.max = Greatest(ty, s.max, o.max)
      BY <1>2, <3>1, <3>2, <3>3 DEF RangedStat
    <3> HIDE DEF f
    <3> QED BY <1>5, <2>3, <3>4 DEF StatKept, base, m, f
  <2> QED BY <2>1, <2>2, <2>3 DEF Unranged
<1> QED BY <1>3, <1>4, <1>5

(* The arithmetic is a group's up to its limits: a sum within them is the same *)
(* whichever part of it is added up first, and the empty bounds are absorbed.  *)
Within(a, X) == a \in {NaN, Inf, -Inf} \/ (-X <= a /\ a <= X)

LEMMA FloatsAssociate ==
    ASSUME NEW a \in Int, NEW b \in Int, NEW c \in Int,
           NEW X \in Nat, NEW Y \in Nat, NEW Z \in Nat, X + Y + Z < Inf,
           Within(a, X), Within(b, Y), Within(c, Z)
    PROVE  /\ FloatAdd(FloatAdd(a, b), c) = FloatAdd(a, FloatAdd(b, c))
           /\ Within(FloatAdd(a, b), X + Y)
<1>1. NaN \in Int /\ Inf \in Int /\ 0 < Inf /\ Inf < NaN
  BY NumberAssumption, NumbersAreIntegers
<1>2. CASE a = NaN \/ b = NaN \/ c = NaN
  BY <1>1, <1>2 DEF FloatAdd, Within
<1>3. CASE a # NaN /\ b # NaN /\ c # NaN
  BY <1>1, <1>3 DEF FloatAdd, Within
<1> QED BY <1>2, <1>3

LEMMA PlusAssociates ==
    ASSUME NEW ty, NEW a \in Int, NEW b \in Int, NEW c \in Int,
           NEW X \in Nat, NEW Y \in Nat, NEW Z \in Nat, X + Y + Z < Inf,
           Real(ty) => Within(a, X) /\ Within(b, Y) /\ Within(c, Z)
    PROVE  /\ Plus(ty, Plus(ty, a, b), c) = Plus(ty, a, Plus(ty, b, c))
           /\ Real(ty) => Within(Plus(ty, a, b), X + Y)
<1>1. CASE Real(ty)
  BY <1>1, FloatsAssociate DEF Plus
<1>2. CASE ~Real(ty)
  BY <1>2 DEF Plus
<1> QED BY <1>1, <1>2

LEMMA PlusWithin ==
    ASSUME NEW ty, NEW a \in Int, NEW b \in Int, NEW X \in Nat, NEW Y \in Nat,
           X + Y < Inf, Real(ty), Within(a, X), Within(b, Y)
    PROVE  Within(Plus(ty, a, b), X + Y)
<1>1. NaN \in Int /\ Inf \in Int /\ 0 < Inf /\ Inf < NaN
  BY NumberAssumption, NumbersAreIntegers
<1> QED BY <1>1 DEF FloatAdd, Within, Plus

LEMMA PlusStarts ==
    ASSUME NEW ty, NEW a \in Int
    PROVE  Plus(ty, 0, a) = a
<1>1. NaN \in Int /\ Inf \in Int /\ 0 < Inf /\ Inf < NaN
  BY NumberAssumption, NumbersAreIntegers
<1> QED BY <1>1 DEF Plus, FloatAdd

(* The bounds of a statistic without values, and the values of a type.         *)
Highest(ty) == StatisticNew(ty).min
Lowest(ty)  == StatisticNew(ty).max
Valued(ty)  == Numbers[Family(ty)]

LEMMA Limits ==
    ASSUME NEW ty, Family(ty) \notin Unranged
    PROVE  /\ Highest(ty) \in Int /\ Lowest(ty) \in Int
           /\ Lowest(ty) < Highest(ty) /\ Highest(ty) < NaN
           /\ Real(ty) => 0 < Highest(ty) /\ Highest(ty) < Inf /\ Lowest(ty) = -Highest(ty)
           /\ \A v \in Valued(ty) :
                 /\ v \in Int
                 /\ ~Real(ty) => Lowest(ty) <= v /\ v <= Highest(ty)
                 /\ v \in {NaN, Inf, -Inf} \/ (Lowest(ty) <= v /\ v <= Highest(ty))
<1> DEFINE s == StatisticNew(ty)
<1>1. /\ s.min = IF Real(ty) THEN IF Family(ty) = "Float" THEN F32Max ELSE F64Max
                 ELSE IF Family(ty) = "Int32" THEN I32Max ELSE I64Max
      /\ s.max = IF Real(ty) THEN -s.min
                 ELSE IF Family(ty) = "Int32" THEN I32Min ELSE I64Min
  BY NewIs
<1>2. CASE Family(ty) = "Int32"
  BY <1>1, <1>2, NumberAssumption, NumbersAreIntegers
     DEF Highest, Lowest, Valued, Numbers, Real
<1>3. CASE Family(ty) = "Int64"
  BY <1>1, <1>3, NumberAssumption, NumbersAreIntegers
     DEF Highest, Lowest, Valued, Numbers, Real
<1>4. CASE Family(ty) = "Float"
  <2>1. Real(ty) /\ s.min = F32Max /\ s.max = -F32Max
    BY <1>1, <1>4 DEF Real
  <2>2. Valued(ty) = (-F32Max)..F32Max \cup {Inf, -Inf, NaN}
    BY <1>4 DEF Valued, Numbers
  <2> HIDE DEF s
  <2> QED BY <2>1, <2>2, NumberAssumption, NumbersAreIntegers DEF Highest, Lowest, s
<1>5. CASE Family(ty) = "Double"
  <2>1. Real(ty) /\ s.min = F64Max /\ s.max = -F64Max
    BY <1>1, <1>5 DEF Real
  <2>2. Valued(ty) = (-F64Max)..F64Max \cup {Inf, -Inf, NaN}
    BY <1>5 DEF Valued, Numbers
  <2> HIDE DEF s
  <2> QED BY <2>1, <2>2, NumberAssumption, NumbersAreIntegers DEF Highest, Lowest, s
<1> QED BY <1>2, <1>3, <1>4, <1>5, Families DEF Unranged

LEMMA ValuesAreWithin ==
    ASSUME NEW ty, NEW v \in Valued(ty)
    PROVE  v \in Int /\ (Real(ty) => Within(v, F64Max))
<1>1. CASE Family(ty) = "Boolean"
  BY <1>1 DEF Valued, Numbers, Real
<1>2. CASE Family(ty) = "String"
  BY <1>2 DEF Valued, Numbers, Real
<1>3. CASE Family(ty) \notin Unranged
  <2>1. v \in Int
    BY <1>3, Limits
  <2>2. ASSUME Real(ty) PROVE Highest(ty) <= F64Max /\ Lowest(ty) >= -F64Max
    <3>1. Highest(ty) \in {F32Max, F64Max} /\ Lowest(ty) = -Highest(ty)
      BY <1>3, <2>2, NewIs DEF Highest, Lowest
    <3> QED BY <3>1, NumberAssumption, NumbersAreIntegers
  <2>3. ASSUME Real(ty) PROVE Within(v, F64Max)
    <3>1. v \in {NaN, Inf, -Inf} \/ (Lowest(ty) <= v /\ v <= Highest(ty))
      BY <1>3, Limits
    <3>2. Lowest(ty) \in Int /\ Highest(ty) \in Int
      BY <1>3, Limits
    <3> QED BY <2>1, <2>2, <2>3, <3>1, <3>2, NumbersAreIntegers DEF Within
  <2> QED BY <2>1, <2>3
<1> QED BY <1>1, <1>2, <1>3, Families DEF Unranged

(* A statistic that comes of updates: untouched when it has no values; its sum *)
(* no further from zero than its values can bring it; its bounds within those  *)
(* it started from, and never NaN.                                             *)
Sound(ty, s) ==
    /\ s \in StatKept(ty)
    /\ s.base.count = 0 => s = StatisticNew(ty)
    /\ Real(ty) => Within(s.sum, s.base.count * F64Max)
    /\ Family(ty) \notin Unranged => s.min <= Highest(ty) /\ Lowest(ty) <= s.max /\ s.max # NaN

LEMMA NewIsSound ==
    ASSUME NEW ty PROVE Sound(ty, StatisticNew(ty))
<1>1. StatisticNew(ty) \in StatKept(ty) /\ StatisticNew(ty).base = EmptyStat /\ StatisticNew(ty).sum = 0
  BY NewIs
<1>2. Within(0, 0 * F64Max)
  BY NumbersAreIntegers DEF Within
<1>3. Family(ty) \notin Unranged =>
        /\ Highest(ty) \in Int /\ Lowest(ty) \in Int
        /\ Lowest(ty) < Highest(ty) /\ Highest(ty) < NaN
  BY Limits
<1> QED BY <1>1, <1>2, <1>3, NumbersAreIntegers DEF Sound, EmptyStat, Highest, Lowest

LEMMA Multiples ==
    ASSUME NEW n \in Nat, NEW k \in Nat
    PROVE  /\ n * F64Max \in Nat /\ (n + k) * F64Max = n * F64Max + k * F64Max
           /\ (n + 1) * F64Max = n * F64Max + F64Max
           /\ \A N \in Nat : n <= N => n * F64Max <= N * F64Max
<1>1. F64Max \in Nat
  BY NumberAssumption, NumbersAreIntegers
<1>2. \A m \in Nat : m * F64Max \in Nat
  BY <1>1
<1>3. \A m, l \in Nat : (m + l) * F64Max = m * F64Max + l * F64Max
  BY <1>1
<1>4. \A N \in Nat : n <= N => n * F64Max <= N * F64Max
  <2> SUFFICES ASSUME NEW N \in Nat, n <= N PROVE n * F64Max <= N * F64Max
    OBVIOUS
  <2>1. N - n \in Nat /\ N = n + (N - n)
    OBVIOUS
  <2>2. N * F64Max = n * F64Max + (N - n) * F64Max
    BY <1>3, <2>1
  <2> QED BY <1>2, <2>1, <2>2
<1>5. 1 * F64Max = F64Max
  BY <1>1
<1>6. (n + 1) * F64Max = n * F64Max + 1 * F64Max
  BY <1>3
<1> QED BY <1>2, <1>3, <1>4, <1>5, <1>6

(* A typed point of the column.                                                *)
Typed(ty) == [t : TIMES, value : [type : {ty}, v : Valued(ty)]]

LEMMA PointsTyped ==
    ASSUME NEW ty, NEW p \in Typed(ty)
    PROVE  /\ p.t \in Stamps /\ p.t \in Int /\ p.value.type = ty /\ p.value.v \in Valued(ty)
           /\ p.value.v \in Int
<1>1. p.t \in TIMES /\ p.value.type = ty /\ p.value.v \in Valued(ty)
  BY DEF Typed
<1>2. p.t \in Stamps /\ p.t \in Int
  <2>1. TIMES \subseteq I64Min..I64Max
    BY ColumnAssumption, Zenon
  <2>2. p.t \in I64Min..I64Max
    BY <1>1, <2>1
  <2> QED BY <2>2, SizeAssumption DEF Stamps
<1>3. p.value.v \in Int
  BY <1>1, ValuesAreWithin
<1> QED BY <1>1, <1>2, <1>3

LEMMA UpdateIsSound ==
    ASSUME NEW ty, NEW s, Sound(ty, s), NEW p \in Typed(ty),
           s.base.count < MaxPoints
    PROVE  /\ Sound(ty, StatisticUpdate(ty, s, p.t, p.value))
           /\ StatisticUpdate(ty, s, p.t, p.value).base.count = s.base.count + 1
<1> DEFINE u == StatisticUpdate(ty, s, p.t, p.value)
           v == p.value.v
<1>0. s \in StatKept(ty) /\ s.base.count \in Nat
  BY DEF Sound, StatKept, PlainStat, RangedStat, Stat
<1>1. /\ u \in StatKept(ty)
      /\ u.base = UpdateTime(s.base, p.t) /\ u.last = v
      /\ u.first = IF s.base.count = 0 THEN v ELSE s.first
      /\ Family(ty) # "String" => u.sum = Plus(ty, s.sum, v)
      /\ Family(ty) \notin Unranged =>
            /\ u.min = Least(ty, v, s.min) \/ u.min = Least(ty, s.min, v)
            /\ u.max = Greatest(ty, v, s.max) \/ u.max = Greatest(ty, s.max, v)
  BY <1>0, PointsTyped, UpdateIs
<1>2. u.base.count = s.base.count + 1 /\ u.base.count # 0
  BY <1>0, <1>1 DEF UpdateTime
<1>3. v \in Int /\ (Real(ty) => Within(v, F64Max)) /\ s.sum \in Int
  BY <1>0, PointsTyped, ValuesAreWithin DEF StatKept, PlainStat, RangedStat
<1> HIDE DEF u, v
<1>4. ASSUME Real(ty) PROVE Within(u.sum, u.base.count * F64Max)
  <2> DEFINE X == s.base.count * F64Max
  <2>1. X \in Nat /\ F64Max \in Nat /\ u.base.count * F64Max = X + F64Max
    BY <1>0, <1>2, Multiples, NumberAssumption, NumbersAreIntegers
  <2>2. X + F64Max < Inf
    <3>1. s.base.count + 1 \in Nat /\ s.base.count + 1 <= MaxPoints /\ MaxPoints \in Nat
      BY <1>0, ColumnAssumption
    <3>2. (s.base.count + 1) * F64Max <= MaxPoints * F64Max
      BY <3>1, Multiples
    <3>3. MaxPoints * F64Max \in Nat
      BY <3>1, Multiples
    <3>4. MaxPoints * F64Max < Inf
      BY ColumnAssumption
    <3> QED BY <1>0, <1>2, <2>1, <3>1, <3>2, <3>3, <3>4, NumbersAreIntegers
  <2>3. Within(s.sum, X)
    BY <1>4 DEF Sound
  <2>4. u.sum = Plus(ty, s.sum, v)
    BY <1>1, <1>4 DEF Real
  <2> HIDE DEF X
  <2>5. Within(Plus(ty, s.sum, v), X + F64Max)
    BY <1>3, <1>4, <2>1, <2>2, <2>3, PlusWithin
  <2> QED BY <2>1, <2>4, <2>5
<1>5. ASSUME Family(ty) \notin Unranged
      PROVE  u.min <= Highest(ty) /\ Lowest(ty) <= u.max /\ u.max # NaN
  <2>1. /\ s.min <= Highest(ty) /\ Lowest(ty) <= s.max /\ s.max # NaN
        /\ s.min \in Int /\ s.max \in Int
    BY <1>0, <1>5 DEF Sound, StatKept, RangedStat
  <2>2. Highest(ty) \in Int /\ Lowest(ty) \in Int /\ Highest(ty) < NaN
    BY <1>5, Limits
  <2>3. v \in Valued(ty) /\ (~Real(ty) => v <= Highest(ty))
    BY <1>5, PointsTyped, Limits DEF v
  <2>4. s.min # NaN
    BY <2>1, <2>2, NumbersAreIntegers
  <2>5. /\ u.min = IF Real(ty) /\ v = NaN THEN s.min ELSE Smaller(s.min, v)
        /\ u.max = IF Real(ty) /\ v = NaN THEN s.max ELSE Larger(s.max, v)
    BY <1>1, <1>3, <1>5, <2>1, <2>4
       DEF Least, Greatest, FloatMin, FloatMax, Smaller, Larger
  <2> QED BY <1>3, <2>1, <2>2, <2>3, <2>5, NumbersAreIntegers DEF Smaller, Larger
<1> QED BY <1>1, <1>2, <1>4, <1>5 DEF Sound, u

(* Two statistics that agree on what is kept of a type's values.               *)
Alike(ty, a, b) ==
    /\ a.base = b.base /\ a.first = b.first /\ a.last = b.last
    /\ Family(ty) # "String" => a.sum = b.sum
    /\ Family(ty) \notin Unranged => a.min = b.min /\ a.max = b.max

(* A point can be given to the open page before it is merged, or after.        *)
LEMMA MergeUpdates ==
    ASSUME NEW ty, NEW c, NEW s, Sound(ty, c), Sound(ty, s), NEW p \in Typed(ty),
           c.base.count + s.base.count < MaxPoints
    PROVE  Alike(ty, StatisticMerge(ty, c, StatisticUpdate(ty, s, p.t, p.value)),
                     StatisticUpdate(ty, StatisticMerge(ty, c, s), p.t, p.value))
<1> DEFINE v == p.value.v
           Update(r) == StatisticUpdate(ty, r, p.t, p.value)
           u == Update(s)
           m == StatisticMerge(ty, c, s)
           new == StatisticNew(ty)
<1>0. /\ c \in StatKept(ty) /\ s \in StatKept(ty)
      /\ c.base.count \in Nat /\ s.base.count \in Nat
      /\ c.base \in Stat /\ s.base \in Stat
  BY DEF Sound, StatKept, PlainStat, RangedStat, Stat
<1>1. Sound(ty, u) /\ u.base.count = s.base.count + 1
  <2>1. s.base.count < MaxPoints
    BY <1>0, ColumnAssumption
  <2> QED BY <2>1, UpdateIsSound
<1>2. u \in StatKept(ty) /\ u.base.count # 0
  BY <1>0, <1>1 DEF Sound
<1>3. /\ p.t \in Stamps /\ v \in Int /\ v \in Valued(ty)
  BY PointsTyped
<1> HIDE DEF v
<1>4. ASSUME NEW r \in StatKept(ty)
      PROVE  /\ Update(r).base = UpdateTime(r.base, p.t) /\ Update(r).last = v
             /\ Update(r).first = IF r.base.count = 0 THEN v ELSE r.first
             /\ Family(ty) # "String" => Update(r).sum = Plus(ty, r.sum, v)
             /\ Family(ty) \notin Unranged =>
                   /\ \/ Update(r).min = Least(ty, v, r.min)
                      \/ Update(r).min = Least(ty, r.min, v)
                   /\ \/ Update(r).max = Greatest(ty, v, r.max)
                      \/ Update(r).max = Greatest(ty, r.max, v)
  BY <1>3, PointsTyped, UpdateIs DEF v
<1>5. CASE c.base.count = 0
  <2>1. StatisticMerge(ty, c, u) = u
    BY <1>0, <1>2, <1>5, MergeIs
  <2>2. m = s
    <3>1. CASE s.base.count = 0
      <4>1. m = c /\ c = new /\ s = new
        BY <1>0, <1>5, <3>1, MergeIs DEF Sound
      <4> QED BY <4>1
    <3>2. CASE s.base.count # 0
      BY <1>0, <1>5, <3>2, MergeIs
    <3> QED BY <3>1, <3>2
  <2> HIDE DEF m
  <2> QED BY <2>1, <2>2 DEF Alike, m
<1>6. CASE c.base.count # 0
  <2> DEFINE l == StatisticMerge(ty, c, u)
             r == Update(m)
  <2>1. /\ l.base = MergeStat(c.base, u.base) /\ l.first = c.first /\ l.last = u.last
        /\ Family(ty) # "String" => l.sum = Plus(ty, c.sum, u.sum)
        /\ Family(ty) \notin Unranged => /\ l.min = Least(ty, c.min, u.min)
                                         /\ l.max = Greatest(ty, c.max, u.max)
    BY <1>0, <1>2, <1>6, MergeIs
  <2>2. m \in StatKept(ty)
    BY <1>0, MergeIs
  <2>3. /\ s.base.count = 0 => m = c
        /\ s.base.count # 0 =>
              /\ m.base = MergeStat(c.base, s.base) /\ m.first = c.first /\ m.last = s.last
              /\ Family(ty) # "String" => m.sum = Plus(ty, c.sum, s.sum)
              /\ Family(ty) \notin Unranged => /\ m.min = Least(ty, c.min, s.min)
                                               /\ m.max = Greatest(ty, c.max, s.max)
    BY <1>0, <1>6, MergeIs
  <2>4. m.base = IF s.base.count = 0 THEN c.base ELSE MergeStat(c.base, s.base)
    BY <2>3
  <2>5. u.base = UpdateTime(s.base, p.t) /\ r.base = UpdateTime(m.base, p.t)
    BY <1>0, <1>4, <2>2
  <2>6. s.base.count = 0 => s = new /\ s.base = EmptyStat /\ s.sum = 0
    BY NewIs DEF Sound
  <2> HIDE DEF m, l, u, Update, new
  <2>7. l.base = r.base /\ m.base.count # 0
    <3>1. CASE s.base.count = 0
      <4>1. /\ s.base = EmptyStat /\ m.base = c.base
            /\ l.base = MergeStat(c.base, UpdateTime(EmptyStat, p.t))
            /\ r.base = UpdateTime(c.base, p.t)
        BY <2>1, <2>4, <2>5, <2>6, <3>1
      <4> QED BY <1>0, <1>3, <1>6, <4>1, SizeAssumption
              DEF MergeStat, UpdateTime, EmptyStat, Stat, Stamps, Smaller, Larger
    <3>2. CASE s.base.count # 0
      <4>1. /\ m.base = MergeStat(c.base, s.base)
            /\ l.base = MergeStat(c.base, UpdateTime(s.base, p.t))
            /\ r.base = UpdateTime(MergeStat(c.base, s.base), p.t)
        BY <2>1, <2>4, <2>5, <3>2
      <4> HIDE DEF r
      <4> QED BY <1>0, <1>3, <1>6, <3>2, <4>1, SizeAssumption
              DEF MergeStat, UpdateTime, Stat, Stamps, Smaller, Larger
    <3> QED BY <3>1, <3>2
  <2>8. /\ r.last = v /\ r.first = m.first /\ u.last = v
        /\ Family(ty) # "String" => r.sum = Plus(ty, m.sum, v) /\ u.sum = Plus(ty, s.sum, v)
    BY <1>0, <1>4, <2>2, <2>7 DEF u
  <2>9. l.first = r.first /\ l.last = r.last
    BY <2>1, <2>3, <2>8
  <2>10. ASSUME Family(ty) # "String" PROVE l.sum = r.sum
    <3>1. c.sum \in Int /\ s.sum \in Int
      BY <1>0 DEF StatKept, PlainStat, RangedStat
    <3>2. CASE s.base.count = 0
      <4>1. u.sum = v /\ m.sum = c.sum
        BY <1>3, <2>3, <2>6, <2>8, <2>10, <3>2, PlusStarts
      <4> QED BY <2>1, <2>8, <2>10, <4>1
    <3>3. CASE s.base.count # 0
      <4> DEFINE X == c.base.count * F64Max
                 Y == s.base.count * F64Max
      <4>1. X \in Nat /\ Y \in Nat /\ F64Max \in Nat
        BY <1>0, Multiples, NumberAssumption, NumbersAreIntegers
      <4>2. X + Y + F64Max < Inf
        <5>1. /\ c.base.count + s.base.count \in Nat /\ MaxPoints \in Nat
              /\ c.base.count + s.base.count + 1 \in Nat
              /\ c.base.count + s.base.count + 1 <= MaxPoints
          BY <1>0, ColumnAssumption
        <5>2. (c.base.count + s.base.count) * F64Max = X + Y
          BY <1>0, Multiples
        <5>3. (c.base.count + s.base.count + 1) * F64Max = X + Y + F64Max
          BY <5>1, <5>2, Multiples
        <5>4. (c.base.count + s.base.count + 1) * F64Max <= MaxPoints * F64Max
          BY <5>1, Multiples
        <5>5. MaxPoints * F64Max \in Nat /\ MaxPoints * F64Max < Inf
          BY <5>1, Multiples, ColumnAssumption
        <5> HIDE DEF X, Y
        <5> QED BY <4>1, <5>3, <5>4, <5>5, NumbersAreIntegers
      <4>3. Real(ty) => Within(c.sum, X) /\ Within(s.sum, Y) /\ Within(v, F64Max)
        BY <1>3, ValuesAreWithin DEF Sound
      <4> HIDE DEF X, Y
      <4>4. Plus(ty, Plus(ty, c.sum, s.sum), v) = Plus(ty, c.sum, Plus(ty, s.sum, v))
        <5> DEFINE Z == F64Max
        <5>1. X \in Nat /\ Y \in Nat /\ Z \in Nat /\ X + Y + Z < Inf
          BY <4>1, <4>2
        <5>2. Real(ty) => Within(c.sum, X) /\ Within(s.sum, Y) /\ Within(v, Z)
          BY <4>3
        <5>3. \A a, b, d \in Int : (Real(ty) => Within(a, X) /\ Within(b, Y) /\ Within(d, Z))
                 => Plus(ty, Plus(ty, a, b), d) = Plus(ty, a, Plus(ty, b, d))
          <6> HIDE DEF Z
          <6>1. ASSUME NEW a \in Int, NEW b \in Int, NEW d \in Int,
                       Real(ty) => Within(a, X) /\ Within(b, Y) /\ Within(d, Z)
                PROVE  Plus(ty, Plus(ty, a, b), d) = Plus(ty, a, Plus(ty, b, d))
            BY <5>1, <6>1, PlusAssociates, NumbersAreIntegers
          <6> QED BY <6>1
        <5> QED BY <1>3, <3>1, <5>2, <5>3
      <4> QED BY <2>1, <2>3, <2>8, <2>10, <3>3, <4>4
    <3> QED BY <3>2, <3>3
  <2>11. ASSUME Family(ty) \notin Unranged PROVE l.min = r.min /\ l.max = r.max
    <3>1. /\ s.min \in Int /\ s.max \in Int /\ c.min \in Int /\ c.max \in Int
          /\ s.min <= Highest(ty) /\ Lowest(ty) <= s.max /\ s.max # NaN
          /\ c.min <= Highest(ty) /\ Lowest(ty) <= c.max /\ c.max # NaN
      BY <1>0, <2>11 DEF Sound, StatKept, RangedStat
    <3>2. /\ Highest(ty) \in Int /\ Lowest(ty) \in Int /\ Highest(ty) < NaN
          /\ Real(ty) => 0 < Highest(ty) /\ Highest(ty) < Inf /\ Lowest(ty) = -Highest(ty)
          /\ ~Real(ty) => Lowest(ty) <= v /\ v <= Highest(ty)
      BY <1>3, <2>11, Limits
    <3>3. /\ r.min = Least(ty, v, m.min) \/ r.min = Least(ty, m.min, v)
          /\ r.max = Greatest(ty, v, m.max) \/ r.max = Greatest(ty, m.max, v)
          /\ u.min = Least(ty, v, s.min) \/ u.min = Least(ty, s.min, v)
          /\ u.max = Greatest(ty, v, s.max) \/ u.max = Greatest(ty, s.max, v)
      BY <1>0, <1>4, <2>2, <2>11 DEF u
    <3>4. /\ l.min = Least(ty, c.min, u.min) /\ l.max = Greatest(ty, c.max, u.max)
          /\ s.base.count # 0 => /\ m.min = Least(ty, c.min, s.min)
                                 /\ m.max = Greatest(ty, c.max, s.max)
      BY <2>1, <2>3, <2>11
    <3>5. s.base.count = 0 => /\ m.min = c.min /\ m.max = c.max
                              /\ s.min = Highest(ty) /\ s.max = Lowest(ty)
      BY <2>3, <2>6 DEF Highest, Lowest, new
    <3> DEFINE skip == Real(ty) /\ v = NaN
    <3>6. ASSUME NEW a \in Int, NEW b \in Int, a # NaN, b # NaN
          PROVE  /\ Least(ty, a, b) = Smaller(a, b) /\ Greatest(ty, a, b) = Larger(a, b)
                 /\ Smaller(a, b) \in {a, b} /\ Larger(a, b) \in {a, b}
      BY <3>6 DEF Least, Greatest, FloatMin, FloatMax, Smaller, Larger
    <3>7. ASSUME NEW a \in Int, a # NaN
          PROVE  /\ Least(ty, v, a) = IF skip THEN a ELSE Smaller(a, v)
                 /\ Least(ty, a, v) = IF skip THEN a ELSE Smaller(a, v)
                 /\ Greatest(ty, v, a) = IF skip THEN a ELSE Larger(a, v)
                 /\ Greatest(ty, a, v) = IF skip THEN a ELSE Larger(a, v)
      BY <1>3, <3>7 DEF Least, Greatest, FloatMin, FloatMax, Smaller, Larger
    <3>8. s.min # NaN /\ c.min # NaN
      BY <3>1, <3>2, NumbersAreIntegers
    <3>9. /\ u.min = IF skip THEN s.min ELSE Smaller(s.min, v)
          /\ u.max = IF skip THEN s.max ELSE Larger(s.max, v)
      BY <3>1, <3>3, <3>7, <3>8
    <3>10. m.min \in {c.min, s.min} /\ m.max \in {c.max, s.max}
      BY <3>1, <3>4, <3>5, <3>6, <3>8
    <3>11. /\ r.min = IF skip THEN m.min ELSE Smaller(m.min, v)
           /\ r.max = IF skip THEN m.max ELSE Larger(m.max, v)
      <4>1. m.min \in Int /\ m.max \in Int /\ m.min # NaN /\ m.max # NaN
        BY <3>1, <3>8, <3>10
      <4> QED BY <3>3, <3>7, <4>1
    <3>12. CASE skip
      <4>1. l.min = Smaller(c.min, s.min) /\ l.max = Larger(c.max, s.max)
        BY <3>1, <3>4, <3>6, <3>8, <3>9, <3>12
      <4>2. m.min = Smaller(c.min, s.min) /\ m.max = Larger(c.max, s.max)
        BY <3>1, <3>2, <3>4, <3>5, <3>6, <3>8 DEF Smaller, Larger
      <4> QED BY <3>11, <3>12, <4>1, <4>2
    <3>13. CASE ~skip
      <4>1. v # NaN
        BY <1>3, <3>2, <3>13, NumbersAreIntegers
      <4>2. u.min = Smaller(s.min, v) /\ u.max = Larger(s.max, v)
        BY <3>9, <3>13
      <4>3. u.min \in Int /\ u.max \in Int /\ u.min # NaN /\ u.max # NaN
        BY <1>3, <3>1, <3>8, <4>1, <4>2 DEF Smaller, Larger
      <4>4. l.min = Smaller(c.min, Smaller(s.min, v)) /\ l.max = Larger(c.max, Larger(s.max, v))
        BY <3>1, <3>4, <3>6, <3>8, <4>2, <4>3
      <4>5. /\ s.base.count # 0 => /\ m.min = Smaller(c.min, s.min)
                                   /\ m.max = Larger(c.max, s.max)
        BY <3>1, <3>4, <3>6, <3>8
      <4>6. r.min = Smaller(m.min, v) /\ r.max = Larger(m.max, v)
        BY <3>11, <3>13
      <4> HIDE DEF r
      <4>7. CASE s.base.count # 0
        BY <1>3, <3>1, <4>4, <4>5, <4>6, <4>7 DEF Smaller, Larger
      <4>8. CASE s.base.count = 0
        BY <1>3, <3>1, <3>2, <3>5, <4>4, <4>6, <4>8 DEF Smaller, Larger
      <4> QED BY <4>7, <4>8
    <3> QED BY <3>12, <3>13
  <2> QED BY <2>7, <2>9, <2>10, <2>11 DEF Alike, l, u, m, Update
<1> QED BY <1>5, <1>6

(* Total follows its recursion, and so adds the last number to the others.     *)
RunningSums(f, real, ns) ==
    f = [n \in 0..Len(ns) |->
            IF n = 0 THEN 0
            ELSE IF real THEN FloatAdd(f[n - 1], ns[n]) ELSE f[n - 1] + ns[n]]

Sum2(real, a, b) == IF real THEN FloatAdd(a, b) ELSE a + b

Adds(f, real, ns) ==
    /\ Total(real, ns) = f[Len(ns)] /\ f[0] = 0
    /\ \A n \in 1..Len(ns) : f[n] = Sum2(real, f[n - 1], ns[n])

LEMMA TotalIs ==
    ASSUME NEW real, NEW ns \in Seq(Int)
    PROVE  \E f : Adds(f, real, ns)
<1> DEFINE N == Len(ns)
           Step(n) == [x \in Int |-> Sum2(real, x, ns[n])]
           step == [n \in 1..N |-> Step(n)]
           sum == CHOOSE f : RunningSums(f, real, ns)
<1>1. N \in Nat /\ \A n \in 1..N : ns[n] \in Int
  OBVIOUS
<1>2. \A n \in 1..N : \A x \in Int : Sum2(real, x, ns[n]) \in Int
  BY <1>1, NumbersAreIntegers DEF Sum2, FloatAdd
<1>3. step \in [1..N -> [Int -> Int]] /\ 0 \in Int
  <2>1. \A n \in 1..N : Step(n) \in [Int -> Int]
    BY <1>2, Zenon
  <2> HIDE DEF Step
  <2> QED BY <2>1
<1> HIDE DEF N, step
<1>4. PICK f \in [0..N -> Int] : Follows(f, N, 0, step)
  BY <1>1, <1>3, RecursionDefines, Zenon
<1>5. \A n \in 0..N : f[n] = IF n = 0 THEN 0 ELSE step[n][f[n - 1]]
  BY <1>4 DEF Follows
<1>6. \A n \in 0..N : f[n] = IF n = 0 THEN 0 ELSE Sum2(real, f[n - 1], ns[n])
  <2>1. ASSUME NEW n \in 1..N PROVE step[n][f[n - 1]] = Sum2(real, f[n - 1], ns[n])
    <3>1. f[n - 1] \in Int
      BY <1>1
    <3> QED BY <3>1 DEF step
  <2>2. \A n \in 0..N : n # 0 => n \in 1..N
    BY <1>1
  <2> QED BY <1>5, <2>1, <2>2
<1>7. RunningSums(f, real, ns)
  <2>1. f = [n \in 0..N |-> IF n = 0 THEN 0 ELSE Sum2(real, f[n - 1], ns[n])]
    BY <1>6
  <2> QED BY <2>1, Zenon DEF RunningSums, N, Sum2
<1>8. RunningSums(sum, real, ns)
  BY <1>7, Zenon
<1>9. Total(real, ns) = sum[N]
  BY Zenon DEF Total, RunningSums, N
<1> HIDE DEF sum
<1>10. \A n \in 0..N : sum[n] = IF n = 0 THEN 0 ELSE Sum2(real, sum[n - 1], ns[n])
  <2>1. sum = [n \in 0..N |-> IF n = 0 THEN 0 ELSE Sum2(real, sum[n - 1], ns[n])]
    BY <1>8, Zenon DEF RunningSums, N, Sum2
  <2> HIDE DEF Sum2
  <2> QED BY <2>1, Zenon
<1>11. sum[0] = 0 /\ \A n \in 1..N : sum[n] = Sum2(real, sum[n - 1], ns[n])
  <2>1. 0 \in 0..N /\ \A n \in 1..N : n \in 0..N /\ n # 0
    BY <1>1
  <2> QED BY <1>10, <2>1
<1> QED BY <1>9, <1>11 DEF N, Adds

LEMMA TotalGrows ==
    ASSUME NEW real, NEW ns \in Seq(Int), NEW x \in Int
    PROVE  /\ Total(real, <<>>) = 0
           /\ Total(real, Append(ns, x)) = Sum2(real, Total(real, ns), x)
<1> DEFINE more == Append(ns, x)
           N == Len(ns)
<1>1. /\ more \in Seq(Int) /\ Len(more) = N + 1 /\ N \in Nat /\ more[N + 1] = x
      /\ \A n \in 1..N : more[n] = ns[n]
  OBVIOUS
<1>2. Total(real, <<>>) = 0
  <2>1. <<>> \in Seq(Int) /\ Len(<<>>) = 0
    OBVIOUS
  <2>2. PICK f : Adds(f, real, <<>>)
    BY <2>1, TotalIs
  <2> QED BY <2>1, <2>2 DEF Adds
<1>3. PICK f : Adds(f, real, ns)
  BY TotalIs
<1> HIDE DEF more
<1>4. PICK g : Adds(g, real, more)
  BY <1>1, TotalIs
<1> DEFINE T == {n \in Nat : n <= N => f[n] = g[n]}
<1> HIDE DEF N
<1>5. 0 \in T
  BY <1>3, <1>4 DEF Adds
<1>6. ASSUME NEW n \in Nat, n \in T PROVE n + 1 \in T
  <2> SUFFICES ASSUME n + 1 <= N PROVE f[n + 1] = g[n + 1]
    OBVIOUS
  <2>1. n + 1 \in 1..N /\ n + 1 \in 1..Len(more) /\ (n + 1) - 1 = n /\ f[n] = g[n]
    BY <1>1, <1>6
  <2>2. f[n + 1] = Sum2(real, f[n], ns[n + 1]) /\ g[n + 1] = Sum2(real, g[n], more[n + 1])
    BY <1>3, <1>4, <2>1 DEF Adds, N
  <2> QED BY <1>1, <2>1, <2>2
<1>7. N \in T
  <2> HIDE DEF T
  <2> QED BY <1>1, <1>5, <1>6, InductiveSet
<1>8. f[N] = g[N]
  BY <1>1, <1>7
<1>9. g[N + 1] = Sum2(real, g[N], x)
  <2>1. N + 1 \in 1..Len(more) /\ (N + 1) - 1 = N
    BY <1>1
  <2> QED BY <1>1, <1>4, <2>1 DEF Adds
<1> QED BY <1>1, <1>2, <1>3, <1>4, <1>8, <1>9 DEF more, Adds, N

(* What the statistic s of the points h says of them.                          *)
NumbersIn(h) == [i \in DOMAIN h |-> h[i].value.v]

Spans(base, h) ==
    /\ base \in Stat /\ base.count = Len(h)
    /\ \A i \in DOMAIN h : base.start <= h[i].t /\ h[i].t <= base.end
    /\ base.start = I64Max \/ \E i \in DOMAIN h : base.start = h[i].t
    /\ base.end = I64Min \/ \E i \in DOMAIN h : base.end = h[i].t

Bounds(ty, s, h) ==
    /\ s.min \in Int /\ s.max \in Int
    /\ \A i \in DOMAIN h : h[i].value.v # NaN => s.min <= h[i].value.v /\ h[i].value.v <= s.max
    /\ s.min = Highest(ty) \/ \E i \in DOMAIN h : h[i].value.v # NaN /\ s.min = h[i].value.v
    /\ s.max = Lowest(ty) \/ \E i \in DOMAIN h : h[i].value.v # NaN /\ s.max = h[i].value.v

Describes(ty, s, h) ==
    /\ Spans(s.base, h)
    /\ h # <<>> => s.first = h[1].value.v /\ s.last = h[Len(h)].value.v
    /\ Family(ty) # "String" => s.sum = Total(Real(ty), NumbersIn(h))
    /\ Family(ty) \notin Unranged => Bounds(ty, s, h)

LEMMA NewDescribes ==
    ASSUME NEW ty PROVE Describes(ty, StatisticNew(ty), <<>>)
<1> DEFINE s == StatisticNew(ty)
<1>1. s \in StatKept(ty) /\ s.base = EmptyStat /\ s.sum = 0
  BY NewIs
<1>2. Spans(s.base, <<>>)
  BY <1>1, SizeAssumption DEF Spans, EmptyStat, Stat, Stamps
<1>3. NumbersIn(<<>>) = <<>>
  BY DEF NumbersIn
<1>4. Total(Real(ty), <<>>) = 0
  <2>1. <<>> \in Seq(Int) /\ 0 \in Int
    OBVIOUS
  <2> QED BY <2>1, TotalGrows
<1>5. Family(ty) \notin Unranged => Bounds(ty, s, <<>>)
  BY <1>1 DEF Bounds, Highest, Lowest, StatKept, RangedStat
<1> QED BY <1>1, <1>2, <1>3, <1>4, <1>5 DEF Describes

LEMMA UpdateDescribes ==
    ASSUME NEW ty, NEW s \in StatKept(ty), NEW h \in Seq(Typed(ty)), Describes(ty, s, h),
           Family(ty) \notin Unranged => s.min # NaN /\ s.max # NaN, NEW p \in Typed(ty)
    PROVE  Describes(ty, StatisticUpdate(ty, s, p.t, p.value), Append(h, p))
<1> DEFINE u == StatisticUpdate(ty, s, p.t, p.value)
           v == p.value.v
           more == Append(h, p)
           N == Len(h)
<1>1. /\ N \in Nat /\ DOMAIN h = 1..N /\ DOMAIN more = 1..(N + 1) /\ Len(more) = N + 1
      /\ more[N + 1] = p /\ more # <<>> /\ \A i \in 1..N : more[i] = h[i]
      /\ \A i \in 1..N : h[i] \in Typed(ty)
  OBVIOUS
<1>2. p.t \in Stamps /\ p.t \in Int /\ v \in Valued(ty) /\ v \in Int
  BY PointsTyped
<1>3. /\ u \in StatKept(ty)
      /\ u.base = UpdateTime(s.base, p.t) /\ u.last = v
      /\ u.first = IF s.base.count = 0 THEN v ELSE s.first
      /\ Family(ty) # "String" => u.sum = Plus(ty, s.sum, v)
      /\ Family(ty) \notin Unranged =>
            /\ u.min = Least(ty, v, s.min) \/ u.min = Least(ty, s.min, v)
            /\ u.max = Greatest(ty, v, s.max) \/ u.max = Greatest(ty, s.max, v)
  BY <1>2, PointsTyped, UpdateIs
<1>4. \A i \in 1..N : h[i].t \in Int /\ h[i].value.v \in Int
  BY <1>1, PointsTyped
<1> HIDE DEF u, v, more, N
<1>5. Spans(u.base, more)
  <2>1. /\ s.base \in Stat /\ s.base.count = N
        /\ \A i \in 1..N : s.base.start <= h[i].t /\ h[i].t <= s.base.end
        /\ s.base.start = I64Max \/ \E i \in 1..N : s.base.start = h[i].t
        /\ s.base.end = I64Min \/ \E i \in 1..N : s.base.end = h[i].t
    BY <1>1 DEF Describes, Spans, N
  <2>2. /\ u.base.count = N + 1 /\ u.base.start = Smaller(p.t, s.base.start)
        /\ u.base.end = Larger(p.t, s.base.end) /\ u.base \in Stat
    BY <1>2, <1>3, <2>1, UpdateTimeType DEF UpdateTime
  <2>3. s.base.start \in Int /\ s.base.end \in Int
    BY <2>1, SizeAssumption DEF Stat, Stamps
  <2>4. N + 1 \in DOMAIN more /\ \A i \in 1..N : i \in DOMAIN more
    BY <1>1
  <2>5. \A i \in DOMAIN more : u.base.start <= more[i].t /\ more[i].t <= u.base.end
    <3> SUFFICES ASSUME NEW i \in DOMAIN more
                 PROVE  u.base.start <= more[i].t /\ more[i].t <= u.base.end
      OBVIOUS
    <3>1. CASE i = N + 1
      BY <1>1, <1>2, <2>2, <2>3, <3>1 DEF Smaller, Larger
    <3>2. CASE i \in 1..N
      <4>1. more[i] = h[i] /\ h[i].t \in Int /\ s.base.start <= h[i].t /\ h[i].t <= s.base.end
        BY <1>1, <1>4, <2>1, <3>2
      <4> QED BY <1>2, <2>2, <2>3, <4>1 DEF Smaller, Larger
    <3> QED BY <1>1, <3>1, <3>2
  <2>6. u.base.start \in {p.t, s.base.start} /\ u.base.end \in {p.t, s.base.end}
    BY <2>2 DEF Smaller, Larger
  <2>7. u.base.start = I64Max \/ \E i \in DOMAIN more : u.base.start = more[i].t
    BY <1>1, <2>1, <2>4, <2>6
  <2>8. u.base.end = I64Min \/ \E i \in DOMAIN more : u.base.end = more[i].t
    BY <1>1, <2>1, <2>4, <2>6
  <2> QED BY <1>1, <2>2, <2>5, <2>7, <2>8 DEF Spans
<1>6. u.first = more[1].value.v /\ u.last = more[Len(more)].value.v
  <2>1. s.base.count = N /\ (h # <<>> => s.first = h[1].value.v)
    BY DEF Describes, Spans, N
  <2>2. CASE N = 0
    BY <1>1, <1>3, <2>1, <2>2 DEF v
  <2>3. CASE N # 0
    <3>1. h # <<>> /\ 1 \in 1..N
      BY <1>1, <2>3 DEF N
    <3>2. more[1] = h[1]
      BY <1>1, <3>1
    <3> QED BY <1>1, <1>3, <2>1, <2>3, <3>1, <3>2 DEF v
  <2> QED BY <2>2, <2>3
<1>7. ASSUME Family(ty) # "String" PROVE u.sum = Total(Real(ty), NumbersIn(more))
  <2>1. NumbersIn(h) \in Seq(Int)
    <3>1. NumbersIn(h) = [i \in 1..N |-> h[i].value.v]
      BY <1>1 DEF NumbersIn
    <3> QED BY <1>1, <1>4, <3>1
  <2>2. NumbersIn(more) = Append(NumbersIn(h), v)
    <3>1. /\ NumbersIn(more) = [i \in 1..(N + 1) |-> more[i].value.v]
          /\ NumbersIn(h) = [i \in 1..N |-> h[i].value.v]
      BY <1>1 DEF NumbersIn
    <3>2. Len(NumbersIn(h)) = N
      BY <1>1, <3>1
    <3> DEFINE ns == NumbersIn(h)
               a == Append(ns, v)
    <3> HIDE DEF ns
    <3>3. /\ DOMAIN a = 1..(N + 1) /\ a[N + 1] = v /\ \A i \in 1..N : a[i] = ns[i]
          /\ a = [i \in DOMAIN a |-> a[i]]
      <4>1. ns \in Seq(Int) /\ Len(ns) = N
        BY <2>1, <3>2 DEF ns
      <4>2. a \in Seq(Int) /\ Len(a) = N + 1 /\ a[N + 1] = v /\ \A i \in 1..N : a[i] = ns[i]
        BY <1>1, <1>2, <4>1
      <4> HIDE DEF a
      <4> QED BY <4>2
    <3> HIDE DEF a
    <3>4. \A i \in 1..(N + 1) : more[i].value.v = a[i]
      <4>1. \A i \in 1..N : ns[i] = h[i].value.v
        BY <3>1 DEF ns
      <4>2. \A i \in 1..(N + 1) : i = N + 1 \/ i \in 1..N
        BY <1>1
      <4> QED BY <1>1, <3>3, <4>1, <4>2 DEF v
    <3>5. NumbersIn(more) = a
      BY <3>1, <3>3, <3>4
    <3> QED BY <3>5 DEF a, ns
  <2>3. s.sum = Total(Real(ty), NumbersIn(h))
    BY <1>7 DEF Describes
  <2>4. Total(Real(ty), NumbersIn(more)) = Sum2(Real(ty), s.sum, v)
    BY <1>2, <2>1, <2>2, <2>3, TotalGrows
  <2> QED BY <1>3, <1>7, <2>4 DEF Plus, Sum2
<1>8. ASSUME Family(ty) \notin Unranged PROVE Bounds(ty, u, more)
  <2>1. /\ s.min \in Int /\ s.max \in Int /\ s.min # NaN /\ s.max # NaN
        /\ \A i \in 1..N : h[i].value.v # NaN => s.min <= h[i].value.v /\ h[i].value.v <= s.max
        /\ s.min = Highest(ty) \/ \E i \in 1..N : h[i].value.v # NaN /\ s.min = h[i].value.v
        /\ s.max = Lowest(ty) \/ \E i \in 1..N : h[i].value.v # NaN /\ s.max = h[i].value.v
    BY <1>1, <1>8 DEF Describes, Bounds
  <2>2. v = NaN => Real(ty)
    BY <1>2, <1>8, Limits, NumbersAreIntegers
  <2>3. /\ u.min = IF v = NaN THEN s.min ELSE Smaller(s.min, v)
        /\ u.max = IF v = NaN THEN s.max ELSE Larger(s.max, v)
    BY <1>2, <1>3, <1>8, <2>1, <2>2
       DEF Least, Greatest, FloatMin, FloatMax, Smaller, Larger
  <2>4. u.min \in Int /\ u.max \in Int
    BY <1>2, <2>1, <2>3 DEF Smaller, Larger
  <2>5. N + 1 \in DOMAIN more /\ \A i \in 1..N : i \in DOMAIN more
    BY <1>1
  <2>6. ASSUME NEW i \in DOMAIN more, more[i].value.v # NaN
        PROVE  u.min <= more[i].value.v /\ more[i].value.v <= u.max
    <3>1. CASE i = N + 1
      BY <1>1, <1>2, <2>1, <2>3, <2>6, <3>1 DEF Smaller, Larger, v
    <3>2. CASE i \in 1..N
      <4>1. /\ more[i] = h[i] /\ h[i].value.v \in Int
            /\ s.min <= h[i].value.v /\ h[i].value.v <= s.max
        BY <1>1, <1>4, <2>1, <2>6, <3>2
      <4> QED BY <1>2, <2>1, <2>3, <4>1 DEF Smaller, Larger
    <3> QED BY <1>1, <3>1, <3>2
  <2>7. /\ u.min = s.min \/ (v # NaN /\ u.min = v)
        /\ u.max = s.max \/ (v # NaN /\ u.max = v)
    BY <2>3 DEF Smaller, Larger
  <2>8. u.min = Highest(ty) \/ \E i \in DOMAIN more : more[i].value.v # NaN /\ u.min = more[i].value.v
    BY <1>1, <2>1, <2>5, <2>7 DEF v
  <2>9. u.max = Lowest(ty) \/ \E i \in DOMAIN more : more[i].value.v # NaN /\ u.max = more[i].value.v
    BY <1>1, <2>1, <2>5, <2>7 DEF v
  <2> QED BY <2>4, <2>6, <2>8, <2>9 DEF Bounds
<1> QED BY <1>5, <1>6, <1>7, <1>8 DEF Describes, u, more

LEMMA AlikeDescribes ==
    ASSUME NEW ty, NEW a, NEW b, NEW h, Alike(ty, a, b), Describes(ty, b, h)
    PROVE  Describes(ty, a, h)
  BY DEF Alike, Describes, Bounds

(* A merge of two statistics is one of the values of both.                     *)
LEMMA MergeIsSound ==
    ASSUME NEW ty, NEW c, NEW s, Sound(ty, c), Sound(ty, s),
           c.base.count + s.base.count <= MaxPoints
    PROVE  LET m == StatisticMerge(ty, c, s)
           IN  /\ Sound(ty, m) /\ m.base.count = c.base.count + s.base.count
               /\ Family(ty) \notin Unranged => m.min # NaN /\ m.max # NaN
               /\ StatisticMerge(ty, m, StatisticNew(ty)) = m
<1> DEFINE m == StatisticMerge(ty, c, s)
           new == StatisticNew(ty)
<1>0. /\ c \in StatKept(ty) /\ s \in StatKept(ty) /\ c.base \in Stat /\ s.base \in Stat
      /\ c.base.count \in Nat /\ s.base.count \in Nat /\ c.sum \in Int /\ s.sum \in Int
  BY DEF Sound, StatKept, PlainStat, RangedStat, Stat
<1>1. /\ m \in StatKept(ty)
      /\ s.base.count = 0 => m = c
      /\ s.base.count # 0 /\ c.base.count = 0 => m = s
      /\ s.base.count # 0 /\ c.base.count # 0 =>
            /\ m.base = MergeStat(c.base, s.base)
            /\ Family(ty) # "String" => m.sum = Plus(ty, c.sum, s.sum)
            /\ Family(ty) \notin Unranged =>
                  /\ m.min = Least(ty, c.min, s.min)
                  /\ m.max = Greatest(ty, c.max, s.max)
  BY <1>0, MergeIs
<1>2. new \in StatKept(ty) /\ new.base.count = 0
  BY NewIs DEF EmptyStat
<1>3. StatisticMerge(ty, m, new) = m
  BY <1>1, <1>2, MergeIs
<1>4. ASSUME NEW r, Sound(ty, r), Family(ty) \notin Unranged
      PROVE  r.min \in Int /\ r.max \in Int /\ r.min # NaN /\ r.max # NaN
  <2>1. Highest(ty) \in Int /\ Highest(ty) < NaN
    BY <1>4, Limits
  <2> QED BY <1>4, <2>1, NumbersAreIntegers DEF Sound, StatKept, RangedStat
<1> HIDE DEF m
<1>5. CASE s.base.count = 0
  BY <1>0, <1>1, <1>3, <1>4, <1>5 DEF m
<1>6. CASE s.base.count # 0 /\ c.base.count = 0
  BY <1>0, <1>1, <1>3, <1>4, <1>6 DEF m
<1>7. CASE s.base.count # 0 /\ c.base.count # 0
  <2>1. m.base.count = c.base.count + s.base.count
    BY <1>0, <1>1, <1>7 DEF MergeStat
  <2>2. m.base.count # 0
    BY <1>0, <1>7, <2>1
  <2>3. ASSUME Real(ty) PROVE Within(m.sum, m.base.count * F64Max)
    <3> DEFINE X == c.base.count * F64Max
               Y == s.base.count * F64Max
    <3>1. X \in Nat /\ Y \in Nat /\ m.base.count * F64Max = X + Y
      BY <1>0, <2>1, Multiples
    <3>2. X + Y < Inf
      <4>1. m.base.count \in Nat /\ m.base.count <= MaxPoints /\ MaxPoints \in Nat
        BY <1>0, <2>1, ColumnAssumption
      <4>2. m.base.count * F64Max <= MaxPoints * F64Max
        BY <4>1, Multiples
      <4>3. MaxPoints * F64Max \in Nat /\ MaxPoints * F64Max < Inf
        BY <4>1, Multiples, ColumnAssumption
      <4> HIDE DEF X, Y
      <4> QED BY <3>1, <4>2, <4>3, NumbersAreIntegers
    <3>3. Within(c.sum, X) /\ Within(s.sum, Y) /\ m.sum = Plus(ty, c.sum, s.sum)
      BY <1>1, <1>7, <2>3 DEF Sound, Real
    <3> HIDE DEF X, Y
    <3>4. Within(Plus(ty, c.sum, s.sum), X + Y)
      BY <1>0, <2>3, <3>1, <3>2, <3>3, PlusWithin, NumbersAreIntegers
    <3> QED BY <3>1, <3>3, <3>4
  <2>4. ASSUME Family(ty) \notin Unranged
        PROVE  /\ m.min <= Highest(ty) /\ Lowest(ty) <= m.max /\ m.max # NaN
               /\ m.min # NaN
    <3>1. /\ m.min = Least(ty, c.min, s.min) /\ m.max = Greatest(ty, c.max, s.max)
          /\ c.min \in Int /\ c.max \in Int /\ c.min # NaN /\ c.max # NaN
          /\ s.min \in Int /\ s.max \in Int /\ s.min # NaN /\ s.max # NaN
      BY <1>1, <1>4, <1>7, <2>4
    <3>2. /\ c.min <= Highest(ty) /\ Lowest(ty) <= c.max
          /\ s.min <= Highest(ty) /\ Lowest(ty) <= s.max
      BY <2>4 DEF Sound
    <3>3. m.min \in {c.min, s.min} /\ m.max \in {c.max, s.max}
      BY <3>1 DEF Least, Greatest, FloatMin, FloatMax, Smaller, Larger
    <3> QED BY <3>1, <3>2, <3>3
  <2>5. Sound(ty, m)
    BY <1>1, <2>2, <2>3, <2>4 DEF Sound
  <2> QED BY <1>3, <2>1, <2>4, <2>5 DEF m
<1> QED BY <1>5, <1>6, <1>7

(* What a column keeps to: the chunk's statistic and the open page's are, when *)
(* they are merged, the statistic of all points seen.                          *)
Merges(ty, c, s, h) ==
    /\ Sound(ty, c) /\ Sound(ty, s) /\ h \in Seq(Typed(ty)) /\ Len(h) <= MaxPoints
    /\ c.base.count + s.base.count = Len(h)
    /\ Describes(ty, StatisticMerge(ty, c, s), h)

LEMMA NewIsFine ==
    ASSUME NEW ty PROVE Merges(ty, StatisticNew(ty), StatisticNew(ty), <<>>)
<1> DEFINE new == StatisticNew(ty)
<1>1. Sound(ty, new) /\ Describes(ty, new, <<>>)
  BY NewIsSound, NewDescribes
<1>2. new \in StatKept(ty) /\ new.base.count = 0
  BY NewIs DEF EmptyStat
<1>3. StatisticMerge(ty, new, new) = new
  BY <1>2, MergeIs
<1>4. <<>> \in Seq(Typed(ty)) /\ Len(<<>>) = 0 /\ MaxPoints \in Nat
  BY ColumnAssumption
<1> HIDE DEF new
<1> QED BY <1>1, <1>2, <1>3, <1>4 DEF Merges, new

LEMMA ObserveIsFine ==
    ASSUME NEW ty, NEW c, NEW s, NEW h, Merges(ty, c, s, h), NEW p \in Typed(ty),
           Len(h) < MaxPoints
    PROVE  Merges(ty, c, StatisticUpdate(ty, s, p.t, p.value), Append(h, p))
<1> DEFINE u == StatisticUpdate(ty, s, p.t, p.value)
           m == StatisticMerge(ty, c, s)
           more == Append(h, p)
<1>1. /\ Sound(ty, c) /\ Sound(ty, s) /\ h \in Seq(Typed(ty))
      /\ c.base.count \in Nat /\ s.base.count \in Nat /\ MaxPoints \in Nat
      /\ c.base.count + s.base.count = Len(h) /\ Describes(ty, m, h)
  BY ColumnAssumption DEF Merges, Sound, StatKept, PlainStat, RangedStat, Stat
<1>2. Sound(ty, u) /\ u.base.count = s.base.count + 1
  <2>1. s.base.count < MaxPoints
    BY <1>1
  <2> QED BY <1>1, <2>1, UpdateIsSound
<1>3. more \in Seq(Typed(ty)) /\ Len(more) = Len(h) + 1 /\ Len(h) \in Nat
  BY <1>1
<1>4. Sound(ty, m) /\ (Family(ty) \notin Unranged => m.min # NaN /\ m.max # NaN)
  <2>1. c.base.count + s.base.count <= MaxPoints
    BY <1>1
  <2> QED BY <1>1, <2>1, MergeIsSound
<1>5. Describes(ty, StatisticUpdate(ty, m, p.t, p.value), more)
  BY <1>1, <1>4, UpdateDescribes DEF Sound
<1>6. Alike(ty, StatisticMerge(ty, c, u), StatisticUpdate(ty, m, p.t, p.value))
  BY <1>1, MergeUpdates
<1>7. Describes(ty, StatisticMerge(ty, c, u), more)
  BY <1>5, <1>6, AlikeDescribes
<1> HIDE DEF u, m, more
<1> QED BY SMTT(30), <1>1, <1>2, <1>3, <1>7 DEF Merges, u, more

LEMMA SealIsFine ==
    ASSUME NEW ty, NEW c, NEW s, NEW h, Merges(ty, c, s, h)
    PROVE  Merges(ty, StatisticMerge(ty, c, s), StatisticNew(ty), h)
<1> DEFINE m == StatisticMerge(ty, c, s)
           new == StatisticNew(ty)
<1>1. Sound(ty, m) /\ m.base.count = Len(h) /\ StatisticMerge(ty, m, new) = m
  BY MergeIsSound DEF Merges
<1>2. Sound(ty, new) /\ new.base.count = 0
  BY NewIsSound, NewIs DEF EmptyStat
<1>3. Len(h) + 0 = Len(h)
  BY DEF Merges
<1> HIDE DEF m, new
<1> QED BY <1>1, <1>2, <1>3 DEF Merges, m, new

(* A batch is its points one after the other.                                  *)
Batches(f, ty, s, ps) ==
    f = [n \in 0..Len(ps) |->
            IF n = 0 THEN s ELSE StatisticUpdate(ty, f[n - 1], ps[n].t, ps[n].value)]

LEMMA BatchIs ==
    ASSUME NEW ty, NEW s \in StatKept(ty), NEW ps \in Seq(Typed(ty))
    PROVE  \E f : /\ StatisticBatch(ty, s, ps) = f[Len(ps)]
                  /\ Batches(f, ty, s, ps)
<1> DEFINE N == Len(ps)
           Step(n) == [x \in StatKept(ty) |-> StatisticUpdate(ty, x, ps[n].t, ps[n].value)]
           step == [n \in 1..N |-> Step(n)]
           updated == CHOOSE f : Batches(f, ty, s, ps)
<1>1. N \in Nat /\ \A n \in 1..N : ps[n] \in Typed(ty)
  OBVIOUS
<1>2. \A n \in 1..N : \A x \in StatKept(ty) : StatisticUpdate(ty, x, ps[n].t, ps[n].value) \in StatKept(ty)
  <2> SUFFICES ASSUME NEW n \in 1..N, NEW x \in StatKept(ty)
               PROVE  StatisticUpdate(ty, x, ps[n].t, ps[n].value) \in StatKept(ty)
    OBVIOUS
  <2>1. ps[n].t \in Stamps /\ ps[n].value.type = ty /\ ps[n].value.v \in Int
    BY <1>1, PointsTyped
  <2> QED BY <2>1, UpdateIs
<1>3. step \in [1..N -> [StatKept(ty) -> StatKept(ty)]]
  <2>1. \A n \in 1..N : Step(n) \in [StatKept(ty) -> StatKept(ty)]
    BY <1>2, Zenon
  <2> HIDE DEF Step
  <2> QED BY <2>1
<1> HIDE DEF N, step
<1>4. PICK f \in [0..N -> StatKept(ty)] : Follows(f, N, s, step)
  BY <1>1, <1>3, RecursionDefines, Zenon
<1>5. \A n \in 0..N : f[n] = IF n = 0 THEN s ELSE step[n][f[n - 1]]
  BY <1>4 DEF Follows
<1>6. \A n \in 0..N : f[n] = IF n = 0 THEN s
                             ELSE StatisticUpdate(ty, f[n - 1], ps[n].t, ps[n].value)
  <2>1. ASSUME NEW n \in 1..N
        PROVE  step[n][f[n - 1]] = StatisticUpdate(ty, f[n - 1], ps[n].t, ps[n].value)
    <3>1. f[n - 1] \in StatKept(ty)
      BY <1>1
    <3> QED BY <3>1 DEF step
  <2>2. \A n \in 0..N : n # 0 => n \in 1..N
    BY <1>1
  <2> QED BY <1>5, <2>1, <2>2
<1>7. Batches(f, ty, s, ps)
  <2>1. f = [n \in 0..N |-> IF n = 0 THEN s
                            ELSE StatisticUpdate(ty, f[n - 1], ps[n].t, ps[n].value)]
    BY <1>6
  <2> QED BY <2>1, Zenon DEF Batches, N
<1>8. Batches(updated, ty, s, ps)
  BY <1>7, Zenon
<1>9. StatisticBatch(ty, s, ps) = updated[N]
  BY Zenon DEF StatisticBatch, Batches, N
<1> QED BY <1>8, <1>9, Zenon DEF N

LEMMA BatchIsFine ==
    ASSUME NEW ty, NEW c, NEW s, NEW h, Merges(ty, c, s, h), NEW ps \in Seq(Typed(ty)),
           Len(h) + Len(ps) <= MaxPoints
    PROVE  Merges(ty, c, StatisticBatch(ty, s, ps), h \o ps)
<1> DEFINE N == Len(ps)
           P(n) == SubSeq(ps, 1, n)
<1>1. N \in Nat /\ h \in Seq(Typed(ty)) /\ Len(h) \in Nat /\ MaxPoints \in Nat /\ s \in StatKept(ty)
  BY ColumnAssumption DEF Merges, Sound
<1>2. PICK f : StatisticBatch(ty, s, ps) = f[N] /\ Batches(f, ty, s, ps)
  BY <1>1, BatchIs
<1>3. \A n \in 0..N : f[n] = IF n = 0 THEN s
                             ELSE StatisticUpdate(ty, f[n - 1], ps[n].t, ps[n].value)
  BY <1>2, Zenon DEF Batches
<1> DEFINE T == {n \in Nat : n <= N => Merges(ty, c, f[n], h \o P(n))}
<1>4. 0 \in T
  <2>1. h \o P(0) = h /\ f[0] = s
    <3>1. P(0) = <<>> /\ 0 \in 0..N
      BY <1>1
    <3> QED BY <1>1, <1>3, <3>1
  <2> QED BY <2>1
<1>5. ASSUME NEW n \in Nat, n \in T PROVE n + 1 \in T
  <2> SUFFICES ASSUME n + 1 <= N PROVE Merges(ty, c, f[n + 1], h \o P(n + 1))
    OBVIOUS
  <2>1. n + 1 \in 0..N /\ n + 1 # 0 /\ (n + 1) - 1 = n /\ n + 1 \in 1..N /\ n <= N
    BY <1>1
  <2>2. f[n + 1] = StatisticUpdate(ty, f[n], ps[n + 1].t, ps[n + 1].value)
    BY <1>3, <2>1
  <2>3. Merges(ty, c, f[n], h \o P(n)) /\ ps[n + 1] \in Typed(ty)
    BY <1>5, <2>1
  <2>4. h \o P(n + 1) = Append(h \o P(n), ps[n + 1]) /\ Len(h \o P(n)) = Len(h) + n
    <3> DEFINE q == P(n)
               x == ps[n + 1]
    <3>1. /\ P(n) \in Seq(Typed(ty)) /\ Len(P(n)) = n /\ x \in Typed(ty)
      BY <1>1, <2>1
    <3>2. P(n + 1) = P(n) \o <<x>>
      <4>1. 1 \in 1..Len(ps) /\ n + 1 \in 1..Len(ps) /\ ps \in Seq(Typed(ty))
        BY <1>1, <2>1
      <4> QED BY <2>1, <4>1, SubSeqRecursiveSecond
    <3> HIDE DEF P, x
    <3>3. <<x>> \in Seq(Typed(ty)) /\ q \in Seq(Typed(ty))
      BY <3>1
    <3> HIDE DEF q
    <3>4. h \o (q \o <<x>>) = (h \o q) \o <<x>>
      BY <1>1, <3>3, ConcatAssociative
    <3>5. h \o q \in Seq(Typed(ty)) /\ Len(h \o q) = Len(h) + Len(q)
      BY <1>1, <3>3, ConcatParts
    <3>6. Append(h \o q, x) = (h \o q) \o <<x>>
      BY <3>1, <3>5, AppendIsConcat
    <3> QED BY <3>1, <3>2, <3>4, <3>5, <3>6 DEF q, x
  <2>5. Len(h) + n < MaxPoints
    BY <1>1, <2>1
  <2> HIDE DEF P
  <2> QED BY <2>2, <2>3, <2>4, <2>5, ObserveIsFine
<1>6. N \in T
  <2> HIDE DEF T
  <2> QED BY <1>1, <1>4, <1>5, InductiveSet
<1>7. P(N) = ps
  BY <1>1
<1> HIDE DEF P
<1> QED BY <1>1, <1>2, <1>6, <1>7

-------------------------------------------------------------------------------
(* The column of a behaviour, the invariant its statistics and queries rest    *)
(* on: of a behaviour about a file it is the empty one of a Boolean.           *)
ColumnInv ==
    /\ subject \in {"statistic", "file"}
    /\ subject = "statistic" => type \in TYPES
    /\ subject = "file" => seen = <<>> /\ type = "Boolean"
    /\ Merges(type, chunk, page, seen)

Column_vars == <<subject, type, page, chunk, seen>>

(* The actions of the file leave the column alone.                             *)
FileNext ==
    \/ \E row \in ROWS : AddOne(row)
    \/ \E bulk \in BULKS : AddMany(bulk)
    \/ ClearTablet
    \/ WriteIt
    \/ \E batch \in BATCHES : Import(batch)
    \/ Close
    \/ Open
    \/ NextBatch
    \/ \E d \in Devices : QueryDevice(d)

LEMMA FileKeepsColumn == FileNext => UNCHANGED Column_vars
<1>1. ASSUME NEW row \in ROWS, AddOne(row) PROVE UNCHANGED Column_vars
  BY <1>1, Zenon DEF AddOne, Call, statVars, Column_vars
<1>2. ASSUME NEW bulk \in BULKS, AddMany(bulk) PROVE UNCHANGED Column_vars
  BY <1>2, Zenon DEF AddMany, Call, statVars, Column_vars
<1>3. CASE ClearTablet
  BY <1>3, Zenon DEF ClearTablet, Call, statVars, Column_vars
<1>4. CASE WriteIt
  BY <1>4, Zenon DEF WriteIt, Call, statVars, Column_vars
<1>5. ASSUME NEW batch \in BATCHES, Import(batch) PROVE UNCHANGED Column_vars
  BY <1>5, Zenon DEF Import, Call, statVars, Column_vars
<1>6. CASE Close
  BY <1>6, Zenon DEF Close, statVars, Column_vars
<1>7. CASE Open
  BY <1>7, Zenon DEF Open, Reads, statVars, Column_vars
<1>8. CASE NextBatch
  BY <1>8, Zenon DEF NextBatch, Reads, statVars, Column_vars
<1>9. ASSUME NEW d \in Devices, QueryDevice(d) PROVE UNCHANGED Column_vars
  BY <1>9, Zenon DEF QueryDevice, Reads, statVars, Column_vars
<1> QED BY <1>1, <1>2, <1>3, <1>4, <1>5, <1>6, <1>7, <1>8, <1>9 DEF FileNext

(* The values of the column's type, as the assumption gives them.              *)
LEMMA ValuesTyped ==
    ASSUME NEW ty \in TYPES
    PROVE  /\ VALUES[ty] \subseteq [type : {ty}, v : Valued(ty)]
           /\ [t : TIMES, value : VALUES[ty]] \subseteq Typed(ty)
<1>1. VALUES[ty] \subseteq [type : {ty}, v : Valued(ty)]
  BY ColumnAssumption, Zenon DEF Valued
<1> QED BY <1>1 DEF Typed

LEMMA ColumnStep ==
    ASSUME ColumnInv, [Next]_vars
    PROVE  ColumnInv'
<1>0. Merges(type, chunk, page, seen)
  BY DEF ColumnInv
<1>1. ASSUME NEW t \in TIMES, NEW value \in UNION {VALUES[y] : y \in TYPES}, Observe(t, value)
      PROVE  ColumnInv'
  <2>1. /\ type \in TYPES /\ subject = "statistic" /\ Len(seen) < MaxPoints
        /\ value.type = type \/ Family(value.type) # Family(type)
        /\ subject' = subject /\ type' = type /\ chunk' = chunk
        /\ page' = StatisticUpdate(type, page, t, value)
        /\ seen' = IF value.type = type
                   THEN Append(seen, [t |-> t, value |-> value]) ELSE seen
    BY <1>1 DEF Observe, ColumnInv
  <2>2. CASE value.type = type
    <3> DEFINE p == [t |-> t, value |-> value]
    <3>1. PICK y \in TYPES : value \in VALUES[y]
      OBVIOUS
    <3>2. value \in [type : {y}, v : Valued(y)]
      BY <3>1, ValuesTyped
    <3>3. value \in VALUES[type]
      BY <2>2, <3>1, <3>2
    <3>4. p \in Typed(type)
      BY <2>1, <3>3, ValuesTyped
    <3>5. Merges(type, chunk, StatisticUpdate(type, page, p.t, p.value), Append(seen, p))
      BY <1>0, <2>1, <3>4, ObserveIsFine
    <3>6. Merges(type', chunk', page', seen')
      BY <2>1, <2>2, <3>5
    <3> QED BY <2>1, <3>6 DEF ColumnInv
  <2>3. CASE value.type # type
    <3>1. StatisticUpdate(type, page, t, value) = page
      BY <2>1, <2>3 DEF StatisticUpdate
    <3>2. Merges(type', chunk', page', seen')
      BY <1>0, <2>1, <2>3, <3>1
    <3> QED BY <2>1, <3>2 DEF ColumnInv
  <2> QED BY <2>2, <2>3
<1>2. ASSUME NEW n \in 1..(MaxPoints - Len(seen)),
             NEW ps \in [1..n -> [t : TIMES, value : VALUES[type]]], ObserveBatch(ps)
      PROVE  ColumnInv'
  <2>1. /\ type \in TYPES /\ subject = "statistic" /\ Len(seen) + Len(ps) <= MaxPoints
        /\ subject' = subject /\ type' = type /\ chunk' = chunk
        /\ page' = StatisticBatch(type, page, ps) /\ seen' = seen \o ps
    BY <1>2 DEF ObserveBatch, ColumnInv
  <2>2. n \in Nat
    BY <1>0, ColumnAssumption DEF Merges
  <2>3. ps \in Seq(Typed(type))
    <3>1. \A i \in 1..n : ps[i] \in Typed(type)
      BY <2>1, ValuesTyped
    <3> QED BY <2>2, <3>1
  <2>4. Merges(type, chunk, StatisticBatch(type, page, ps), seen \o ps)
    BY <1>0, <2>1, <2>3, BatchIsFine
  <2> QED BY <2>1, <2>4 DEF ColumnInv
<1>3. CASE SealPage
  <2>1. /\ subject = "statistic" /\ subject' = subject /\ type' = type /\ seen' = seen
        /\ chunk' = StatisticMerge(type, chunk, page) /\ page' = StatisticNew(type)
        /\ type \in TYPES
    BY <1>3 DEF SealPage, ColumnInv
  <2>2. Merges(type, StatisticMerge(type, chunk, page), StatisticNew(type), seen)
    BY <1>0, SealIsFine
  <2> QED BY <2>1, <2>2 DEF ColumnInv
<1>4. CASE FileNext \/ UNCHANGED vars
  <2>1. /\ subject' = subject /\ type' = type /\ page' = page /\ chunk' = chunk
        /\ seen' = seen
    BY <1>4, FileKeepsColumn, Zenon DEF vars, statVars, Column_vars
  <2> QED BY <2>1 DEF ColumnInv
<1> QED BY <1>1, <1>2, <1>3, <1>4, Zenon DEF Next, FileNext

LEMMA ColumnHolds == Spec => []ColumnInv
<1>1. Init => ColumnInv
  <2> SUFFICES ASSUME Init PROVE ColumnInv
    OBVIOUS
  <2>1. /\ subject \in {"statistic", "file"}
        /\ type \in IF subject = "statistic" THEN TYPES ELSE {"Boolean"}
        /\ page = StatisticNew(type) /\ chunk = StatisticNew(type) /\ seen = <<>>
    BY DEF Init
  <2>2. Merges(type, chunk, page, seen)
    BY <2>1, NewIsFine
  <2> QED BY <2>1, <2>2 DEF ColumnInv
<1>2. ColumnInv /\ [Next]_vars => ColumnInv'
  BY ColumnStep
<1> QED BY <1>1, <1>2, PTL DEF Spec

-------------------------------------------------------------------------------
(* A bound that is a member is the extreme that Min and Max choose.            *)
LEMMA ExtremeIs ==
    ASSUME NEW S \in SUBSET Int, NEW x \in S
    PROVE  /\ (\A y \in S : x <= y) => Min(S) = x
           /\ (\A y \in S : y <= x) => Max(S) = x
<1>1. ASSUME \A y \in S : x <= y PROVE Min(S) = x
  <2>1. \E z \in S : \A y \in S : z <= y
    BY <1>1
  <2>2. Min(S) \in S /\ \A y \in S : Min(S) <= y
    BY <2>1 DEF Min
  <2> DEFINE m == Min(S)
  <2>3. m \in Int /\ x \in Int /\ m <= x /\ x <= m
    BY <1>1, <2>2
  <2> HIDE DEF m
  <2>4. m = x
    BY <2>3
  <2> QED BY <2>4 DEF m
<1>2. ASSUME \A y \in S : y <= x PROVE Max(S) = x
  <2>1. \E z \in S : \A y \in S : z >= y
    BY <1>2
  <2>2. Max(S) \in S /\ \A y \in S : Max(S) >= y
    BY <2>1 DEF Max
  <2> DEFINE m == Max(S)
  <2>3. m \in Int /\ x \in Int /\ m <= x /\ x <= m
    BY <1>2, <2>2
  <2> HIDE DEF m
  <2>4. m = x
    BY <2>3
  <2> QED BY <2>4 DEF m
<1> QED BY <1>1, <1>2

(* StatisticsDescribe: merged page by page or kept in one, in whatever order   *)
(* values, batches and seals come, a statistic is that of its points.          *)
THEOREM SpecStatisticsDescribe == Spec => []StatisticsDescribe
<1>1. ASSUME ColumnInv PROVE StatisticsDescribe
  <2> DEFINE s == StatisticMerge(type, chunk, page)
             stamps == {seen[i].t : i \in DOMAIN seen}
             numbers == [i \in DOMAIN seen |-> seen[i].value.v]
             plain == ToSet(numbers) \ {NaN}
             finite == plain \ {Inf, -Inf}
             real == Family(type) \in {"Float", "Double"}
             N == Len(seen)
  <2> SUFFICES ASSUME seen # <<>>
               PROVE  /\ s.base = [count |-> N, start |-> Min(stamps), end |-> Max(stamps)]
                      /\ s.first = Head(numbers) /\ s.last = Last(numbers)
                      /\ Family(type) # "String" => s.sum = Total(real, numbers)
                      /\ HasRange(type, s) =>
                            /\ \A v \in plain : s.min <= v /\ v <= s.max
                            /\ finite # {} => s.min = Min(plain) /\ s.max = Max(plain)
    BY DEF StatisticsDescribe
  <2>1. Describes(type, s, seen) /\ seen \in Seq(Typed(type))
    BY <1>1 DEF ColumnInv, Merges
  <2>2. /\ N \in Nat /\ N # 0 /\ DOMAIN seen = 1..N /\ 1 \in 1..N /\ N \in 1..N
        /\ \A i \in 1..N : seen[i] \in Typed(type)
    BY <2>1
  <2>3. \A i \in 1..N : /\ seen[i].t \in Int /\ seen[i].t \in Stamps /\ seen[i].value.v \in Int
                        /\ seen[i].value.v \in Valued(type)
    BY <2>2, PointsTyped
  <2> HIDE DEF s, N
  <2>4. s.base = [count |-> N, start |-> Min(stamps), end |-> Max(stamps)]
    <3>1. /\ s.base \in Stat /\ s.base.count = N
          /\ \A i \in 1..N : s.base.start <= seen[i].t /\ seen[i].t <= s.base.end
          /\ s.base.start = I64Max \/ \E i \in 1..N : s.base.start = seen[i].t
          /\ s.base.end = I64Min \/ \E i \in 1..N : s.base.end = seen[i].t
      BY <2>1, <2>2 DEF Describes, Spans, N
    <3>2. \A i \in 1..N : I64Min <= seen[i].t /\ seen[i].t <= I64Max
      BY <2>3, SizeAssumption DEF Stamps
    <3>3. s.base.start \in Int /\ s.base.end \in Int
      BY <3>1, SizeAssumption DEF Stat, Stamps
    <3>4. s.base.start \in stamps
      <4>1. ASSUME s.base.start = I64Max PROVE s.base.start = seen[1].t
        BY <2>2, <2>3, <3>1, <3>2, <3>3, <4>1
      <4> QED BY <2>2, <3>1, <4>1
    <3>5. s.base.end \in stamps
      <4>1. ASSUME s.base.end = I64Min PROVE s.base.end = seen[1].t
        BY <2>2, <2>3, <3>1, <3>2, <3>3, <4>1
      <4> QED BY <2>2, <3>1, <4>1
    <3>6. stamps \in SUBSET Int /\ \A y \in stamps : s.base.start <= y /\ y <= s.base.end
      BY <2>2, <2>3, <3>1
    <3> HIDE DEF stamps
    <3>7. Min(stamps) = s.base.start /\ Max(stamps) = s.base.end
      BY <3>4, <3>5, <3>6, ExtremeIs
    <3> QED BY <3>1, <3>7 DEF Stat
  <2>5. /\ DOMAIN numbers = 1..N /\ Len(numbers) = N /\ numbers \in Seq(Int)
        /\ \A i \in 1..N : numbers[i] = seen[i].value.v
    BY <2>2, <2>3
  <2>6. s.first = Head(numbers) /\ s.last = Last(numbers)
    <3>1. s.first = seen[1].value.v /\ s.last = seen[N].value.v
      BY <2>1 DEF Describes, N
    <3> HIDE DEF numbers
    <3>2. Head(numbers) = numbers[1] /\ Last(numbers) = numbers[N]
      BY <2>2, <2>5 DEF Last
    <3> QED BY <2>2, <2>5, <3>1, <3>2
  <2>7. Family(type) # "String" => s.sum = Total(real, numbers)
    BY <2>1 DEF Describes, Real, NumbersIn
  <2>8. ASSUME HasRange(type, s)
        PROVE  /\ \A v \in plain : s.min <= v /\ v <= s.max
               /\ finite # {} => s.min = Min(plain) /\ s.max = Max(plain)
    <3>1. Family(type) \notin Unranged
      BY <2>8 DEF HasRange, Unranged
    <3>2. /\ s.min \in Int /\ s.max \in Int
          /\ \A i \in 1..N : numbers[i] # NaN => s.min <= numbers[i] /\ numbers[i] <= s.max
          /\ s.min = Highest(type) \/ \E i \in 1..N : numbers[i] # NaN /\ s.min = numbers[i]
          /\ s.max = Lowest(type) \/ \E i \in 1..N : numbers[i] # NaN /\ s.max = numbers[i]
      BY <2>1, <2>2, <2>5, <3>1 DEF Describes, Bounds
    <3>3. /\ \A v \in plain : v \in Int /\ v \in Valued(type) /\ \E i \in 1..N : v = numbers[i]
          /\ \A i \in 1..N : numbers[i] # NaN => numbers[i] \in plain
      <4> HIDE DEF numbers
      <4>1. ToSet(numbers) = {numbers[i] : i \in 1..N}
        BY <2>5 DEF ToSet
      <4> QED BY <2>3, <2>5, <4>1
    <3>4. \A v \in plain : v # NaN
      OBVIOUS
    <3> HIDE DEF plain
    <3>5. \A v \in plain : s.min <= v /\ v <= s.max
      BY <3>2, <3>3, <3>4
    <3>6. ASSUME finite # {} PROVE s.min = Min(plain) /\ s.max = Max(plain)
      <4>1. PICK v \in plain : v # Inf /\ v # -Inf
        BY <3>6
      <4>2. Lowest(type) <= v /\ v <= Highest(type) /\ Lowest(type) \in Int /\ Highest(type) \in Int
        BY <3>1, <3>3, <3>4, <4>1, Limits
      <4>3. s.min \in plain
        <5>1. ASSUME s.min = Highest(type) PROVE s.min = v
          BY <3>2, <3>3, <3>5, <4>1, <4>2, <5>1
        <5> QED BY <3>2, <3>3, <4>1, <5>1
      <4>4. s.max \in plain
        <5>1. ASSUME s.max = Lowest(type) PROVE s.max = v
          BY <3>2, <3>3, <3>5, <4>1, <4>2, <5>1
        <5> QED BY <3>2, <3>3, <4>1, <5>1
      <4>5. plain \in SUBSET Int
        BY <3>3
      <4> QED BY <3>5, <4>3, <4>4, <4>5, ExtremeIs
    <3> QED BY <3>5, <3>6
  <2> QED BY <2>4, <2>6, <2>7, <2>8
<1> QED BY <1>1, ColumnHolds, PTL

-------------------------------------------------------------------------------
(* The queries a column is asked are predicates.                               *)
LEMMA QueriesAre ==
    ASSUME NEW ty \in TYPES, NEW p \in PREDICATES[Family(ty)]
    PROVE  /\ p \in PredicatesTo[MaxNesting - 1] /\ p \in Predicates
           /\ MaxNesting - 1 \in 0..MaxNesting
<1>1. p \in PredicatesTo[MaxNesting - 1]
  BY ColumnAssumption, Zenon
<1>2. MaxNesting - 1 \in 0..MaxNesting
  BY NestingAssumption
<1> QED BY <1>1, <1>2, PredicatesWithin

(* A row of the column, as its merged statistic and times cover it.            *)
LEMMA RowsAreCovered ==
    ASSUME ColumnInv, NEW i \in DOMAIN seen
    PROVE  LET s == StatisticMerge(type, chunk, page)
           IN  CoversRow(<<s.base.start, s.base.end>>, Only(Column, [type |-> type, stat |-> s]),
                         seen[i].t, Row(i))
<1> DEFINE s == StatisticMerge(type, chunk, page)
           stats == Only(Column, [type |-> type, stat |-> s])
           val == seen[i].value
<1>1. Describes(type, s, seen) /\ seen \in Seq(Typed(type)) /\ type \in STRING
  <2>1. TYPES \subseteq STRING
    BY ColumnAssumption, Zenon
  <2>2. seen # <<>>
    OBVIOUS
  <2> QED BY <2>1, <2>2 DEF ColumnInv, Merges
<1>2. seen[i] \in Typed(type)
  <2>1. Describes(type, s, seen) /\ seen \in Seq(Typed(type))
    BY <1>1
  <2> HIDE DEF s
  <2> QED BY <2>1
<1>3. /\ seen[i].t \in Int /\ val.type = type /\ val.v \in Int /\ val \in TsValue
  <2>1. val \in [type : {type}, v : Valued(type)] /\ val.v \in Int /\ seen[i].t \in Int
    BY <1>2, PointsTyped DEF Typed
  <2> QED BY <1>1, <2>1 DEF TsValue
<1> HIDE DEF s
<1>4. /\ s.base.start \in Int /\ s.base.end \in Int
      /\ s.base.start <= seen[i].t /\ seen[i].t <= s.base.end
  BY <1>1, SizeAssumption DEF Describes, Spans, Stat, Stamps
<1>5. Covers(type, s, val.v)
  <2> SUFFICES ASSUME HasRange(type, s)
               PROVE  /\ s.min \in Int /\ s.max \in Int
                      /\ val.v # NaN => s.min <= val.v /\ val.v <= s.max
    BY DEF Covers
  <2>1. Family(type) \notin Unranged
    BY DEF HasRange, Unranged
  <2> QED BY <1>1, <2>1 DEF Describes, Bounds
<1>6. ASSUME NEW name \in STRING, NEW f \in ValueFilters,
             ValueMatches(f, Option(Row(i), name))
      PROVE  ValueMightMatchIn(f, name, stats)
  <2>1. DOMAIN stats = {Column}
    BY DEF Only
  <2>2. CASE name = Column
    <3>1. Row(i) = [x \in {Column} |-> <<val>>]
      BY DEF Row, Only
    <3>2. Option(Row(i), name) = <<val>>
      <4>1. DOMAIN Row(i) = {Column} /\ Row(i)[Column] = <<val>>
        BY <3>1
      <4> QED BY <2>2, <4>1 DEF Option
    <3> DEFINE option == <<val>>
    <3>3. option # <<>> /\ option[1] = val
      OBVIOUS
    <3> HIDE DEF option
    <3>4. ValueMightMatch(f, MinValue(type, s), MaxValue(type, s))
      <4>1. ValueMatches(f, option)
        BY <1>6, <3>2 DEF option
      <4> QED BY <1>3, <1>5, <3>3, <4>1, ValuePruning
    <3>5. stats[name].type = type /\ stats[name].stat = s
      BY <2>2 DEF Only
    <3> HIDE DEF stats
    <3> QED BY <3>4, <3>5 DEF ValueMightMatchIn
  <2>3. CASE name # Column
    BY <2>1, <2>3 DEF ValueMightMatchIn
  <2> QED BY <2>2, <2>3
<1> QED BY <1>3, <1>4, <1>6 DEF CoversRow, s

(* PruningIsSound: no chunk is skipped that has a row a query is for, whether  *)
(* the query is asked as it is or simplified.                                  *)
THEOREM SpecPruningIsSound == Spec => []PruningIsSound
<1>1. ASSUME ColumnInv PROVE PruningIsSound
  <2> DEFINE s == StatisticMerge(type, chunk, page)
             range == <<s.base.start, s.base.end>>
             stats == Only(Column, [type |-> type, stat |-> s])
  <2> SUFFICES ASSUME NEW p \in PREDICATES[Family(type)], NEW i \in DOMAIN seen,
                      Evaluate(p, seen[i].t, Row(i))
               PROVE  /\ MightMatchChunk(p, range, stats)
                      /\ MightMatchChunk(Simplify(p), range, stats)
    BY DEF PruningIsSound
  <2>1. seen # <<>>
    OBVIOUS
  <2>2. type \in TYPES
    BY <1>1, <2>1 DEF ColumnInv
  <2>3. p \in Predicates
    BY <2>2, QueriesAre
  <2>4. CoversRow(range, stats, seen[i].t, Row(i))
    BY <1>1, RowsAreCovered
  <2> HIDE DEF range, stats
  <2>5. /\ Simplify(p) \in Predicates
        /\ Evaluate(Simplify(p), seen[i].t, Row(i)) <=> Evaluate(p, seen[i].t, Row(i))
    BY <2>3, SimplifyKeepsMeaning
  <2> QED BY <2>3, <2>4, <2>5, PruningKeepsMatches
<1> QED BY <1>1, ColumnHolds, PTL

-------------------------------------------------------------------------------
(* A filter of a time and its negation are true of opposite times.             *)
LEMMA TimeNegation ==
    ASSUME NEW f \in TimeFilters, f.op # "Between", NEW t \in Int
    PROVE  TimeMatches(NegateTime(f), t) = ~TimeMatches(f, t)
<1> DEFINE n == NegateTime(f)
<1>1. /\ f.op \in Comparisons \cup {"In", "NotIn"}
      /\ f = [op |-> f.op, args |-> f.args]
  BY DEF TimeFilters
<1>2. n.op = Opposite[f.op] /\ n.args = f.args
  BY <1>1 DEF NegateTime
<1> HIDE DEF n
<1>3. TimeMatches(n, t) = ~TimeMatches(f, t)
  <2> DEFINE x == f.args[1]
             list == ToSet(f.args)
  <2>1. f.op \in Comparisons => x \in Int
    BY DEF TimeFilters, Comparisons, Operators
  <2>10. x = f.args[1] /\ list = ToSet(f.args) /\ x = n.args[1] /\ list = ToSet(n.args)
    BY <1>2, Zenon
  <2> HIDE DEF x, list
  <2>2. CASE f.op = "GreaterThan"
    <3>1. TimeMatches(f, t) = (t > x)
      BY <2>2, <2>10 DEF TimeMatches
    <3>2. n.op = "LessThanOrEqual"
      BY <1>2, <2>2 DEF Opposite
    <3>3. TimeMatches(n, t) = (t <= x)
      BY <2>10, <3>2 DEF TimeMatches
    <3>4. (t <= x) = ~(t > x)
      BY <2>1, <2>2 DEF Comparisons, Operators
    <3> QED BY <3>1, <3>3, <3>4, Zenon
  <2>3. CASE f.op = "GreaterThanOrEqual"
    <3>1. TimeMatches(f, t) = (t >= x)
      BY <2>3, <2>10 DEF TimeMatches
    <3>2. n.op = "LessThan"
      BY <1>2, <2>3 DEF Opposite
    <3>3. TimeMatches(n, t) = (t < x)
      BY <2>10, <3>2 DEF TimeMatches
    <3>4. (t < x) = ~(t >= x)
      BY <2>1, <2>3 DEF Comparisons, Operators
    <3> QED BY <3>1, <3>3, <3>4, Zenon
  <2>4. CASE f.op = "LessThan"
    <3>1. TimeMatches(f, t) = (t < x)
      BY <2>4, <2>10 DEF TimeMatches
    <3>2. n.op = "GreaterThanOrEqual"
      BY <1>2, <2>4 DEF Opposite
    <3>3. TimeMatches(n, t) = (t >= x)
      BY <2>10, <3>2 DEF TimeMatches
    <3>4. (t >= x) = ~(t < x)
      BY <2>1, <2>4 DEF Comparisons, Operators
    <3> QED BY <3>1, <3>3, <3>4, Zenon
  <2>5. CASE f.op = "LessThanOrEqual"
    <3>1. TimeMatches(f, t) = (t <= x)
      BY <2>5, <2>10 DEF TimeMatches
    <3>2. n.op = "GreaterThan"
      BY <1>2, <2>5 DEF Opposite
    <3>3. TimeMatches(n, t) = (t > x)
      BY <2>10, <3>2 DEF TimeMatches
    <3>4. (t > x) = ~(t <= x)
      BY <2>1, <2>5 DEF Comparisons, Operators
    <3> QED BY <3>1, <3>3, <3>4, Zenon
  <2>6. CASE f.op = "Equals"
    <3>1. TimeMatches(f, t) = (t = x)
      BY <2>6, <2>10 DEF TimeMatches
    <3>2. n.op = "NotEquals"
      BY <1>2, <2>6 DEF Opposite
    <3>3. TimeMatches(n, t) = (t # x)
      BY <2>10, <3>2 DEF TimeMatches
    <3>4. (t # x) = ~(t = x)
      BY SMT
    <3> QED BY <3>1, <3>3, <3>4, Zenon
  <2>7. CASE f.op = "NotEquals"
    <3>1. TimeMatches(f, t) = (t # x)
      BY <2>7, <2>10 DEF TimeMatches
    <3>2. n.op = "Equals"
      BY <1>2, <2>7 DEF Opposite
    <3>3. TimeMatches(n, t) = (t = x)
      BY <2>10, <3>2 DEF TimeMatches
    <3>4. (t = x) = ~(t # x)
      BY SMT
    <3> QED BY <3>1, <3>3, <3>4, Zenon
  <2>8. CASE f.op = "In"
    <3>1. TimeMatches(f, t) = (t \in list)
      BY <2>8, <2>10 DEF TimeMatches
    <3>2. n.op = "NotIn"
      BY <1>2, <2>8 DEF Opposite
    <3>3. TimeMatches(n, t) = (t \notin list)
      BY <2>10, <3>2 DEF TimeMatches
    <3>4. (t \notin list) = ~(t \in list)
      BY SMT
    <3> QED BY <3>1, <3>3, <3>4, Zenon
  <2>9. CASE f.op = "NotIn"
    <3>1. TimeMatches(f, t) = (t \notin list)
      BY <2>9, <2>10 DEF TimeMatches
    <3>2. n.op = "In"
      BY <1>2, <2>9 DEF Opposite
    <3>3. TimeMatches(n, t) = (t \in list)
      BY <2>10, <3>2 DEF TimeMatches
    <3>4. (t \in list) = ~(t \notin list)
      BY SMT
    <3> QED BY <3>1, <3>3, <3>4, Zenon
  <2> QED BY <1>1, <2>2, <2>3, <2>4, <2>5, <2>6, <2>7, <2>8, <2>9 DEF Comparisons, Operators
<1> QED BY <1>3 DEF n

(* A filter of a value and its negation are not both true of a value, and one  *)
(* of them is when the value compares with what the filter compares it with.   *)
LEMMA ValueNegation ==
    ASSUME NEW f \in ValueFilters, NEW val \in TsValue
    PROVE  LET opposite == NegateValue(f)
           IN  /\ ~(ValueMatches(f, <<val>>) /\ ValueMatches(opposite, <<val>>))
               /\ (\A k \in DOMAIN f.args : Comparable(val, f.args[k])) =>
                     (ValueMatches(f, <<val>>) \/ ValueMatches(opposite, <<val>>))
               /\ f.op \in Operators =>
                     ~ValueMatches(f, <<>>) /\ ~ValueMatches(opposite, <<>>)
<1> DEFINE n == NegateValue(f)
           option == <<val>>
           Listed == \E k \in DOMAIN f.args : Same(val, f.args[k])
<1>1. /\ f.op \in Operators \cup {"IsNull", "IsNotNull"}
      /\ f = [op |-> f.op, args |-> f.args]
  BY DEF ValueFilters, Comparisons, Operators
<1>2. n.op = Opposite[f.op] /\ n.args = f.args
  BY <1>1 DEF NegateValue
<1>3. option # <<>> /\ option[1] = val /\ val.v \in Int
  BY DEF TsValue
<1> HIDE DEF n, option, Listed
<1>4. CASE f.op \in Comparisons \ {"Equals", "NotEquals"}
  <2>1. f.args \in [1..1 -> TsValue]
    BY <1>4 DEF ValueFilters, Comparisons, Operators
  <2> DEFINE x == f.args[1]
  <2>2. x.v \in Int /\ 1 \in DOMAIN f.args
    BY <2>1 DEF TsValue
  <2> HIDE DEF x
  <2>3. /\ ValueMatches(f, option) <=>
              IF f.op = "GreaterThan" THEN Gt(val, x)
              ELSE IF f.op = "GreaterThanOrEqual" THEN Gte(val, x)
              ELSE IF f.op = "LessThan" THEN Lt(val, x) ELSE Lte(val, x)
    BY <1>3, <1>4 DEF ValueMatches, Comparisons, Operators, x
  <2>4. /\ ValueMatches(n, option) <=>
              IF f.op = "GreaterThan" THEN Lte(val, x)
              ELSE IF f.op = "GreaterThanOrEqual" THEN Lt(val, x)
              ELSE IF f.op = "LessThan" THEN Gte(val, x) ELSE Gt(val, x)
    <3>1. n.op = IF f.op = "GreaterThan" THEN "LessThanOrEqual"
                 ELSE IF f.op = "GreaterThanOrEqual" THEN "LessThan"
                 ELSE IF f.op = "LessThan" THEN "GreaterThanOrEqual" ELSE "GreaterThan"
      BY <1>2, <1>4 DEF Opposite, Comparisons, Operators
    <3> QED BY <1>2, <1>3, <1>4, <3>1 DEF ValueMatches, Comparisons, Operators, x
  <2>5. ~ValueMatches(f, <<>>) /\ ~ValueMatches(n, <<>>)
    BY <1>2, <1>4 DEF ValueMatches, Opposite, Comparisons, Operators
  <2>6. /\ ~(Gt(val, x) /\ Lte(val, x)) /\ ~(Gte(val, x) /\ Lt(val, x))
        /\ Comparable(val, x) =>
              (Gt(val, x) \/ Lte(val, x)) /\ (Gte(val, x) \/ Lt(val, x))
    BY <1>3, <2>2 DEF Gt, Gte, Lt, Lte, Same, Comparable
  <2>7. /\ ~(ValueMatches(f, option) /\ ValueMatches(n, option))
        /\ Comparable(val, x) => ValueMatches(f, option) \/ ValueMatches(n, option)
    BY <1>4, <2>3, <2>4, <2>6 DEF Comparisons, Operators
  <2> QED BY <2>2, <2>5, <2>7 DEF n, option, x
<1>5. CASE f.op \in {"Equals", "NotEquals", "In", "NotIn"}
  <2>1. ValueMatches(f, option) <=> IF f.op \in {"Equals", "In"} THEN Listed ELSE ~Listed
    BY <1>3, <1>5 DEF ValueMatches, Listed
  <2>2. ValueMatches(n, option) <=> IF f.op \in {"Equals", "In"} THEN ~Listed ELSE Listed
    <3>1. n.op \in {"Equals", "NotEquals", "In", "NotIn"}
          /\ (n.op \in {"Equals", "In"} <=> ~(f.op \in {"Equals", "In"}))
      BY <1>2, <1>5 DEF Opposite
    <3> QED BY <1>2, <1>3, <3>1 DEF ValueMatches, Listed
  <2>3. ~ValueMatches(f, <<>>) /\ ~ValueMatches(n, <<>>)
    BY <1>2, <1>5 DEF ValueMatches, Opposite
  <2> QED BY <2>1, <2>2, <2>3 DEF n, option
<1>6. CASE f.op \in {"IsNull", "IsNotNull"}
  <2>1. ValueMatches(f, option) <=> f.op = "IsNotNull"
    BY <1>3, <1>6 DEF ValueMatches
  <2>2. ValueMatches(n, option) <=> f.op = "IsNull"
    <3>1. n.op = IF f.op = "IsNull" THEN "IsNotNull" ELSE "IsNull"
      BY <1>2, <1>6 DEF Opposite
    <3> QED BY <1>3, <1>6, <3>1 DEF ValueMatches
  <2>3. f.op \notin Operators
    BY <1>6 DEF Operators
  <2> QED BY <1>6, <2>1, <2>2, <2>3 DEF n, option
<1> QED BY <1>1, <1>4, <1>5, <1>6 DEF Comparisons, Operators

(* NegationIsOpposite: of every point of the column, whatever its predicates.  *)
THEOREM SpecNegationIsOpposite == Spec => []NegationIsOpposite
<1>1. ASSUME ColumnInv PROVE NegationIsOpposite
  <2> SUFFICES ASSUME NEW p \in PREDICATES[Family(type)], NEW i \in DOMAIN seen
      PROVE  LET f == p.filter
                 val == seen[i].value
             IN  /\ p.kind = "Time" /\ f.op # "Between" =>
                       TimeMatches(NegateTime(f), seen[i].t) = ~TimeMatches(f, seen[i].t)
                 /\ p.kind = "Value" =>
                       LET opposite == NegateValue(f)
                       IN  /\ ~(ValueMatches(f, <<val>>) /\ ValueMatches(opposite, <<val>>))
                           /\ (\A k \in DOMAIN f.args : Comparable(val, f.args[k])) =>
                                 (ValueMatches(f, <<val>>) \/ ValueMatches(opposite, <<val>>))
                           /\ f.op \in Operators =>
                                 ~ValueMatches(f, <<>>) /\ ~ValueMatches(opposite, <<>>)
    BY Zenon DEF NegationIsOpposite
  <2>1. seen # <<>>
    OBVIOUS
  <2>2. type \in TYPES /\ seen \in Seq(Typed(type))
    BY <1>1, <2>1 DEF ColumnInv, Merges
  <2>3. p \in Predicates /\ MaxNesting \in 0..MaxNesting
    BY <2>2, QueriesAre, NestingAssumption
  <2>4. /\ p.kind = "Time" => p.filter \in TimeFilters
        /\ p.kind = "Value" => p.filter \in ValueFilters
    BY <2>3, PartsOf DEF Predicates
  <2>5. seen[i].t \in Int /\ seen[i].value \in TsValue
    <3>1. seen[i] \in Typed(type)
      BY <2>2
    <3>2. TYPES \subseteq STRING
      BY ColumnAssumption, Zenon
    <3> QED BY <2>2, <3>1, <3>2, PointsTyped DEF TsValue, Typed
  <2> QED BY <2>4, <2>5, TimeNegation, ValueNegation, Zenon
<1> QED BY <1>1, ColumnHolds, PTL

-------------------------------------------------------------------------------
(* Nothing is picked from no places.                                           *)
LEMMA PickedNone ==
    ASSUME NEW X, NEW s \in Seq(X)
    PROVE  Picked(s, {}) = <<>>
<1> DEFINE N == Len(s)
           step == [n \in 1..N |-> [x \in {<<>>} |-> x]]
<1>1. N \in Nat
  OBVIOUS
<1>2. PICK f \in [0..N -> {<<>>}] : Follows(f, N, <<>>, step)
  <2>1. step \in [1..N -> [{<<>>} -> {<<>>}]]
    OBVIOUS
  <2> HIDE DEF step, N
  <2> QED BY <1>1, <2>1, RecursionDefines
<1> DEFINE Picks(g) == g = [n \in 0..N |->
               IF n = 0 THEN <<>>
               ELSE IF n \in {} THEN Append(g[n - 1], s[n]) ELSE g[n - 1]]
<1>3. Picks(f)
  <2>1. f = [n \in 0..N |-> IF n = 0 THEN <<>> ELSE step[n][f[n - 1]]]
    BY <1>2 DEF Follows
  <2>2. \A n \in 0..N : n # 0 => n \in 1..N /\ n - 1 \in 0..N /\ f[n - 1] = <<>>
    BY <1>1, <1>2
  <2>3. \A n \in 0..N : f[n] = IF n = 0 THEN <<>> ELSE f[n - 1]
    BY <2>1, <2>2
  <2> HIDE DEF N, step
  <2> QED BY <1>2, <2>3
<1>4. Picked(s, {}) = (CHOOSE g : Picks(g))[N]
  BY Zenon DEF Picked
<1>5. \A g : Picks(g) => g[N] = <<>>
  <2> SUFFICES ASSUME NEW g, Picks(g) PROVE g[N] = <<>>
    OBVIOUS
  <2> DEFINE T == {m \in Nat : m <= N => g[m] = <<>>}
  <2>1. \A n \in 0..N : g[n] = IF n = 0 THEN <<>> ELSE g[n - 1]
    OBVIOUS
  <2> HIDE DEF Picks, N
  <2>2. 0 \in T
    BY <1>1, <2>1
  <2>3. ASSUME NEW m \in Nat, m \in T PROVE m + 1 \in T
    BY <1>1, <2>1, <2>3
  <2>4. N \in T
    <3> HIDE DEF T
    <3> QED BY <1>1, <2>2, <2>3, InductiveSet
  <2> QED BY <1>1, <2>4
<1> HIDE DEF Picks, N
<1> QED BY <1>3, <1>4, <1>5, Zenon

(* A column as it is read back, and the rows of it a query is for.             *)
StoredColumn ==
    [name |-> Column, type |-> type,
     points |-> [i \in DOMAIN seen |-> [t |-> seen[i].t, v |-> seen[i].value.v]]]

RowsAsked(q) == {i \in DOMAIN seen : Evaluate(q, seen[i].t, Row(i))}

LEMMA StoredRows ==
    ASSUME ColumnInv, type \in TYPES
    PROVE  /\ DOMAIN StoredColumn.points = DOMAIN seen
           /\ StoredColumn.points \in Seq([t : Int, v : Int])
           /\ \A i \in DOMAIN seen :
                 /\ StoredColumn.points[i].t = seen[i].t
                 /\ I64Min <= seen[i].t /\ seen[i].t <= I64Max /\ seen[i].t \in Int
                 /\ Only(StoredColumn.name,
                         <<[type |-> StoredColumn.type, v |-> StoredColumn.points[i].v]>>)
                    = Row(i)
<1>1. seen \in Seq(Typed(type))
  BY DEF ColumnInv, Merges
<1>2. TIMES \subseteq I64Min..I64Max
  BY ColumnAssumption, Zenon
<1>3. ASSUME NEW i \in DOMAIN seen
      PROVE  /\ seen[i].t \in Int /\ I64Min <= seen[i].t /\ seen[i].t <= I64Max
             /\ seen[i].value.v \in Int
             /\ seen[i].value = [type |-> type, v |-> seen[i].value.v]
  <2>1. seen[i] \in Typed(type)
    BY <1>1
  <2>2. seen[i].t \in TIMES /\ seen[i].value \in [type : {type}, v : Valued(type)]
    BY <2>1 DEF Typed
  <2>3. seen[i].value.v \in Int /\ seen[i].t \in Int
    BY <2>1, PointsTyped
  <2> QED BY <1>2, <2>2, <2>3, SizeAssumption
<1>4. StoredColumn.points \in Seq([t : Int, v : Int])
  <2>1. DOMAIN seen = 1..Len(seen) /\ Len(seen) \in Nat
    BY <1>1
  <2> DEFINE pts == [i \in DOMAIN seen |-> [t |-> seen[i].t, v |-> seen[i].value.v]]
  <2>2. pts \in [1..Len(seen) -> [t : Int, v : Int]]
    BY <1>3, <2>1
  <2>3. pts \in Seq([t : Int, v : Int])
    <3> DEFINE R == [t : Int, v : Int]
    <3>1. \A n \in Nat : \A f \in [1..n -> R] : f \in Seq(R)
      <4> HIDE DEF R
      <4> QED OBVIOUS
    <3> HIDE DEF pts, R
    <3> QED BY <2>1, <2>2, <3>1 DEF R
  <2> QED BY <2>3 DEF StoredColumn
<1>5. ASSUME NEW i \in DOMAIN seen
      PROVE  Only(StoredColumn.name,
                  <<[type |-> StoredColumn.type, v |-> StoredColumn.points[i].v]>>) = Row(i)
  <2>1. StoredColumn.name = Column /\ StoredColumn.type = type
        /\ StoredColumn.points[i].v = seen[i].value.v
    BY DEF StoredColumn
  <2> QED BY <1>3, <2>1, Zenon DEF Row
<1> QED BY <1>3, <1>4, <1>5 DEF StoredColumn

(* A scan for a predicate that was simplified answers its rows: the times and  *)
(* statistics that are not known exclude no chunk with such a row.             *)
LEMMA ScanAnswers ==
    ASSUME ColumnInv, type \in TYPES, NEW q \in Predicates
    PROVE  ScanWithPredicate(StoredColumn, Simplify(q)).points
              = Picked(StoredColumn.points, RowsAsked(q))
<1> DEFINE s == Simplify(q)
           col == StoredColumn
           might == MightMatchChunk(s, <<I64Min, I64Max>>, <<>>)
<1>1. s \in Predicates
  BY SimplifyKeepsMeaning
<1>2. \A i \in DOMAIN seen : Evaluate(s, seen[i].t, Row(i)) <=> Evaluate(q, seen[i].t, Row(i))
  BY SimplifyKeepsMeaning
<1> HIDE DEF s
<1>3. ASSUME NEW i \in DOMAIN seen, Evaluate(s, seen[i].t, Row(i)) PROVE might
  <2>1. CoversRow(<<I64Min, I64Max>>, <<>>, seen[i].t, Row(i))
    <3>1. seen[i].t \in Int /\ I64Min <= seen[i].t /\ seen[i].t <= I64Max
      BY StoredRows
    <3>2. \A name \in STRING, f \in ValueFilters : ValueMightMatchIn(f, name, <<>>)
      BY DEF ValueMightMatchIn
    <3> QED BY <3>1, <3>2, SizeAssumption DEF CoversRow
  <2> QED BY <1>1, <1>3, <2>1, PruningKeepsMatches
<1>4. FilterByPredicate(col, s).points = Picked(col.points, RowsAsked(q))
  <2> DEFINE Mine(i) == Evaluate(s, col.points[i].t,
                           Only(col.name, <<[type |-> col.type, v |-> col.points[i].v]>>))
  <2>1. \A i \in DOMAIN seen : Mine(i) <=> Evaluate(q, seen[i].t, Row(i))
    BY <1>2, StoredRows, Zenon
  <2>2. {i \in DOMAIN col.points : Mine(i)} = RowsAsked(q)
    <3>1. DOMAIN col.points = DOMAIN seen
      BY StoredRows
    <3> HIDE DEF Mine, col
    <3> QED BY <2>1, <3>1 DEF RowsAsked
  <2>3. FilterByPredicate(col, s) =
           [col EXCEPT !.points = Picked(@, {i \in DOMAIN @ :
              Evaluate(s, @[i].t, Only(col.name, <<[type |-> col.type, v |-> @[i].v]>>))})]
    BY Zenon DEF FilterByPredicate
  <2>4. FilterByPredicate(col, s) =
           [col EXCEPT !.points = Picked(col.points, {i \in DOMAIN col.points : Mine(i)})]
    BY <2>3
  <2>5. \A new : [col EXCEPT !.points = new].points = new
    BY DEF StoredColumn
  <2> HIDE DEF Mine, col
  <2> QED BY <2>2, <2>4, <2>5, Zenon
<1>5. CASE might
  BY <1>4, <1>5, Zenon DEF ScanWithPredicate, s
<1>6. CASE ~might
  <2>1. RowsAsked(q) = {}
    BY <1>2, <1>3, <1>6 DEF RowsAsked
  <2>2. Picked(col.points, {}) = <<>>
    BY StoredRows, PickedNone
  <2>3. EmptyChunk(col).points = <<>>
    BY DEF EmptyChunk, StoredColumn
  <2>4. ScanWithPredicate(col, s) = EmptyChunk(col)
    BY <1>6, Zenon DEF ScanWithPredicate
  <2> HIDE DEF col
  <2> QED BY <2>1, <2>2, <2>3, <2>4, Zenon DEF s, col
<1> QED BY <1>5, <1>6

(* Two queries joined are true of what both are true of.                       *)
LEMMA AndIs ==
    ASSUME NEW p \in PredicatesTo[MaxNesting - 1], NEW q \in PredicatesTo[MaxNesting - 1],
           NEW t, NEW values
    PROVE  /\ And(<<p, q>>) \in Predicates
           /\ Evaluate(And(<<p, q>>), t, values) <=>
                 Evaluate(p, t, values) /\ Evaluate(q, t, values)
<1> DEFINE both == And(<<p, q>>)
<1>1. both \in Predicates
  <2>1. MaxNesting \in 0..MaxNesting /\ MaxNesting # 0
    BY NestingAssumption
  <2>2. Predicates = Leaves \cup Combined(PredicatesTo[MaxNesting - 1])
    BY <2>1, PredicatesAt DEF Predicates
  <2>3. <<p, q>> \in Seq(PredicatesTo[MaxNesting - 1])
    <3>1. \A S : \A x \in S, y \in S : <<x, y>> \in Seq(S)
      OBVIOUS
    <3> QED BY <3>1, Zenon
  <2> QED BY <2>2, <2>3 DEF Combined, And
<1>2. PICK e : /\ \A r : Evaluate(r, t, values) = e[r]
               /\ \A r \in Predicates : e[r] = EvaluateStep(e, r, t, values)
  BY EvaluateIs
<1>3. both.kind = "And" /\ both.of = <<p, q>>
  BY DEF And
<1> HIDE DEF both
<1>4. EvaluateStep(e, both, t, values) <=> \A i \in DOMAIN both.of : e[both.of[i]]
  BY <1>3 DEF EvaluateStep
<1>5. (\A i \in DOMAIN both.of : e[both.of[i]]) <=> e[p] /\ e[q]
  <2>1. DOMAIN both.of = {1, 2} /\ both.of[1] = p /\ both.of[2] = q
    BY <1>3
  <2> QED BY <2>1
<1> QED BY <1>1, <1>2, <1>4, <1>5 DEF both

(* ScanReturnsMatching: one predicate, two of them, or a range of times.       *)
THEOREM SpecScanReturnsMatching == Spec => []ScanReturnsMatching
<1>1. ASSUME ColumnInv PROVE ScanReturnsMatching
  <2> DEFINE col == StoredColumn
             Matching(ps) == Picked(col.points,
                {i \in DOMAIN seen : \A k \in DOMAIN ps : Evaluate(ps[k], seen[i].t, Row(i))})
             P == PREDICATES[Family(type)]
             Nested == {p \in P : p.kind \in {"And", "Or"}}
  <2> SUFFICES ASSUME subject = "statistic", type \notin Unreadable
      PROVE  /\ \A p \in P : ExecuteScan(col, <<p>>).points = Matching(<<p>>)
             /\ \A p \in Nested, q \in Nested :
                   ExecuteScan(col, <<p, q>>).points = Matching(<<p, q>>)
             /\ \A lo \in TIMES, hi \in TIMES :
                   FilterTimeRange(col, lo, hi).points =
                      Matching(<<TimeFilter("Between", <<lo, hi>>)>>)
    BY Zenon DEF ScanReturnsMatching, StoredColumn
  <2>1. type \in TYPES
    BY <1>1 DEF ColumnInv
  <2>2. \A q : Matching(<<q>>) = Picked(col.points, RowsAsked(q))
    <3> SUFFICES ASSUME NEW q
                 PROVE  {i \in DOMAIN seen : \A k \in DOMAIN <<q>> :
                            Evaluate(<<q>>[k], seen[i].t, Row(i))} = RowsAsked(q)
      OBVIOUS
    <3>1. DOMAIN <<q>> = {1} /\ <<q>>[1] = q
      OBVIOUS
    <3> QED BY <3>1 DEF RowsAsked
  <2>3. ASSUME NEW p \in P PROVE ExecuteScan(col, <<p>>).points = Matching(<<p>>)
    <3>1. <<p>> # <<>> /\ Len(<<p>>) = 1 /\ <<p>>[1] = p
      OBVIOUS
    <3>2. ExecuteScan(col, <<p>>) = ScanWithPredicate(col, Simplify(p))
      BY <3>1, Zenon DEF ExecuteScan
    <3>3. p \in Predicates
      BY <2>1, QueriesAre
    <3>4. ScanWithPredicate(col, Simplify(p)).points = Picked(col.points, RowsAsked(p))
      BY <1>1, <2>1, <3>3, ScanAnswers
    <3> HIDE DEF Matching, col
    <3> QED BY <2>2, <3>2, <3>4, Zenon
  <2>4. ASSUME NEW p \in Nested, NEW q \in Nested
        PROVE  ExecuteScan(col, <<p, q>>).points = Matching(<<p, q>>)
    <3>1. <<p, q>> # <<>> /\ Len(<<p, q>>) # 1
      OBVIOUS
    <3>2. ExecuteScan(col, <<p, q>>) = ScanWithPredicate(col, Simplify(And(<<p, q>>)))
      BY <3>1, Zenon DEF ExecuteScan
    <3>3. p \in PredicatesTo[MaxNesting - 1] /\ q \in PredicatesTo[MaxNesting - 1]
      BY <2>1, QueriesAre
    <3>4. And(<<p, q>>) \in Predicates
      BY <3>3, AndIs
    <3>5. ScanWithPredicate(col, Simplify(And(<<p, q>>))).points
             = Picked(col.points, RowsAsked(And(<<p, q>>)))
      BY <1>1, <2>1, <3>4, ScanAnswers
    <3>6. RowsAsked(And(<<p, q>>)) =
             {i \in DOMAIN seen : \A k \in DOMAIN <<p, q>> :
                 Evaluate(<<p, q>>[k], seen[i].t, Row(i))}
      <4>1. DOMAIN <<p, q>> = {1, 2} /\ <<p, q>>[1] = p /\ <<p, q>>[2] = q
        OBVIOUS
      <4>2. \A i \in DOMAIN seen :
               Evaluate(And(<<p, q>>), seen[i].t, Row(i)) <=>
                  Evaluate(p, seen[i].t, Row(i)) /\ Evaluate(q, seen[i].t, Row(i))
        BY <3>3, AndIs
      <4> QED BY <4>1, <4>2 DEF RowsAsked
    <3> HIDE DEF col
    <3> QED BY <3>2, <3>5, <3>6, Zenon
  <2>5. ASSUME NEW lo \in TIMES, NEW hi \in TIMES
        PROVE  FilterTimeRange(col, lo, hi).points =
                  Matching(<<TimeFilter("Between", <<lo, hi>>)>>)
    <3> DEFINE q == TimeFilter("Between", <<lo, hi>>)
    <3>1. TIMES \subseteq Int
      <4>1. TIMES \subseteq I64Min..I64Max
        BY ColumnAssumption, Zenon
      <4> QED BY <4>1, SizeAssumption
    <3>2. q \in Predicates
      <4>1. q \in Leaves
        BY <3>1 DEF TimeFilter, Leaves, TimeFilters
      <4>2. 0 \in 0..MaxNesting /\ q \in PredicatesTo[0]
        BY <4>1, PredicatesAt, NestingAssumption
      <4> QED BY <4>2, PredicatesWithin
    <3>3. \A i \in DOMAIN seen :
             Evaluate(q, seen[i].t, Row(i)) <=> (seen[i].t >= lo /\ seen[i].t <= hi)
      <4> SUFFICES ASSUME NEW i \in DOMAIN seen
                   PROVE  Evaluate(q, seen[i].t, Row(i)) <=> (seen[i].t >= lo /\ seen[i].t <= hi)
        OBVIOUS
      <4>1. PICK e : /\ \A r : Evaluate(r, seen[i].t, Row(i)) = e[r]
                     /\ \A r \in Predicates : e[r] = EvaluateStep(e, r, seen[i].t, Row(i))
        BY EvaluateIs
      <4>2. q.kind = "Time" /\ q.filter.op = "Between" /\ q.filter.args = <<lo, hi>>
        BY DEF TimeFilter
      <4> HIDE DEF q
      <4>3. EvaluateStep(e, q, seen[i].t, Row(i)) <=> TimeMatches(q.filter, seen[i].t)
        BY <4>2 DEF EvaluateStep
      <4>4. TimeMatches(q.filter, seen[i].t) <=> (seen[i].t >= lo /\ seen[i].t <= hi)
        BY <4>2 DEF TimeMatches
      <4> QED BY <3>2, <4>1, <4>3, <4>4
    <3>4. \A i \in DOMAIN seen : col.points[i].t = seen[i].t
      BY <1>1, <2>1, StoredRows
    <3>5. DOMAIN col.points = DOMAIN seen
      BY <1>1, <2>1, StoredRows
    <3>6. {i \in DOMAIN col.points : col.points[i].t >= lo /\ col.points[i].t <= hi}
             = RowsAsked(q)
      <4> HIDE DEF q, col
      <4> QED BY <3>3, <3>4, <3>5 DEF RowsAsked
    <3>7. FilterTimeRange(col, lo, hi) =
             [col EXCEPT !.points = Picked(@, {i \in DOMAIN @ : @[i].t >= lo /\ @[i].t <= hi})]
      BY Zenon DEF FilterTimeRange
    <3>8. FilterTimeRange(col, lo, hi).points =
             Picked(col.points,
                {i \in DOMAIN col.points : col.points[i].t >= lo /\ col.points[i].t <= hi})
      BY <3>7 DEF StoredColumn
    <3> HIDE DEF col, Matching
    <3> QED BY <2>2, <3>6, <3>8, Zenon
  <2> QED BY <2>3, <2>4, <2>5
<1> QED BY <1>1, ColumnHolds, PTL

-------------------------------------------------------------------------------
(* A tablet has a vector and a bitmap for each column.                         *)
Formed(tb) ==
    /\ tb = [device |-> tb.device, columns |-> tb.columns, max_rows |-> tb.max_rows,
             aligned |-> tb.aligned, timestamps |-> tb.timestamps,
             values |-> tb.values, bitmaps |-> tb.bitmaps]
    /\ tb.columns \in Seq([name : Seq(STRING), type : STRING]) /\ tb.max_rows \in Nat
    /\ tb.values \in [DOMAIN tb.columns -> Seq(Int)]
    /\ tb.bitmaps \in [DOMAIN tb.columns -> [nulls : SUBSET Nat, size : {tb.max_rows}]]

(* No column has more values than there are rows, nor a null beyond them.      *)
Bounded(tb) ==
    /\ tb.timestamps \in Seq(Stamps) /\ Len(tb.timestamps) <= tb.max_rows
    /\ \A c \in DOMAIN tb.columns :
          /\ Len(tb.values[c]) <= Len(tb.timestamps)
          /\ tb.bitmaps[c].nulls \subseteq 1..Len(tb.timestamps)

(* The tablet holds the rows of h.                                             *)
Rows == Seq([t : Stamps, cells : Seq(Cells)])

Filled(tb, h) ==
    /\ Len(h) = Len(tb.timestamps)
    /\ \A i \in 1..Len(h) : h[i].t = tb.timestamps[i]
    /\ \A c \in DOMAIN tb.columns :
          /\ Len(tb.values[c]) = Len(tb.timestamps)
          /\ \A i \in 1..Len(h) :
                /\ tb.values[c][i] = Number(h[i].cells[c])
                /\ i \in tb.bitmaps[c].nulls <=> h[i].cells[c] = <<>>

HasRows(tb, h, lost) ==
    /\ Formed(tb) /\ Bounded(tb) /\ h \in Rows /\ lost \in BOOLEAN
    /\ lost => \E c \in DOMAIN tb.columns : Len(tb.values[c]) < Len(tb.timestamps)
    /\ ~lost => Filled(tb, h)

LEMMA FunctionsAreSequences ==
    ASSUME NEW S, NEW n \in Nat, NEW f \in [1..n -> S]
    PROVE  f \in Seq(S) /\ Len(f) = n
OBVIOUS

LEMMA CellsAre ==
    ASSUME NEW x \in Cells PROVE Number(x) \in Int
BY TabletAssumption DEF Cells, TsValue, Number

(* Cells that are pushed are at the end of their columns, and their nulls in   *)
(* the bits from the row on.                                                   *)
Ends(p, tb, row, columns) ==
    /\ p = [device |-> tb.device, columns |-> tb.columns, max_rows |-> tb.max_rows,
            aligned |-> tb.aligned, timestamps |-> tb.timestamps,
            values |-> p.values, bitmaps |-> p.bitmaps]
    /\ p.values \in [DOMAIN tb.columns -> Seq(Int)]
    /\ p.bitmaps \in [DOMAIN tb.columns -> [nulls : SUBSET Nat, size : {tb.max_rows}]]
    /\ \A c \in DOMAIN tb.columns :
          /\ Len(p.values[c]) = Len(tb.values[c]) + Len(columns[c])
          /\ \A i \in 1..Len(tb.values[c]) : p.values[c][i] = tb.values[c][i]
          /\ \A i \in 1..Len(columns[c]) :
                p.values[c][Len(tb.values[c]) + i] = Number(columns[c][i])
          /\ \A x \in p.bitmaps[c].nulls :
                x \in tb.bitmaps[c].nulls \/ (row <= x /\ x < row + Len(columns[c]))
          /\ \A x \in 1..(row - 1) :
                x \in p.bitmaps[c].nulls <=> x \in tb.bitmaps[c].nulls
          /\ \A i \in 1..Len(columns[c]) : row + i - 1 <= tb.max_rows =>
                (row + i - 1 \in p.bitmaps[c].nulls <=> columns[c][i] = <<>>)

LEMMA PushedIs ==
    ASSUME NEW tb, Formed(tb),
           NEW row \in Nat \ {0}, NEW columns \in Seq(Seq(Cells)),
           Len(columns) = Len(tb.columns)
    PROVE  Ends(Pushed(tb, row, columns), tb, row, columns)
<1> DEFINE D == DOMAIN tb.columns
           rows(where) == {row + i - 1 : i \in where} \cap 1..tb.max_rows
           Bits(c) == (tb.bitmaps[c].nulls \ rows(DOMAIN columns[c])) \cup
                         rows({i \in DOMAIN columns[c] : columns[c][i] = <<>>})
           nums(c) == [i \in DOMAIN columns[c] |-> Number(columns[c][i])]
           p == Pushed(tb, row, columns)
<1> USE DEF Formed
<1>0. \A v \in Seq(Int), n \in Seq(Int) :
         /\ v \o n \in Seq(Int) /\ Len(v \o n) = Len(v) + Len(n)
         /\ \A i \in 1..Len(v) : (v \o n)[i] = v[i]
         /\ \A i \in 1..Len(n) : (v \o n)[Len(v) + i] = n[i]
  BY SMTT(30)
<1>1. D = DOMAIN columns /\ D = DOMAIN tb.values /\ D = DOMAIN tb.bitmaps
  OBVIOUS
<1>2. p = [tb EXCEPT
              !.values = [c \in D |-> tb.values[c] \o nums(c)],
              !.bitmaps = [c \in D |-> [tb.bitmaps[c] EXCEPT !.nulls = Bits(c)]]]
  <2>1. \A c \in D : tb.bitmaps[c].size = tb.max_rows
    OBVIOUS
  <2> QED BY <1>1, <2>1 DEF Pushed
<1>3. p = [device |-> tb.device, columns |-> tb.columns, max_rows |-> tb.max_rows,
           aligned |-> tb.aligned, timestamps |-> tb.timestamps,
           values |-> [c \in D |-> tb.values[c] \o nums(c)],
           bitmaps |-> [c \in D |-> [tb.bitmaps[c] EXCEPT !.nulls = Bits(c)]]]
  <2> HIDE DEF p, nums, Bits, D
  <2> QED BY <1>2
<1>4. ASSUME NEW c \in D
      PROVE  /\ nums(c) \in Seq(Int) /\ Len(nums(c)) = Len(columns[c])
             /\ columns[c] \in Seq(Cells) /\ tb.values[c] \in Seq(Int)
             /\ \A i \in 1..Len(columns[c]) : nums(c)[i] = Number(columns[c][i])
  <2>1. columns[c] \in Seq(Cells)
    BY <1>1
  <2>2. \A i \in DOMAIN columns[c] : Number(columns[c][i]) \in Int
    <3>1. \A i \in DOMAIN columns[c] : columns[c][i] \in Cells
      BY <2>1
    <3> QED BY <3>1, CellsAre, Zenon
  <2>3. Len(columns[c]) \in Nat /\ DOMAIN columns[c] = 1..Len(columns[c])
    BY <2>1
  <2>4. nums(c) \in [1..Len(columns[c]) -> Int]
    BY <2>2, <2>3, Zenon
  <2>5. nums(c) \in Seq(Int) /\ Len(nums(c)) = Len(columns[c])
    <3> HIDE DEF nums
    <3> QED BY <2>3, <2>4, FunctionsAreSequences
  <2>6. tb.values[c] \in Seq(Int)
    BY <1>1
  <2> QED BY <2>1, <2>3, <2>5, <2>6
<1>5. ASSUME NEW c \in D
      PROVE  /\ tb.values[c] \o nums(c) \in Seq(Int)
             /\ Len(tb.values[c] \o nums(c)) = Len(tb.values[c]) + Len(columns[c])
             /\ \A i \in 1..Len(tb.values[c]) : (tb.values[c] \o nums(c))[i] = tb.values[c][i]
             /\ \A i \in 1..Len(columns[c]) :
                   (tb.values[c] \o nums(c))[Len(tb.values[c]) + i] = Number(columns[c][i])
  <2> DEFINE n == nums(c)
             v == tb.values[c]
  <2>1. /\ n \in Seq(Int) /\ Len(n) = Len(columns[c]) /\ v \in Seq(Int)
        /\ \A i \in 1..Len(columns[c]) : n[i] = Number(columns[c][i])
    BY <1>4
  <2> HIDE DEF n, v
  <2>2. /\ v \o n \in Seq(Int) /\ Len(v \o n) = Len(v) + Len(n)
        /\ \A i \in 1..Len(v) : (v \o n)[i] = v[i]
        /\ \A i \in 1..Len(n) : (v \o n)[Len(v) + i] = n[i]
    BY <1>0, <2>1
  <2> QED BY <2>1, <2>2 DEF n, v
<1>6. ASSUME NEW c \in D
      PROVE  /\ Bits(c) \in SUBSET Nat
             /\ \A x \in Bits(c) :
                   x \in tb.bitmaps[c].nulls \/ (row <= x /\ x < row + Len(columns[c]))
             /\ \A x \in 1..(row - 1) : x \in Bits(c) <=> x \in tb.bitmaps[c].nulls
             /\ \A i \in 1..Len(columns[c]) : row + i - 1 <= tb.max_rows =>
                   (row + i - 1 \in Bits(c) <=> columns[c][i] = <<>>)
  <2> DEFINE old == tb.bitmaps[c].nulls
             cells == columns[c]
             n == Len(cells)
             max == tb.max_rows
             all == rows(DOMAIN cells)
             nul == rows({i \in DOMAIN cells : cells[i] = <<>>})
  <2>1. n \in Nat /\ DOMAIN cells = 1..n /\ old \in SUBSET Nat /\ max \in Nat
    BY <1>4
  <2>2. \A x : x \in all <=> x \in 1..max /\ \E i \in 1..n : x = row + i - 1
    BY <2>1
  <2>3. \A x : x \in nul <=> x \in 1..max /\ \E i \in 1..n : x = row + i - 1 /\ cells[i] = <<>>
    BY <2>1
  <2>4. Bits(c) = (old \ all) \cup nul
    OBVIOUS
  <2> DEFINE bits == Bits(c)
  <2>5. bits = (old \ all) \cup nul
    BY <2>4
  <2> HIDE DEF bits, all, nul, n, max, old, cells
  <2>6. bits \in SUBSET Nat
    BY SMTT(30), <2>1, <2>3, <2>5
  <2>7. \A x \in bits : x \in old \/ (row <= x /\ x < row + n)
    BY SMTT(30), <2>1, <2>3, <2>5
  <2>8. \A x \in 1..(row - 1) : x \in bits <=> x \in old
    BY SMTT(30), <2>1, <2>2, <2>3, <2>5
  <2>9. ASSUME NEW i \in 1..n, row + i - 1 <= max
        PROVE  row + i - 1 \in bits <=> cells[i] = <<>>
    <3>1. row + i - 1 \in 1..max /\ row + i - 1 \in all
      BY SMTT(30), <2>1, <2>2, <2>9
    <3>2. \A j \in 1..n : row + i - 1 = row + j - 1 => i = j
      BY <2>1
    <3>3. row + i - 1 \in nul <=> cells[i] = <<>>
      BY <2>3, <3>1, <3>2
    <3> QED BY <2>5, <3>1, <3>3
  <2> QED BY <2>6, <2>7, <2>8, <2>9 DEF bits, n, max, old, cells
<1> HIDE DEF p, nums, Bits
<1>7. /\ p.values = [c \in D |-> tb.values[c] \o nums(c)]
      /\ p.bitmaps = [c \in D |-> [tb.bitmaps[c] EXCEPT !.nulls = Bits(c)]]
  BY <1>3
<1>8. p.values \in [D -> Seq(Int)]
  BY <1>5, <1>7
<1>9. \A c \in D : [tb.bitmaps[c] EXCEPT !.nulls = Bits(c)] =
                      [nulls |-> Bits(c), size |-> tb.max_rows]
  <2>1. \A x \in [nulls : SUBSET Nat, size : {tb.max_rows}] : \A y :
           [x EXCEPT !.nulls = y] = [nulls |-> y, size |-> tb.max_rows]
    OBVIOUS
  <2> QED BY <1>1, <2>1
<1>10. \A c \in D : p.bitmaps[c].nulls = Bits(c)
  BY <1>7, <1>9
<1>11. p.bitmaps \in [D -> [nulls : SUBSET Nat, size : {tb.max_rows}]]
  <2>1. \A c \in D : [nulls |-> Bits(c), size |-> tb.max_rows]
                        \in [nulls : SUBSET Nat, size : {tb.max_rows}]
    BY <1>6
  <2> DEFINE R == [nulls : SUBSET Nat, size : {tb.max_rows}]
             b == p.bitmaps
  <2>2. \A c \in D : b[c] \in R
    BY <1>7, <1>9, <2>1, Zenon
  <2>3. b = [c \in D |-> b[c]]
    BY <1>7
  <2>4. b \in [D -> R]
    <3> HIDE DEF b, R, D
    <3> QED BY <2>2, <2>3
  <2> QED BY <2>4
<1>12. p = [device |-> tb.device, columns |-> tb.columns, max_rows |-> tb.max_rows,
            aligned |-> tb.aligned, timestamps |-> tb.timestamps,
            values |-> p.values, bitmaps |-> p.bitmaps]
  BY <1>3, <1>7, Zenon
<1>13. ASSUME NEW c \in D
       PROVE  /\ Len(p.values[c]) = Len(tb.values[c]) + Len(columns[c])
              /\ \A i \in 1..Len(tb.values[c]) : p.values[c][i] = tb.values[c][i]
              /\ \A i \in 1..Len(columns[c]) :
                    p.values[c][Len(tb.values[c]) + i] = Number(columns[c][i])
  <2>1. p.values[c] = tb.values[c] \o nums(c)
    BY <1>7
  <2> QED BY <1>5, <2>1, Zenon
<1>14. ASSUME NEW c \in D
       PROVE  /\ \A x \in p.bitmaps[c].nulls :
                    x \in tb.bitmaps[c].nulls \/ (row <= x /\ x < row + Len(columns[c]))
              /\ \A x \in 1..(row - 1) :
                    x \in p.bitmaps[c].nulls <=> x \in tb.bitmaps[c].nulls
              /\ \A i \in 1..Len(columns[c]) : row + i - 1 <= tb.max_rows =>
                    (row + i - 1 \in p.bitmaps[c].nulls <=> columns[c][i] = <<>>)
  BY <1>6, <1>10, Zenon
<1>15. Ends(p, tb, row, columns)
  BY <1>8, <1>11, <1>12, <1>13, <1>14, Zenon DEF Ends
<1> QED BY <1>15 DEF p

(* The cells of a column that are taken: all of them, or fewer.                *)
LEMMA FittingIs ==
    ASSUME NEW column, NEW cells \in Seq(Cells)
    PROVE  LET f == Fitting(column, cells)
           IN  /\ f \in Seq(Cells) /\ Len(f) <= Len(cells)
               /\ \/ f = cells /\ \A i \in DOMAIN cells : Accepts(column, cells[i])
                  \/ Len(f) < Len(cells)
<1> DEFINE n == Len(cells)
           bad == {i \in DOMAIN cells : ~Accepts(column, cells[i])}
           m == Min(bad)
<1>1. n \in Nat /\ DOMAIN cells = 1..n
  OBVIOUS
<1>2. CASE bad = {}
  BY <1>1, <1>2 DEF Fitting
<1>3. CASE bad # {}
  <2>1. m \in 1..n
    <3>1. bad \in SUBSET Nat /\ bad \subseteq 1..n
      BY <1>1
    <3> HIDE DEF bad
    <3>2. \E x \in bad : \A y \in bad : x <= y
      BY <1>3, <3>1, LeastNumber
    <3> QED BY <3>1, <3>2 DEF Min
  <2>2. Fitting(column, cells) = SubSeq(cells, 1, m - 1)
    BY <1>3 DEF Fitting
  <2> HIDE DEF m
  <2>3. SubSeq(cells, 1, m - 1) \in Seq(Cells) /\ Len(SubSeq(cells, 1, m - 1)) = m - 1
    BY <1>1, <2>1
  <2> QED BY <1>1, <2>1, <2>2, <2>3
<1> QED BY <1>2, <1>3

(* Columns are taken whole, or some of them are taken short.                   *)
Takes(answer, tb, row, columns, k, taken) ==
    /\ answer = [tab |-> Pushed(tb, row, taken), out |-> answer.out]
    /\ taken \in Seq(Seq(Cells)) /\ Len(taken) = Len(columns)
    /\ \A c \in DOMAIN taken : Len(taken[c]) <= k
    /\ \/ /\ answer.out = "ok" /\ taken = columns
          /\ \A c \in DOMAIN columns : \A i \in DOMAIN columns[c] :
                Accepts(tb.columns[c], columns[c][i])
       \/ answer.out = "err" /\ \E c \in DOMAIN taken : Len(taken[c]) < k

LEMMA PushColumnsIs ==
    ASSUME NEW tb, NEW row, NEW k \in Nat, NEW columns \in Seq(Seq(Cells)),
           \A c \in DOMAIN columns : Len(columns[c]) = k
    PROVE  \E taken : Takes(PushColumns(tb, row, columns), tb, row, columns, k, taken)
<1> DEFINE D == DOMAIN columns
           fitting == [c \in D |-> Fitting(tb.columns[c], columns[c])]
           short == {c \in D : fitting[c] # columns[c]}
           m == Min(short)
           taken == [c \in D |-> IF short = {} \/ c <= m THEN fitting[c] ELSE <<>>]
           answer == PushColumns(tb, row, columns)
<1>1. D = 1..Len(columns) /\ Len(columns) \in Nat
  OBVIOUS
<1>2. \A c \in D : /\ fitting[c] \in Seq(Cells) /\ Len(fitting[c]) <= k
                   /\ \/ /\ fitting[c] = columns[c]
                         /\ \A i \in DOMAIN columns[c] : Accepts(tb.columns[c], columns[c][i])
                      \/ Len(fitting[c]) < k
  <2> SUFFICES ASSUME NEW c \in D
      PROVE  /\ fitting[c] \in Seq(Cells) /\ Len(fitting[c]) <= k
             /\ \/ /\ fitting[c] = columns[c]
                   /\ \A i \in DOMAIN columns[c] : Accepts(tb.columns[c], columns[c][i])
                \/ Len(fitting[c]) < k
    OBVIOUS
  <2>1. columns[c] \in Seq(Cells) /\ Len(columns[c]) = k
    OBVIOUS
  <2>2. fitting[c] = Fitting(tb.columns[c], columns[c])
    OBVIOUS
  <2> HIDE DEF fitting
  <2> QED BY <2>1, <2>2, FittingIs
<1>3. answer = [tab |-> Pushed(tb, row, taken), out |-> IF short = {} THEN "ok" ELSE "err"]
  BY Zenon DEF PushColumns, Answer
<1> HIDE DEF fitting, answer
<1>4. \A c \in D : taken[c] \in Seq(Cells) /\ Len(taken[c]) <= k
  <2> SUFFICES ASSUME NEW c \in D PROVE taken[c] \in Seq(Cells) /\ Len(taken[c]) <= k
    OBVIOUS
  <2>1. taken[c] = fitting[c] \/ taken[c] = <<>>
    OBVIOUS
  <2>2. <<>> \in Seq(Cells) /\ Len(<<>>) = 0
    OBVIOUS
  <2>3. CASE taken[c] = fitting[c]
    BY <1>2, <2>3, Zenon
  <2>4. CASE taken[c] = <<>>
    <3>1. 0 <= k
      OBVIOUS
    <3> HIDE DEF taken
    <3> QED BY <2>2, <2>4, <3>1, Zenon
  <2> QED BY <2>1, <2>3, <2>4
<1>5. taken \in Seq(Seq(Cells)) /\ Len(taken) = Len(columns) /\ DOMAIN taken = D
  <2>1. taken \in [1..Len(columns) -> Seq(Cells)]
    <3>1. taken = [c \in D |-> taken[c]]
      OBVIOUS
    <3> HIDE DEF taken
    <3> QED BY <1>1, <1>4, <3>1
  <2> HIDE DEF taken
  <2> QED BY <1>1, <2>1, FunctionsAreSequences
<1>6. CASE short = {}
  <2>1. taken = columns
    <3>1. \A c \in D : taken[c] = columns[c]
      BY <1>6
    <3>2. taken = [c \in D |-> taken[c]] /\ columns = [c \in D |-> columns[c]]
      BY <1>5
    <3>3. [c \in D |-> taken[c]] = [c \in D |-> columns[c]]
      <4> HIDE DEF taken
      <4> QED BY <3>1
    <3> HIDE DEF taken
    <3> QED BY <3>2, <3>3, Zenon
  <2> HIDE DEF taken
  <2>2. \A c \in D : \A i \in DOMAIN columns[c] : Accepts(tb.columns[c], columns[c][i])
    BY <1>2, <1>6
  <2>3. Takes(answer, tb, row, columns, k, taken)
    BY <1>3, <1>4, <1>5, <1>6, <2>1, <2>2 DEF Takes
  <2> QED BY <2>3, Zenon DEF answer
<1>7. CASE short # {}
  <2>1. m \in short
    <3>1. short \in SUBSET Nat
      BY <1>1
    <3> HIDE DEF short
    <3>2. \E x \in short : \A y \in short : x <= y
      BY <1>7, <3>1, LeastNumber
    <3> QED BY <3>2 DEF Min
  <2>2. m \in D /\ m \in Nat
    BY <1>1, <2>1
  <2>3. Len(taken[m]) < k
    <3>1. taken[m] = fitting[m]
      BY <2>2
    <3>2. fitting[m] # columns[m]
      BY <2>1
    <3> HIDE DEF taken, m
    <3> QED BY <1>2, <2>2, <3>1, <3>2
  <2> HIDE DEF taken, m, short
  <2>4. Takes(answer, tb, row, columns, k, taken)
    BY <1>3, <1>4, <1>5, <1>7, <2>2, <2>3 DEF Takes
  <2> QED BY <2>4, Zenon DEF answer
<1> QED BY <1>6, <1>7

(* A tablet to which rows are added: with all of their cells it has them too,  *)
(* and without it has a column that is short.                                  *)
Adding(tb, times) == [tb EXCEPT !.timestamps = @ \o times]

LEMMA AddingIs ==
    ASSUME NEW tb, Formed(tb), NEW times
    PROVE  LET e == Adding(tb, times)
           IN  /\ e = [device |-> tb.device, columns |-> tb.columns, max_rows |-> tb.max_rows,
                       aligned |-> tb.aligned, timestamps |-> tb.timestamps \o times,
                       values |-> tb.values, bitmaps |-> tb.bitmaps]
               /\ Formed(e)
<1> DEFINE e == Adding(tb, times)
           new == tb.timestamps \o times
<1>1. tb = [device |-> tb.device, columns |-> tb.columns, max_rows |-> tb.max_rows,
            aligned |-> tb.aligned, timestamps |-> tb.timestamps,
            values |-> tb.values, bitmaps |-> tb.bitmaps]
  BY DEF Formed
<1>2. e = [tb EXCEPT !.timestamps = new]
  BY DEF Adding
<1> HIDE DEF new, e
<1>3. e = [device |-> tb.device, columns |-> tb.columns, max_rows |-> tb.max_rows,
           aligned |-> tb.aligned, timestamps |-> new,
           values |-> tb.values, bitmaps |-> tb.bitmaps]
  BY <1>1, <1>2
<1>4. Formed(e)
  BY <1>3 DEF Formed
<1> QED BY <1>3, <1>4 DEF e, new

(* As many rows as there are times, as columns of that many cells.             *)
Offers(tb, times, k, columns, rows) ==
    /\ times \in Seq(Stamps) /\ k \in Nat \ {0} /\ Len(times) = k
    /\ Len(tb.timestamps) + k <= tb.max_rows
    /\ columns \in Seq(Seq(Cells)) /\ Len(columns) = Len(tb.columns)
    /\ \A c \in DOMAIN columns : Len(columns[c]) = k
    /\ rows \in Rows /\ Len(rows) = k
    /\ \A i \in 1..k : /\ rows[i].t = times[i]
                       /\ \A c \in DOMAIN columns : rows[i].cells[c] = columns[c][i]

LEMMA AddingHolds ==
    ASSUME NEW tb, NEW h, NEW lost, HasRows(tb, h, lost),
           NEW times, NEW k, NEW columns, NEW rows, Offers(tb, times, k, columns, rows),
           NEW answer, NEW taken,
           Takes(answer, Adding(tb, times), Len(tb.timestamps) + 1, columns, k, taken)
    PROVE  /\ answer.out \in {"ok", "err"} /\ answer.tab.columns = tb.columns
           /\ answer.tab.timestamps # tb.timestamps
           /\ answer.out = "ok" => HasRows(answer.tab, h \o rows, lost)
           /\ answer.out = "err" => HasRows(answer.tab, h, TRUE)
<1> DEFINE n == Len(tb.timestamps)
           e == Adding(tb, times)
           p == answer.tab
           D == DOMAIN tb.columns
<1> USE DEF Offers
<1>1. /\ Formed(tb) /\ Bounded(tb) /\ h \in Rows /\ lost \in BOOLEAN
      /\ tb.timestamps \in Seq(Stamps) /\ n \in Nat
  BY DEF HasRows, Bounded
<1>2. e = [device |-> tb.device, columns |-> tb.columns, max_rows |-> tb.max_rows,
           aligned |-> tb.aligned, timestamps |-> tb.timestamps \o times,
           values |-> tb.values, bitmaps |-> tb.bitmaps]
  BY <1>1, AddingIs
<1>3. /\ tb.timestamps \o times \in Seq(Stamps) /\ Len(tb.timestamps \o times) = n + k
      /\ \A i \in 1..n : (tb.timestamps \o times)[i] = tb.timestamps[i]
      /\ \A i \in 1..k : (tb.timestamps \o times)[n + i] = times[i]
  <2>1. \A a \in Seq(Stamps), b \in Seq(Stamps) :
           /\ a \o b \in Seq(Stamps) /\ Len(a \o b) = Len(a) + Len(b)
           /\ \A i \in 1..Len(a) : (a \o b)[i] = a[i]
           /\ \A i \in 1..Len(b) : (a \o b)[Len(a) + i] = b[i]
    OBVIOUS
  <2>2. /\ tb.timestamps \o times \in Seq(Stamps)
        /\ Len(tb.timestamps \o times) = Len(tb.timestamps) + Len(times)
        /\ \A i \in 1..Len(tb.timestamps) : (tb.timestamps \o times)[i] = tb.timestamps[i]
        /\ \A i \in 1..Len(times) :
              (tb.timestamps \o times)[Len(tb.timestamps) + i] = times[i]
    <3>1. tb.timestamps \in Seq(Stamps) /\ times \in Seq(Stamps)
      BY <1>1
    <3> QED BY <2>1, <3>1, Zenon
  <2>3. Len(times) = k
    OBVIOUS
  <2> QED BY <2>2, <2>3, Zenon
<1> DEFINE ts == tb.timestamps \o times
<1> HIDE DEF e, ts, n
<1>4. Formed(e) /\ e.columns = tb.columns /\ e.values = tb.values /\ e.bitmaps = tb.bitmaps
      /\ e.max_rows = tb.max_rows /\ e.timestamps = ts
  BY <1>1, <1>2 DEF Formed, ts
<1>5. /\ p = Pushed(e, n + 1, taken) /\ answer.out \in {"ok", "err"}
      /\ taken \in Seq(Seq(Cells)) /\ Len(taken) = Len(columns)
      /\ \A c \in DOMAIN taken : Len(taken[c]) <= k
      /\ answer.out = "ok" => taken = columns
      /\ answer.out = "err" => \E c \in DOMAIN taken : Len(taken[c]) < k
  <2>1. answer = [tab |-> Pushed(e, n + 1, taken), out |-> answer.out]
    BY DEF Takes, e, n
  <2>2. answer.tab = Pushed(e, n + 1, taken)
    BY <2>1
  <2> QED BY <2>2 DEF Takes
<1>6. Ends(p, e, n + 1, taken)
  <2>1. n + 1 \in Nat \ {0} /\ Len(taken) = Len(e.columns)
    BY <1>1, <1>4, <1>5
  <2> QED BY <1>4, <1>5, <2>1, PushedIs
<1> HIDE DEF p
<1>7. /\ p = [device |-> e.device, columns |-> e.columns, max_rows |-> e.max_rows,
              aligned |-> e.aligned, timestamps |-> e.timestamps,
              values |-> p.values, bitmaps |-> p.bitmaps]
      /\ p.values \in [D -> Seq(Int)]
      /\ p.bitmaps \in [D -> [nulls : SUBSET Nat, size : {tb.max_rows}]]
  BY <1>4, <1>6, Zenon DEF Ends
<1>8. /\ p.columns = tb.columns /\ p.max_rows = tb.max_rows /\ p.timestamps = ts
  BY <1>4, <1>7
<1>9. Formed(p)
  <2>1. p = [device |-> p.device, columns |-> p.columns, max_rows |-> p.max_rows,
             aligned |-> p.aligned, timestamps |-> p.timestamps,
             values |-> p.values, bitmaps |-> p.bitmaps]
    BY <1>7
  <2> QED BY <1>1, <1>7, <1>8, <2>1, Zenon DEF Formed
<1>10. DOMAIN taken = D /\ DOMAIN columns = D
  BY <1>1, <1>5 DEF Formed
<1>11. \A c \in D :
          /\ Len(tb.values[c]) \in Nat /\ Len(tb.values[c]) <= n /\ Len(taken[c]) \in Nat
          /\ Len(taken[c]) <= k /\ Len(p.values[c]) = Len(tb.values[c]) + Len(taken[c])
          /\ tb.bitmaps[c].nulls \subseteq 1..n
  <2> SUFFICES ASSUME NEW c \in D
      PROVE  /\ Len(tb.values[c]) \in Nat /\ Len(tb.values[c]) <= n /\ Len(taken[c]) \in Nat
             /\ Len(taken[c]) <= k /\ Len(p.values[c]) = Len(tb.values[c]) + Len(taken[c])
             /\ tb.bitmaps[c].nulls \subseteq 1..n
    OBVIOUS
  <2>1. tb.values[c] \in Seq(Int) /\ taken[c] \in Seq(Cells)
    BY <1>1, <1>5, <1>10 DEF Formed
  <2>2. Len(p.values[c]) = Len(tb.values[c]) + Len(taken[c])
    BY <1>4, <1>6, Zenon DEF Ends
  <2>3. Len(tb.values[c]) <= n /\ tb.bitmaps[c].nulls \subseteq 1..n
    BY <1>1 DEF Bounded, n
  <2>4. Len(taken[c]) <= k
    BY <1>5, <1>10
  <2>5. Len(tb.values[c]) \in Nat /\ Len(taken[c]) \in Nat
    BY <2>1
  <2> QED BY <2>2, <2>3, <2>4, <2>5
<1>12. Bounded(p)
  <2>1. \A c \in D : Len(p.values[c]) <= n + k
    <3> SUFFICES ASSUME NEW c \in D PROVE Len(p.values[c]) <= n + k
      OBVIOUS
    <3> DEFINE a == Len(tb.values[c])
               b == Len(taken[c])
    <3>1. a \in Nat /\ a <= n /\ b \in Nat /\ b <= k /\ Len(p.values[c]) = a + b
      BY <1>11
    <3> HIDE DEF a, b
    <3> QED BY <1>1, <3>1
  <2>2. ASSUME NEW c \in D, NEW x \in p.bitmaps[c].nulls PROVE x \in 1..(n + k)
    <3>1. x \in tb.bitmaps[c].nulls \/ (n + 1 <= x /\ x < n + 1 + Len(taken[c]))
      BY <1>4, <1>6, Zenon DEF Ends
    <3>2. x \in Nat
      BY <1>7
    <3> DEFINE a == Len(taken[c])
    <3>3. a \in Nat /\ a <= k /\ (x \in 1..n \/ (n + 1 <= x /\ x < n + 1 + a))
      BY <1>11, <3>1
    <3> HIDE DEF a
    <3> QED BY <1>1, <3>2, <3>3
  <2>3. Len(ts) = n + k /\ ts \in Seq(Stamps)
    BY <1>3 DEF ts
  <2>4. n + k <= p.max_rows
    BY <1>8 DEF n
  <2>5. \A c \in DOMAIN p.columns :
           /\ Len(p.values[c]) <= Len(p.timestamps)
           /\ p.bitmaps[c].nulls \subseteq 1..Len(p.timestamps)
    BY <1>8, <2>1, <2>2, <2>3
  <2> QED BY <1>8, <2>3, <2>4, <2>5, Zenon DEF Bounded
<1>13. lost => \E c \in D : Len(p.values[c]) < n + k
  <2> SUFFICES ASSUME lost PROVE \E c \in D : Len(p.values[c]) < n + k
    OBVIOUS
  <2>1. PICK c \in D : Len(tb.values[c]) < n
    BY DEF HasRows, n
  <2> DEFINE a == Len(tb.values[c])
             b == Len(taken[c])
  <2>2. a \in Nat /\ a <= n /\ b \in Nat /\ b <= k /\ Len(p.values[c]) = a + b
    BY <1>11
  <2>3. a < n \/ b < k
    BY <2>1
  <2> HIDE DEF a, b
  <2>4. Len(p.values[c]) < n + k
    BY <1>1, <2>2, <2>3
  <2> QED BY <2>4
<1>14. ~lost => Filled(tb, h)
  BY DEF HasRows
<1>15. ~lost /\ answer.out = "err" => \E c \in D : Len(p.values[c]) < n + k
  <2> SUFFICES ASSUME ~lost, answer.out = "err" PROVE \E c \in D : Len(p.values[c]) < n + k
    OBVIOUS
  <2>1. PICK c \in D : Len(taken[c]) < k
    BY <1>5, <1>10
  <2> DEFINE a == Len(tb.values[c])
             b == Len(taken[c])
  <2>2. a \in Nat /\ a <= n /\ b \in Nat /\ b <= k /\ Len(p.values[c]) = a + b
    BY <1>11
  <2>3. a < n \/ b < k
    BY <2>1
  <2> HIDE DEF a, b
  <2>4. Len(p.values[c]) < n + k
    BY <1>1, <2>2, <2>3
  <2> QED BY <2>4
<1>16. ~lost /\ answer.out = "ok" => h \o rows \in Rows /\ Filled(p, h \o rows)
  <2> SUFFICES ASSUME ~lost, answer.out = "ok" PROVE h \o rows \in Rows /\ Filled(p, h \o rows)
    OBVIOUS
  <2>1. Filled(tb, h) /\ taken = columns
    BY <1>5, <1>14
  <2>2. Len(h) = n
    BY <2>1 DEF Filled, n
  <2>3. /\ h \o rows \in Rows /\ Len(h \o rows) = n + k
        /\ \A i \in 1..n : (h \o rows)[i] = h[i]
        /\ \A i \in 1..k : (h \o rows)[n + i] = rows[i]
    <3>1. \A a \in Rows, b \in Rows :
             /\ a \o b \in Rows /\ Len(a \o b) = Len(a) + Len(b)
             /\ \A i \in 1..Len(a) : (a \o b)[i] = a[i]
             /\ \A i \in 1..Len(b) : (a \o b)[Len(a) + i] = b[i]
      BY DEF Rows
    <3>2. h \in Rows /\ rows \in Rows /\ Len(h) = n /\ Len(rows) = k
      BY <1>1, <2>2
    <3>3. /\ h \o rows \in Rows /\ Len(h \o rows) = Len(h) + Len(rows)
          /\ \A i \in 1..Len(h) : (h \o rows)[i] = h[i]
          /\ \A i \in 1..Len(rows) : (h \o rows)[Len(h) + i] = rows[i]
      BY <3>1, <3>2, Zenon
    <3>4. Len(h) = n /\ Len(rows) = k
      BY <3>2
    <3> QED BY <3>3, <3>4, Zenon
  <2> DEFINE g == h \o rows
  <2> HIDE DEF g
  <2>4. g \in Rows /\ Len(g) = n + k
    BY <2>3 DEF g
  <2>5. ASSUME NEW i \in 1..(n + k)
        PROVE  \/ i \in 1..n /\ g[i] = h[i] /\ ts[i] = tb.timestamps[i]
               \/ \E j \in 1..k : i = n + j /\ g[i] = rows[j] /\ ts[i] = times[j]
    <3>1. CASE i \in 1..n
      <4>1. ts[i] = tb.timestamps[i] /\ g[i] = h[i]
        BY <1>3, <2>3, <3>1 DEF g, ts
      <4> QED BY <3>1, <4>1
    <3>2. CASE i \notin 1..n
      <4>1. i - n \in 1..k /\ i = n + (i - n)
        BY <1>1, <3>2
      <4> DEFINE j == i - n
      <4>2. g[n + j] = rows[j] /\ ts[n + j] = times[j]
        BY <1>3, <2>3, <4>1 DEF g, ts
      <4> QED BY <4>1, <4>2
    <3> QED BY <3>1, <3>2
  <2>6. \A i \in 1..(n + k) : g[i].t = ts[i]
    <3> SUFFICES ASSUME NEW i \in 1..(n + k) PROVE g[i].t = ts[i]
      OBVIOUS
    <3>1. CASE i \in 1..n /\ g[i] = h[i] /\ ts[i] = tb.timestamps[i]
      BY <2>1, <2>2, <3>1, Zenon DEF Filled
    <3>2. ASSUME NEW j \in 1..k, g[i] = rows[j], ts[i] = times[j] PROVE g[i].t = ts[i]
      BY <3>2, Zenon
    <3> QED BY <2>5, <3>1, <3>2
  <2>7. ASSUME NEW c \in D
        PROVE  /\ Len(p.values[c]) = n + k
               /\ \A i \in 1..(n + k) :
                     /\ p.values[c][i] = Number(g[i].cells[c])
                     /\ i \in p.bitmaps[c].nulls <=> g[i].cells[c] = <<>>
    <3>1. /\ Len(tb.values[c]) = n /\ Len(taken[c]) = k
          /\ \A i \in 1..n : /\ tb.values[c][i] = Number(h[i].cells[c])
                             /\ i \in tb.bitmaps[c].nulls <=> h[i].cells[c] = <<>>
      BY <1>10, <2>1, <2>2 DEF Filled, n
    <3>2. /\ \A i \in 1..n : p.values[c][i] = tb.values[c][i]
          /\ \A i \in 1..k : p.values[c][n + i] = Number(taken[c][i])
          /\ \A x \in 1..(n + 1 - 1) : x \in p.bitmaps[c].nulls <=> x \in tb.bitmaps[c].nulls
          /\ \A i \in 1..k : n + 1 + i - 1 <= tb.max_rows =>
                (n + 1 + i - 1 \in p.bitmaps[c].nulls <=> taken[c][i] = <<>>)
      <4> DEFINE row == n + 1
      <4>1. /\ \A i \in 1..Len(e.values[c]) : p.values[c][i] = e.values[c][i]
            /\ \A i \in 1..Len(taken[c]) :
                  p.values[c][Len(e.values[c]) + i] = Number(taken[c][i])
            /\ \A x \in 1..(row - 1) :
                  x \in p.bitmaps[c].nulls <=> x \in e.bitmaps[c].nulls
            /\ \A i \in 1..Len(taken[c]) : row + i - 1 <= e.max_rows =>
                  (row + i - 1 \in p.bitmaps[c].nulls <=> taken[c][i] = <<>>)
        <5>1. c \in DOMAIN e.columns
          BY <1>4
        <5> QED BY <1>6, <5>1, Zenon DEF Ends
      <4> QED BY <1>4, <3>1, <4>1
    <3>3. Len(p.values[c]) = n + k
      BY <1>11, <3>1
    <3>4. ASSUME NEW i \in 1..n
          PROVE  /\ p.values[c][i] = Number(g[i].cells[c])
                 /\ i \in p.bitmaps[c].nulls <=> g[i].cells[c] = <<>>
      <4>1. g[i] = h[i]
        BY <2>3 DEF g
      <4>2. i \in 1..(n + 1 - 1)
        BY <1>1
      <4> QED BY <3>1, <3>2, <4>1, <4>2, Zenon
    <3>5. ASSUME NEW j \in 1..k
          PROVE  /\ p.values[c][n + j] = Number(g[n + j].cells[c])
                 /\ n + j \in p.bitmaps[c].nulls <=> g[n + j].cells[c] = <<>>
      <4>1. g[n + j] = rows[j] /\ rows[j].cells[c] = taken[c][j]
        BY <1>10, <2>1, <2>3 DEF g
      <4>2. n + 1 + j - 1 = n + j /\ n + j <= tb.max_rows
        <5>1. n + j <= n + k
          BY <1>1
        <5>2. tb.max_rows \in Nat
          BY <1>1 DEF Formed
        <5>3. n + k <= tb.max_rows
          BY DEF n
        <5> QED BY <1>1, <5>1, <5>2, <5>3
      <4> QED BY <3>2, <4>1, <4>2, Zenon
    <3>6. \A i \in 1..(n + k) : i \in 1..n \/ \E j \in 1..k : i = n + j
      BY <2>5
    <3>7. ASSUME NEW i \in 1..(n + k)
          PROVE  /\ p.values[c][i] = Number(g[i].cells[c])
                 /\ i \in p.bitmaps[c].nulls <=> g[i].cells[c] = <<>>
      <4>1. CASE i \in 1..n
        BY <3>4, <4>1, Zenon
      <4>2. ASSUME NEW j \in 1..k, i = n + j
            PROVE  /\ p.values[c][i] = Number(g[i].cells[c])
                   /\ i \in p.bitmaps[c].nulls <=> g[i].cells[c] = <<>>
        BY <3>5, <4>2, Zenon
      <4> QED BY <3>6, <4>1, <4>2, Zenon
    <3> QED BY <3>3, <3>7, Zenon
  <2>8. Len(ts) = n + k
    BY <1>3 DEF ts
  <2>9. Filled(p, g)
    BY <1>8, <2>4, <2>6, <2>7, <2>8, Zenon DEF Filled
  <2> QED BY <2>4, <2>9 DEF g
<1>17. p.timestamps # tb.timestamps
  <2>1. Len(p.timestamps) # Len(tb.timestamps)
    BY <1>1, <1>3, <1>8 DEF ts, n
  <2> QED BY <2>1, Zenon
<1>18. Len(p.timestamps) = n + k
  BY <1>3, <1>8 DEF ts
<1>19. h \o rows \in Rows
  BY <1>1 DEF Rows
<1>20. CASE answer.out = "ok" /\ ~lost
  <2>1. HasRows(p, h \o rows, lost)
    BY <1>1, <1>9, <1>12, <1>16, <1>20, Zenon DEF HasRows
  <2> QED BY <1>8, <1>17, <1>20, <2>1 DEF p
<1>21. CASE answer.out = "err" \/ lost
  <2>1. \E c \in DOMAIN p.columns : Len(p.values[c]) < Len(p.timestamps)
    BY <1>1, <1>8, <1>13, <1>15, <1>18, <1>21
  <2>2. answer.out = "err" => HasRows(p, h, TRUE)
    BY <1>1, <1>9, <1>12, <2>1, Zenon DEF HasRows
  <2>3. lost => HasRows(p, h \o rows, lost)
    BY <1>1, <1>9, <1>12, <1>19, <2>1, Zenon DEF HasRows
  <2> QED BY <1>5, <1>8, <1>17, <1>21, <2>2, <2>3 DEF p
<1> QED BY <1>1, <1>5, <1>20, <1>21

(* A call that fails is of no row; one that changes the tablet leaves it short.*)
Answers(answer, tb, h, lost, rows) ==
    \/ answer.out = "ok" /\ HasRows(answer.tab, h \o rows, lost)
    \/ answer.out = "err" /\ answer.tab = tb
    \/ answer.out = "err" /\ answer.tab # tb /\ HasRows(answer.tab, h, TRUE)

LEMMA RefusedHolds ==
    ASSUME NEW tb, NEW h, NEW lost, NEW rows
    PROVE  Answers(Answer(tb, "err"), tb, h, lost, rows)
BY DEF Answers, Answer

(* A bit that is cleared is no matter to a tablet that is short.               *)
LEMMA ClearedBitHolds ==
    ASSUME NEW tb, NEW h, HasRows(tb, h, TRUE), NEW m \in DOMAIN tb.columns, NEW row
    PROVE  HasRows([tb EXCEPT !.bitmaps[m] = BitMapSet(@, row, FALSE)], h, TRUE)
<1> DEFINE D == DOMAIN tb.columns
           R == [nulls : SUBSET Nat, size : {tb.max_rows}]
           bit == BitMapSet(tb.bitmaps[m], row, FALSE)
           bits == [tb.bitmaps EXCEPT ![m] = bit]
           p == [tb EXCEPT !.bitmaps[m] = BitMapSet(@, row, FALSE)]
<1>1. /\ Formed(tb) /\ Bounded(tb) /\ h \in Rows
      /\ \E c \in D : Len(tb.values[c]) < Len(tb.timestamps)
  BY Zenon DEF HasRows
<1>2. tb.bitmaps \in [D -> R]
  BY <1>1 DEF Formed
<1>3. bit \in R /\ bit.nulls \subseteq tb.bitmaps[m].nulls
  <2> DEFINE x == tb.bitmaps[m]
  <2>1. x \in R
    BY <1>2
  <2> HIDE DEF x
  <2>2. BitMapSet(x, row, FALSE) \in R /\ BitMapSet(x, row, FALSE).nulls \subseteq x.nulls
    BY <2>1 DEF BitMapSet
  <2> QED BY <2>2 DEF x
<1>4. p = [tb EXCEPT !.bitmaps = bits]
  OBVIOUS
<1> HIDE DEF bit
<1>5. /\ bits \in [D -> R]
      /\ \A c \in D : bits[c].nulls \subseteq tb.bitmaps[c].nulls
  BY <1>2, <1>3
<1> HIDE DEF bits, p
<1>6. p = [device |-> tb.device, columns |-> tb.columns, max_rows |-> tb.max_rows,
           aligned |-> tb.aligned, timestamps |-> tb.timestamps,
           values |-> tb.values, bitmaps |-> bits]
  <2>1. tb = [device |-> tb.device, columns |-> tb.columns, max_rows |-> tb.max_rows,
              aligned |-> tb.aligned, timestamps |-> tb.timestamps,
              values |-> tb.values, bitmaps |-> tb.bitmaps]
    BY <1>1 DEF Formed
  <2> QED BY <1>4, <2>1
<1>7. Formed(p)
  BY <1>1, <1>5, <1>6 DEF Formed
<1>8. Bounded(p)
  BY <1>1, <1>5, <1>6 DEF Bounded
<1>9. \E c \in DOMAIN p.columns : Len(p.values[c]) < Len(p.timestamps)
  BY <1>1, <1>6
<1>10. HasRows(p, h, TRUE)
  BY <1>1, <1>7, <1>8, <1>9, Zenon DEF HasRows
<1> QED BY <1>10 DEF p

(* add_row: a cell for each column, or it is refused.                          *)
LEMMA AddRowHolds ==
    ASSUME NEW tb, NEW h, NEW lost, HasRows(tb, h, lost), NEW t \in Stamps,
           NEW cells \in Seq(Cells)
    PROVE  Answers(AddRow(tb, t, cells), tb, h, lost, <<[t |-> t, cells |-> cells]>>)
<1> DEFINE n == Len(tb.timestamps)
           rows == <<[t |-> t, cells |-> cells]>>
           columns == [c \in DOMAIN cells |-> <<cells[c]>>]
           times == <<t>>
           e == Adding(tb, times)
           pushed == PushColumns(e, n + 1, columns)
           bad == {c \in DOMAIN cells : ~Accepts(e.columns[c], cells[c])}
           answer == AddRow(tb, t, cells)
<1>1. Formed(tb) /\ Bounded(tb) /\ tb.timestamps \in Seq(Stamps) /\ n \in Nat
      /\ tb.max_rows \in Nat
  BY DEF HasRows, Bounded, Formed
<1>2. CASE ~MayAddRow(tb, t, cells)
  BY <1>2, RefusedHolds, Zenon DEF AddRow
<1>3. CASE MayAddRow(tb, t, cells)
  <2>1. n + 1 <= tb.max_rows /\ Len(cells) = Len(tb.columns)
    BY <1>1, <1>3 DEF MayAddRow, IsFull, RowCount
  <2>2. answer = PushCells(e, n + 1, cells)
    <3>1. [tb EXCEPT !.timestamps = Append(@, t)] = e
      <4>1. Append(tb.timestamps, t) = tb.timestamps \o <<t>>
        BY <1>1
      <4> QED BY <4>1 DEF Adding
    <3> QED BY <1>3, <3>1 DEF AddRow, RowCount
  <2>3. answer = IF bad = {} THEN pushed
                 ELSE [pushed EXCEPT !.tab.bitmaps[Min(bad)] = BitMapSet(@, n + 1, FALSE)]
    BY <2>2, Zenon DEF PushCells
  <2>4. /\ columns \in Seq(Seq(Cells)) /\ Len(columns) = Len(cells)
        /\ DOMAIN columns = DOMAIN cells
        /\ \A c \in DOMAIN columns : Len(columns[c]) = 1 /\ columns[c][1] = cells[c]
    <3>1. Len(cells) \in Nat /\ DOMAIN cells = 1..Len(cells)
      OBVIOUS
    <3>2. \A c \in DOMAIN cells : <<cells[c]>> \in Seq(Cells)
      OBVIOUS
    <3>3. columns \in [1..Len(cells) -> Seq(Cells)]
      BY <3>1, <3>2
    <3>4. columns \in Seq(Seq(Cells)) /\ Len(columns) = Len(cells)
      <4> HIDE DEF columns
      <4> QED BY <3>1, <3>3, FunctionsAreSequences
    <3> QED BY <3>4
  <2>5. times \in Seq(Stamps) /\ Len(times) = 1 /\ times[1] = t /\ 1 \in Nat \ {0}
    OBVIOUS
  <2>6. rows \in Rows /\ Len(rows) = 1 /\ rows[1].t = t /\ rows[1].cells = cells
    BY DEF Rows
  <2> HIDE DEF columns, times, rows, e
  <2>7. PICK taken : Takes(pushed, e, n + 1, columns, 1, taken)
    BY <2>4, PushColumnsIs
  <2>8. \A i \in 1..1 : rows[i].t = times[i] /\
           \A c \in DOMAIN columns : rows[i].cells[c] = columns[c][i]
    BY <2>4, <2>5, <2>6
  <2>9. Takes(pushed, Adding(tb, times), Len(tb.timestamps) + 1, columns, 1, taken)
    BY <2>7 DEF e
  <2> HIDE DEF pushed
  <2>10. /\ pushed.out \in {"ok", "err"} /\ pushed.tab.columns = tb.columns
         /\ pushed.tab.timestamps # tb.timestamps
         /\ pushed.out = "ok" => HasRows(pushed.tab, h \o rows, lost)
         /\ pushed.out = "err" => HasRows(pushed.tab, h, TRUE)
    <3>1. Len(tb.timestamps) + 1 <= tb.max_rows /\ Len(columns) = Len(tb.columns)
      BY <2>1, <2>4
    <3>2. \A c \in DOMAIN columns : Len(columns[c]) = 1
      BY <2>4
    <3>3. columns \in Seq(Seq(Cells)) /\ times \in Seq(Stamps) /\ Len(times) = 1
          /\ rows \in Rows /\ Len(rows) = 1 /\ 1 \in Nat \ {0}
      BY <2>4, <2>5, <2>6
    <3>4. Offers(tb, times, 1, columns, rows)
      BY <2>8, <3>1, <3>2, <3>3 DEF Offers
    <3> QED BY <2>9, <3>4, AddingHolds, Zenon
  <2>11. CASE bad = {}
    <3>1. answer = pushed
      BY <2>3, <2>11
    <3>2. pushed.tab # tb
      BY <2>10, Zenon
    <3>3. Answers(pushed, tb, h, lost, rows)
      BY <2>10, <3>2, Zenon DEF Answers
    <3> QED BY <3>1, <3>3 DEF rows
  <2>12. CASE bad # {}
    <3> DEFINE m == Min(bad)
               p == pushed.tab
    <3>1. m \in bad /\ m \in DOMAIN cells
      <4>1. bad \in SUBSET Nat /\ bad \subseteq DOMAIN cells
        OBVIOUS
      <4> HIDE DEF bad
      <4>2. \E x \in bad : \A y \in bad : x <= y
        BY <2>12, <4>1, LeastNumber
      <4> QED BY <4>1, <4>2 DEF Min
    <3> HIDE DEF m
    <3>2. pushed.out = "err"
      <4>1. ~Accepts(e.columns[m], columns[m][1]) /\ m \in DOMAIN columns
            /\ 1 \in DOMAIN columns[m]
        <5>1. m \in DOMAIN columns /\ columns[m] \in Seq(Cells) /\ Len(columns[m]) = 1
              /\ columns[m][1] = cells[m]
          BY <2>4, <3>1
        <5> QED BY <3>1, <5>1
      <4> QED BY <2>7, <4>1, Zenon DEF Takes
    <3>3. HasRows(p, h, TRUE)
      BY <2>10, <3>2
    <3>4. p.columns = tb.columns /\ m \in DOMAIN p.columns
      BY <1>1, <2>1, <2>10, <3>1 DEF Formed
    <3> DEFINE q == [p EXCEPT !.bitmaps[m] = BitMapSet(@, n + 1, FALSE)]
    <3>5. HasRows(q, h, TRUE)
      BY <3>3, <3>4, ClearedBitHolds
    <3>6. answer = [tab |-> q, out |-> "err"]
      <4>1. pushed = [tab |-> p, out |-> "err"]
        <5>1. pushed = [tab |-> Pushed(e, n + 1, taken), out |-> pushed.out]
          BY <2>7 DEF Takes
        <5> QED BY <3>2, <5>1
      <4>2. answer = [pushed EXCEPT !.tab.bitmaps[m] = BitMapSet(@, n + 1, FALSE)]
        BY <2>3, <2>12 DEF m
      <4>3. answer = [pushed EXCEPT !.tab = q]
        BY <4>2
      <4> HIDE DEF q, p, answer
      <4> QED BY <4>1, <4>3
    <3>7. q # tb
      <4>1. q.timestamps = p.timestamps
        <5>1. Formed(p)
          BY <3>3 DEF HasRows
        <5>2. p = [device |-> p.device, columns |-> p.columns, max_rows |-> p.max_rows,
                   aligned |-> p.aligned, timestamps |-> p.timestamps,
                   values |-> p.values, bitmaps |-> p.bitmaps]
          BY <5>1 DEF Formed
        <5> HIDE DEF p
        <5> QED BY <5>2
      <4> QED BY <2>10, <4>1, Zenon
    <3> HIDE DEF q, p
    <3>8. answer.tab = q /\ answer.out = "err"
      BY <3>6
    <3> HIDE DEF answer
    <3>9. Answers(answer, tb, h, lost, rows)
      BY <3>5, <3>7, <3>8 DEF Answers
    <3> QED BY <3>9 DEF answer, rows
  <2> QED BY <2>11, <2>12
<1> QED BY <1>2, <1>3

(* add_rows_bulk: the rows across columns of cells.                            *)
RowsAcross(times, columns) ==
    [i \in DOMAIN times |->
        [t |-> times[i], cells |-> [c \in DOMAIN columns |-> columns[c][i]]]]

LEMMA AddRowsBulkHolds ==
    ASSUME NEW tb, NEW h, NEW lost, HasRows(tb, h, lost), NEW times \in Seq(Stamps),
           NEW columns \in Seq(Seq(Cells))
    PROVE  Answers(AddRowsBulk(tb, times, columns), tb, h, lost, RowsAcross(times, columns))
<1> DEFINE n == Len(tb.timestamps)
           k == Len(times)
           e == Adding(tb, times)
           rows == RowsAcross(times, columns)
           answer == AddRowsBulk(tb, times, columns)
           fits == /\ RowCount(tb) + Len(times) <= tb.max_rows
                   /\ Len(columns) = Len(tb.columns)
                   /\ \A c \in DOMAIN columns : Len(columns[c]) = Len(times)
<1>1. /\ h \in Rows /\ n \in Nat /\ tb.max_rows \in Nat /\ k \in Nat /\ DOMAIN times = 1..k
  BY DEF HasRows, Bounded, Formed
<1>2. CASE times = <<>>
  <2>1. rows = <<>>
    BY <1>2 DEF RowsAcross
  <2>2. h \o rows = h
    BY <1>1, <2>1 DEF Rows
  <2>3. answer = [tab |-> tb, out |-> "ok"]
    BY <1>2 DEF AddRowsBulk, Answer
  <2>4. answer.tab = tb /\ answer.out = "ok"
    BY <2>3
  <2> HIDE DEF answer, rows
  <2>5. Answers(answer, tb, h, lost, rows)
    BY <2>2, <2>4, Zenon DEF Answers
  <2> QED BY <2>5 DEF answer, rows
<1>3. CASE times # <<>> /\ ~fits
  <2>1. \/ RowCount(tb) + Len(times) > tb.max_rows
        \/ Len(columns) # Len(tb.columns)
        \/ \E c \in DOMAIN columns : Len(columns[c]) # Len(times)
    BY <1>1, <1>3 DEF RowCount
  <2>2. answer = Answer(tb, "err")
    BY <1>3, <2>1, Zenon DEF AddRowsBulk
  <2> QED BY <2>2, RefusedHolds
<1>4. CASE times # <<>> /\ fits
  <2>1. n + k <= tb.max_rows /\ Len(columns) = Len(tb.columns) /\ k \in Nat \ {0}
        /\ \A c \in DOMAIN columns : Len(columns[c]) = k
    BY <1>1, <1>4 DEF RowCount
  <2>2. answer = PushColumns(e, n + 1, columns)
    <3>1. ~(\/ RowCount(tb) + Len(times) > tb.max_rows
            \/ Len(columns) # Len(tb.columns)
            \/ \E c \in DOMAIN columns : Len(columns[c]) # Len(times))
      BY <1>1, <1>4 DEF RowCount
    <3> QED BY <1>4, <3>1, Zenon DEF AddRowsBulk, Adding, RowCount
  <2>3. rows \in Rows /\ Len(rows) = k
    <3>1. \A i \in 1..k : rows[i] \in [t : Stamps, cells : Seq(Cells)]
      <4> SUFFICES ASSUME NEW i \in 1..k
                   PROVE  /\ times[i] \in Stamps
                          /\ [c \in DOMAIN columns |-> columns[c][i]] \in Seq(Cells)
        BY <1>1 DEF RowsAcross
      <4>1. \A c \in 1..Len(columns) : columns[c][i] \in Cells
        <5> SUFFICES ASSUME NEW c \in 1..Len(columns) PROVE columns[c][i] \in Cells
          OBVIOUS
        <5>1. columns[c] \in Seq(Cells) /\ Len(columns[c]) = k
          BY <2>1
        <5> QED BY <5>1
      <4>2. [c \in DOMAIN columns |-> columns[c][i]] \in [1..Len(columns) -> Cells]
        BY <4>1
      <4>3. Len(columns) \in Nat
        OBVIOUS
      <4>4. [c \in DOMAIN columns |-> columns[c][i]] \in Seq(Cells)
        BY <4>2, <4>3, FunctionsAreSequences
      <4> QED BY <1>1, <4>4
    <3>2. rows \in [1..k -> [t : Stamps, cells : Seq(Cells)]]
      <4>1. rows = [i \in 1..k |-> rows[i]]
        BY <1>1 DEF RowsAcross
      <4> HIDE DEF rows, k
      <4> QED BY <3>1, <4>1
    <3> HIDE DEF rows, k
    <3> QED BY <1>1, <3>2, FunctionsAreSequences DEF Rows
  <2>4. \A i \in 1..k : /\ rows[i].t = times[i]
                         /\ \A c \in DOMAIN columns : rows[i].cells[c] = columns[c][i]
    BY <1>1 DEF RowsAcross
  <2> HIDE DEF rows, e, answer
  <2>5. PICK taken : Takes(answer, e, n + 1, columns, k, taken)
    <3>1. k \in Nat /\ \A c \in DOMAIN columns : Len(columns[c]) = k
      BY <2>1
    <3> HIDE DEF k
    <3> QED BY <2>2, <3>1, PushColumnsIs
  <2>6. Offers(tb, times, k, columns, rows)
    BY <2>1, <2>3, <2>4 DEF Offers
  <2>7. Takes(answer, Adding(tb, times), Len(tb.timestamps) + 1, columns, k, taken)
    BY <2>5 DEF e
  <2> HIDE DEF k
  <2>8. /\ answer.out \in {"ok", "err"} /\ answer.tab.columns = tb.columns
        /\ answer.tab.timestamps # tb.timestamps
        /\ answer.out = "ok" => HasRows(answer.tab, h \o rows, lost)
        /\ answer.out = "err" => HasRows(answer.tab, h, TRUE)
    BY <2>6, <2>7, AddingHolds, Zenon
  <2>9. answer.tab # tb
    BY <2>8, Zenon
  <2>10. Answers(answer, tb, h, lost, rows)
    BY <2>8, <2>9, Zenon DEF Answers
  <2> QED BY <2>10 DEF answer, rows
<1> QED BY <1>2, <1>3, <1>4

(* A tablet that is new, or cleared, has no rows and is short of none.         *)
LEMMA EmptyHolds ==
    ASSUME NEW device, NEW columns \in Seq([name : Seq(STRING), type : STRING]),
           NEW max_rows \in Nat, NEW aligned
    PROVE  HasRows(NewTablet(device, columns, max_rows, aligned), <<>>, FALSE)
<1> DEFINE p == NewTablet(device, columns, max_rows, aligned)
           D == DOMAIN columns
<1>1. p = [device |-> device, columns |-> columns, max_rows |-> max_rows,
           aligned |-> aligned, timestamps |-> <<>>,
           values  |-> [c \in D |-> <<>>],
           bitmaps |-> [c \in D |-> [nulls |-> {}, size |-> max_rows]]]
  BY DEF NewTablet, NewBitMap
<1>2. <<>> \in Seq(Int) /\ Len(<<>>) = 0
  OBVIOUS
<1>3. [c \in D |-> <<>>] \in [D -> Seq(Int)]
  BY <1>2
<1>4. [c \in D |-> [nulls |-> {}, size |-> max_rows]]
         \in [D -> [nulls : SUBSET Nat, size : {max_rows}]]
  OBVIOUS
<1> HIDE DEF p
<1>5. p.columns = columns /\ p.max_rows = max_rows /\ p.timestamps = <<>>
      /\ p.values = [c \in D |-> <<>>]
      /\ p.bitmaps = [c \in D |-> [nulls |-> {}, size |-> max_rows]]
  BY <1>1
<1>6. Formed(p)
  <2>1. p = [device |-> p.device, columns |-> p.columns, max_rows |-> p.max_rows,
             aligned |-> p.aligned, timestamps |-> p.timestamps,
             values |-> p.values, bitmaps |-> p.bitmaps]
    BY <1>1
  <2>2. p.values \in [DOMAIN p.columns -> Seq(Int)]
    BY <1>3, <1>5
  <2>3. p.bitmaps \in [DOMAIN p.columns -> [nulls : SUBSET Nat, size : {p.max_rows}]]
    BY <1>4, <1>5
  <2> QED BY <1>5, <2>1, <2>2, <2>3, Zenon DEF Formed
<1>7. Bounded(p)
  BY <1>2, <1>5 DEF Bounded
<1>8. Filled(p, <<>>)
  <2>1. 1..Len(<<>>) = {}
    OBVIOUS
  <2> QED BY <1>2, <1>5, <2>1 DEF Filled
<1>9. <<>> \in Rows
  BY DEF Rows
<1> QED BY <1>6, <1>7, <1>8, <1>9 DEF HasRows, p

LEMMA ClearHolds ==
    ASSUME NEW tb, Formed(tb)
    PROVE  HasRows(Clear(tb), <<>>, FALSE)
<1> DEFINE p == NewTablet(tb.device, tb.columns, tb.max_rows, tb.aligned)
           D == DOMAIN tb.columns
<1>1. /\ tb = [device |-> tb.device, columns |-> tb.columns, max_rows |-> tb.max_rows,
               aligned |-> tb.aligned, timestamps |-> tb.timestamps,
               values |-> tb.values, bitmaps |-> tb.bitmaps]
      /\ DOMAIN tb.values = D /\ DOMAIN tb.bitmaps = D
      /\ tb.columns \in Seq([name : Seq(STRING), type : STRING]) /\ tb.max_rows \in Nat
  BY DEF Formed
<1> DEFINE values == [c \in D |-> <<>>]
           bitmaps == [c \in D |-> NewBitMap(tb.max_rows)]
<1>2. Clear(tb) = [tb EXCEPT !.timestamps = <<>>, !.values = values, !.bitmaps = bitmaps]
  BY <1>1 DEF Clear
<1>3. p = [device |-> tb.device, columns |-> tb.columns, max_rows |-> tb.max_rows,
           aligned |-> tb.aligned, timestamps |-> <<>>,
           values |-> values, bitmaps |-> bitmaps]
  BY DEF NewTablet
<1> HIDE DEF values, bitmaps, p
<1>4. Clear(tb) = p
  BY <1>1, <1>2, <1>3
<1>5. HasRows(p, <<>>, FALSE)
  BY <1>1, EmptyHolds DEF p
<1> QED BY <1>4, <1>5

-------------------------------------------------------------------------------
(* The caller's tablet in every state: formed, and with the rows kept unless   *)
(* a cell was lost.                                                            *)
TabletInv == HasRows(tab, kept, torn)

LEMMA OthersKeepTablet ==
    ASSUME \/ \E t \in TIMES, v \in UNION {VALUES[y] : y \in TYPES} : Observe(t, v)
           \/ \E n \in 1..(MaxPoints - Len(seen)) :
                 \E points \in [1..n -> [t : TIMES, value : VALUES[type]]] : ObserveBatch(points)
           \/ SealPage \/ WriteIt \/ \E batch \in BATCHES : Import(batch)
           \/ Close \/ Open \/ NextBatch \/ \E d \in Devices : QueryDevice(d)
           \/ UNCHANGED vars
    PROVE  UNCHANGED tabletVars
<1>1. ASSUME NEW t, NEW v, Observe(t, v) PROVE UNCHANGED tabletVars
  BY <1>1, Zenon DEF Observe
<1>2. ASSUME NEW points, ObserveBatch(points) PROVE UNCHANGED tabletVars
  BY <1>2, Zenon DEF ObserveBatch
<1>3. ASSUME SealPage PROVE UNCHANGED tabletVars
  BY <1>3, Zenon DEF SealPage
<1>4. ASSUME WriteIt PROVE UNCHANGED tabletVars
  BY <1>4, Zenon DEF WriteIt
<1>5. ASSUME NEW batch, Import(batch) PROVE UNCHANGED tabletVars
  BY <1>5, Zenon DEF Import
<1>6. ASSUME Close PROVE UNCHANGED tabletVars
  BY <1>6, Zenon DEF Close
<1>7. ASSUME Open PROVE UNCHANGED tabletVars
  BY <1>7, Zenon DEF Open, Reads
<1>8. ASSUME NextBatch PROVE UNCHANGED tabletVars
  BY <1>8, Zenon DEF NextBatch, Reads
<1>9. ASSUME NEW d, QueryDevice(d) PROVE UNCHANGED tabletVars
  BY <1>9, Zenon DEF QueryDevice, Reads
<1>10. ASSUME UNCHANGED vars PROVE UNCHANGED tabletVars
  BY <1>10, Zenon DEF vars
<1> QED BY <1>1, <1>2, <1>3, <1>4, <1>5, <1>6, <1>7, <1>8, <1>9, <1>10, Zenon

LEMMA TabletStep ==
    ASSUME TabletInv, [Next]_vars
    PROVE  TabletInv'
<1>1. ASSUME NEW answer, NEW rows, Answers(answer, tab, kept, torn, rows),
             TabletAnswered(answer, rows)
      PROVE  TabletInv'
  <2>1. tab' = answer.tab
        /\ kept' = (IF answer.out = "ok" THEN kept \o rows ELSE kept)
        /\ torn' = (torn \/ (answer.out = "err" /\ answer.tab # tab))
    BY <1>1, Zenon DEF TabletAnswered
  <2>2. torn \in BOOLEAN /\ HasRows(tab, kept, torn)
    BY DEF TabletInv, HasRows
  <2>3. CASE answer.out = "ok" /\ HasRows(answer.tab, kept \o rows, torn)
    <3>1. torn' = torn /\ kept' = kept \o rows
      BY <2>1, <2>2, <2>3
    <3> QED BY <2>1, <2>3, <3>1, Zenon DEF TabletInv
  <2>4. CASE answer.out = "err" /\ answer.tab = tab
    <3>1. torn' = torn /\ kept' = kept /\ tab' = tab
      BY <2>1, <2>2, <2>4
    <3> QED BY <2>2, <3>1, Zenon DEF TabletInv
  <2>5. CASE answer.out = "err" /\ answer.tab # tab /\ HasRows(answer.tab, kept, TRUE)
    <3>1. torn' = TRUE /\ kept' = kept
      BY <2>1, <2>2, <2>5
    <3> QED BY <2>1, <2>5, <3>1, Zenon DEF TabletInv
  <2> QED BY <1>1, <2>3, <2>4, <2>5, Zenon DEF Answers
<1>2. ASSUME NEW row \in ROWS, AddOne(row) PROVE TabletInv'
  <2>1. row.t \in Stamps /\ row.cells \in Seq(Cells) /\ row = [t |-> row.t, cells |-> row.cells]
    <3>1. ROWS \subseteq [t : I64Min..I64Max, cells : Seq(Cells)]
      BY TabletAssumption, Zenon
    <3> QED BY <3>1 DEF Stamps
  <2>2. Answers(AddRow(tab, row.t, row.cells), tab, kept, torn,
                <<[t |-> row.t, cells |-> row.cells]>>)
    BY <2>1, AddRowHolds DEF TabletInv
  <2>3. TabletAnswered(AddRow(tab, row.t, row.cells), <<row>>)
    BY <1>2, Zenon DEF AddOne
  <2>4. <<[t |-> row.t, cells |-> row.cells]>> = <<row>>
    BY <2>1, Zenon
  <2>5. Answers(AddRow(tab, row.t, row.cells), tab, kept, torn, <<row>>)
    BY <2>2, <2>4
  <2> QED BY <1>1, <2>3, <2>5
<1>3. ASSUME NEW bulk \in BULKS, AddMany(bulk) PROVE TabletInv'
  <2>1. bulk.times \in Seq(Stamps) /\ bulk.columns \in Seq(Seq(Cells))
    <3>1. BULKS \subseteq [times : Seq(I64Min..I64Max), columns : Seq(Seq(Cells))]
      BY TabletAssumption, Zenon
    <3>2. bulk.times \in Seq(I64Min..I64Max) /\ bulk.columns \in Seq(Seq(Cells))
      BY <3>1
    <3> QED BY <3>2 DEF Stamps
  <2>2. Answers(AddRowsBulk(tab, bulk.times, bulk.columns), tab, kept, torn,
                RowsAcross(bulk.times, bulk.columns))
    BY <2>1, AddRowsBulkHolds DEF TabletInv
  <2>3. TabletAnswered(AddRowsBulk(tab, bulk.times, bulk.columns),
                       RowsAcross(bulk.times, bulk.columns))
    BY <1>3, Zenon DEF AddMany, RowsAcross
  <2> QED BY <1>1, <2>2, <2>3
<1>4. CASE ClearTablet
  <2>1. tab' = Clear(tab) /\ kept' = <<>> /\ torn' = FALSE
    BY <1>4, Zenon DEF ClearTablet
  <2>2. HasRows(Clear(tab), <<>>, FALSE)
    BY ClearHolds DEF TabletInv, HasRows
  <2> QED BY <2>1, <2>2, Zenon DEF TabletInv
<1>5. CASE UNCHANGED tabletVars
  <2>1. tab' = tab /\ kept' = kept /\ torn' = torn
    BY <1>5 DEF tabletVars
  <2> QED BY <2>1, Zenon DEF TabletInv
<1> QED BY <1>2, <1>3, <1>4, <1>5, OthersKeepTablet, Zenon DEF Next

LEMMA TabletFirst ==
    ASSUME Init
    PROVE  TabletInv
<1>1. kept = <<>> /\ torn = FALSE
      /\ \/ tab \in TABLETS
         \/ tab = NewTablet(NoDevice, <<>>, 0, FALSE)
  BY DEF Init
<1>2. CASE tab \in TABLETS
  <2>1. /\ tab = NewTablet(tab.device, tab.columns, tab.max_rows, tab.aligned)
        /\ tab.columns \in Seq([name : Seq(STRING), type : STRING])
        /\ tab.max_rows \in Nat
    BY <1>2, TabletAssumption, Zenon
  <2>2. HasRows(NewTablet(tab.device, tab.columns, tab.max_rows, tab.aligned), <<>>, FALSE)
    BY <2>1, EmptyHolds
  <2> QED BY <1>1, <2>1, <2>2, Zenon DEF TabletInv
<1>3. CASE tab = NewTablet(NoDevice, <<>>, 0, FALSE)
  <2>1. <<>> \in Seq([name : Seq(STRING), type : STRING]) /\ 0 \in Nat
    OBVIOUS
  <2>2. HasRows(NewTablet(NoDevice, <<>>, 0, FALSE), <<>>, FALSE)
    BY <2>1, EmptyHolds
  <2> QED BY <1>1, <1>3, <2>2, Zenon DEF TabletInv
<1> QED BY <1>1, <1>2, <1>3

(* TabletIsRows: whatever rows and bulks the caller offers, and in whatever    *)
(* order it clears the tablet.                                                 *)
THEOREM SpecTabletIsRows == Spec => []TabletIsRows
<1>1. Init => TabletInv
  BY TabletFirst
<1>2. TabletInv /\ [Next]_vars => TabletInv'
  BY TabletStep
<1>3. TabletInv => TabletIsRows
  <2> SUFFICES ASSUME TabletInv PROVE TabletIsRows
    OBVIOUS
  <2> DEFINE n == RowCount(tab)
             cells(c) == [i \in DOMAIN kept |-> kept[i].cells[c]]
  <2>1. /\ Formed(tab) /\ Bounded(tab) /\ kept \in Rows /\ torn \in BOOLEAN
        /\ torn => \E c \in DOMAIN tab.columns : Len(tab.values[c]) < Len(tab.timestamps)
        /\ ~torn => Filled(tab, kept)
    BY DEF TabletInv, HasRows
  <2>2. n = Len(tab.timestamps) /\ n \in Nat /\ DOMAIN tab.timestamps = 1..n
        /\ DOMAIN kept = 1..Len(kept) /\ Len(kept) \in Nat
    BY <2>1 DEF RowCount, Bounded, Rows
  <2>3. torn <=> (\E c \in DOMAIN tab.columns : Len(tab.values[c]) # n)
    <3>1. torn => \E c \in DOMAIN tab.columns : Len(tab.values[c]) # n
      <4> SUFFICES ASSUME torn PROVE \E c \in DOMAIN tab.columns : Len(tab.values[c]) # n
        OBVIOUS
      <4>1. PICK c \in DOMAIN tab.columns : Len(tab.values[c]) < Len(tab.timestamps)
        BY <2>1
      <4>2. tab.values[c] \in Seq(Int)
        BY <2>1 DEF Formed
      <4>3. Len(tab.values[c]) # n
        BY <2>2, <4>1, <4>2
      <4> QED BY <4>3
    <3>2. ~torn => \A c \in DOMAIN tab.columns : Len(tab.values[c]) = n
      BY <2>1, <2>2 DEF Filled
    <3> QED BY <3>1, <3>2
  <2> HIDE DEF n
  <2>4. ASSUME ~torn
        PROVE  /\ tab.timestamps = [i \in DOMAIN kept |-> kept[i].t]
               /\ \A c \in DOMAIN tab.columns, i \in DOMAIN tab.timestamps :
                     IF cells(c)[i] = <<>> THEN IsNullAt(tab.bitmaps[c], i)
                     ELSE /\ ~IsNullAt(tab.bitmaps[c], i)
                          /\ tab.values[c][i] = cells(c)[i][1].v
    <3>1. Filled(tab, kept) /\ Len(kept) = n
      BY <2>1, <2>2, <2>4 DEF Filled
    <3>2. tab.timestamps = [i \in DOMAIN kept |-> kept[i].t]
      <4>1. \A i \in 1..n : tab.timestamps[i] = kept[i].t
        BY <2>2, <3>1 DEF Filled
      <4>2. tab.timestamps = [i \in 1..n |-> tab.timestamps[i]]
        BY <2>1, <2>2 DEF Bounded
      <4> QED BY <2>2, <3>1, <4>1, <4>2
    <3>3. ASSUME NEW c \in DOMAIN tab.columns, NEW i \in DOMAIN tab.timestamps
          PROVE  IF cells(c)[i] = <<>> THEN IsNullAt(tab.bitmaps[c], i)
                 ELSE /\ ~IsNullAt(tab.bitmaps[c], i)
                      /\ tab.values[c][i] = cells(c)[i][1].v
      <4>1. i \in 1..n /\ cells(c)[i] = kept[i].cells[c]
        BY <2>2, <3>1
      <4> DEFINE x == kept[i].cells[c]
      <4>2. tab.values[c][i] = Number(x) /\ (i \in tab.bitmaps[c].nulls <=> x = <<>>)
        BY <3>1, <4>1 DEF Filled
      <4>3. i <= tab.bitmaps[c].size
        <5>1. tab.bitmaps[c].size = tab.max_rows /\ tab.max_rows \in Nat
              /\ n <= tab.max_rows
          BY <2>1, <2>2 DEF Formed, Bounded
        <5> QED BY <2>2, <4>1, <5>1
      <4> HIDE DEF x, cells
      <4>4. cells(c)[i] = x
        BY <4>1 DEF x
      <4> QED BY <4>2, <4>3, <4>4 DEF IsNullAt, Number
    <3> QED BY <3>2, <3>3
  <2> QED BY <2>3, <2>4 DEF TabletIsRows, n
<1> QED BY <1>1, <1>2, <1>3, PTL DEF Spec

-------------------------------------------------------------------------------
(* Rows and the points of their columns.  The proofs about writers are over    *)
(* the points and the names that their callers use, which here are times and   *)
(* numbers and the names that have a type.                                     *)
Meant == Points = [t : Stamps, v : Int] /\ Measurements = DOMAIN TypeOf

FileRow == [t : Stamps, cells : UNION {[D -> NumberCells] : D \in SUBSET Measurements}]

PointAt(m, r) ==
    IF m \in DOMAIN r.cells /\ r.cells[m] # <<>>
    THEN <<[t |-> r.t, v |-> r.cells[m][1]]>> ELSE <<>>

PointsAt(m, rows) == [i \in 1..Len(rows) |-> PointAt(m, rows[i])]

LEMMA Regroup ==
    ASSUME NEW X, NEW a \in Seq(X), NEW b \in Seq(X), NEW c \in Seq(X),
           NEW j, j = a \o b, NEW k, k = b \o c
    PROVE  j \o c = a \o k
BY SMTT(30), ConcatAssoc

LEMMA JoinedConcat ==
    ASSUME NEW X, NEW s \in Seq(Seq(X)), NEW t \in Seq(Seq(X))
    PROVE  Joined(s \o t) = Joined(s) \o Joined(t)
<1> DEFINE Cut(n) == SubSeq(t, 1, n)
           T == {n \in Nat : n <= Len(t) => Joined(s \o Cut(n)) = Joined(s) \o Joined(Cut(n))}
<1>1. Len(t) \in Nat /\ Joined(s) \in Seq(X)
  BY JoinedTyped
<1>2. 0 \in T
  <2>1. Cut(0) = <<>> /\ s \o <<>> = s /\ <<>> \in Seq(Seq(X))
    OBVIOUS
  <2>2. PICK e \in Seq(Seq(X)) : e = <<>>
    BY <2>1
  <2>3. Joined(e) = <<>>
    BY <2>2, JoinedTyped
  <2>4. PICK j \in Seq(X) : j = Joined(s)
    BY <1>1
  <2>5. j \o <<>> = j
    OBVIOUS
  <2> HIDE DEF Cut
  <2>6. Joined(s \o Cut(0)) = j /\ Joined(Cut(0)) = <<>>
    BY <2>1, <2>2, <2>3, <2>4
  <2> QED BY <2>4, <2>5, <2>6
<1>3. ASSUME NEW n \in Nat, n \in T PROVE n + 1 \in T
  <2> SUFFICES ASSUME n + 1 <= Len(t)
               PROVE  Joined(s \o Cut(n + 1)) = Joined(s) \o Joined(Cut(n + 1))
    OBVIOUS
  <2> DEFINE u == Cut(n)
             x == t[n + 1]
  <2>1. u \in Seq(Seq(X)) /\ x \in Seq(X) /\ Cut(n + 1) = Append(u, x)
    OBVIOUS
  <2>2. Joined(s \o u) = Joined(s) \o Joined(u)
    BY <1>1, <1>3
  <2> HIDE DEF u, x, Cut
  <2>3. s \o Append(u, x) = Append(s \o u, x) /\ s \o u \in Seq(Seq(X))
    BY SMTT(30), <2>1
  <2>4. Joined(Append(s \o u, x)) = Joined(s \o u) \o x
    BY <2>1, <2>3, JoinedAppend
  <2>5. Joined(Append(u, x)) = Joined(u) \o x /\ Joined(u) \in Seq(X)
    BY <2>1, JoinedAppend, JoinedTyped
  <2>6. (Joined(s) \o Joined(u)) \o x = Joined(s) \o (Joined(u) \o x)
    <3>1. PICK a \in Seq(X) : a = Joined(s)
      BY <1>1
    <3>2. PICK b \in Seq(X) : b = Joined(u)
      BY <2>5
    <3>3. PICK c \in Seq(X) : c = x
      BY <2>1
    <3>4. PICK j, k : j = a \o b /\ k = b \o c
      OBVIOUS
    <3> HIDE DEF T
    <3>5. j \o c = a \o k
      BY SMTT(30), <3>1, <3>2, <3>3, <3>4, Regroup
    <3> QED BY <3>1, <3>2, <3>3, <3>4, <3>5
  <2> QED BY <2>1, <2>2, <2>3, <2>4, <2>5, <2>6
<1> HIDE DEF T
<1>4. Nat \subseteq T
  BY <1>2, <1>3, InductiveSet
<1>5. Cut(Len(t)) = t
  OBVIOUS
<1> HIDE DEF Cut
<1>6. Joined(s \o Cut(Len(t))) = Joined(s) \o Joined(Cut(Len(t)))
  BY <1>1, <1>4 DEF T
<1> QED BY <1>5, <1>6

LEMMA PointAtTyped ==
    ASSUME Meant, NEW r \in FileRow, NEW m
    PROVE  PointAt(m, r) \in Seq(Points) /\ Len(PointAt(m, r)) <= 1
<1>1. CASE m \in DOMAIN r.cells /\ r.cells[m] # <<>>
  <2>1. PICK D \in SUBSET Measurements : r.cells \in [D -> NumberCells]
    BY DEF FileRow
  <2>2. r.cells[m] \in NumberCells
    BY <1>1, <2>1
  <2>3. r.cells[m][1] \in Int
    BY <1>1, <2>2 DEF NumberCells
  <2>4. [t |-> r.t, v |-> r.cells[m][1]] \in Points
    BY <2>3 DEF Meant, FileRow
  <2> QED BY <1>1, <2>4 DEF PointAt
<1>2. CASE ~(m \in DOMAIN r.cells /\ r.cells[m] # <<>>)
  <2>1. PointAt(m, r) = <<>>
    BY <1>2 DEF PointAt
  <2> QED BY <2>1
<1> QED BY <1>1, <1>2

LEMMA PointsOfTyped ==
    ASSUME Meant, NEW rows \in Seq(FileRow), NEW m
    PROVE  /\ PointsAt(m, rows) \in Seq(Seq(Points)) /\ Len(PointsAt(m, rows)) = Len(rows)
           /\ PointsOf(m, rows) = Joined(PointsAt(m, rows))
           /\ PointsOf(m, rows) \in Seq(Points)
           /\ rows = <<>> => PointsOf(m, rows) = <<>>
<1>1. PICK n \in Nat : n = Len(rows)
  OBVIOUS
<1>2. \A i \in 1..n : PointAt(m, rows[i]) \in Seq(Points)
  BY <1>1, PointAtTyped
<1>3. PointsAt(m, rows) \in [1..n -> Seq(Points)]
  BY <1>1, <1>2 DEF PointsAt
<1>4. PointsAt(m, rows) \in Seq(Seq(Points)) /\ Len(PointsAt(m, rows)) = n
  BY <1>3
<1>5. PointsOf(m, rows) = Joined(PointsAt(m, rows))
  BY Zenon DEF PointsOf, PointsAt, PointAt
<1>6. Joined(PointsAt(m, rows)) \in Seq(Points)
      /\ (PointsAt(m, rows) = <<>> => Joined(PointsAt(m, rows)) = <<>>)
  BY <1>4, JoinedTyped
<1>7. rows = <<>> => PointsAt(m, rows) = <<>>
  BY <1>1, <1>4
<1> QED BY <1>1, <1>4, <1>5, <1>6, <1>7

LEMMA PointsConcat ==
    ASSUME Meant, NEW rows \in Seq(FileRow), NEW more \in Seq(FileRow), NEW m
    PROVE  PointsOf(m, rows \o more) = PointsOf(m, rows) \o PointsOf(m, more)
<1> DEFINE s == PointsAt(m, rows)
           t == PointsAt(m, more)
           u == PointsAt(m, rows \o more)
<1>1. /\ s \in Seq(Seq(Points)) /\ Len(s) = Len(rows) /\ PointsOf(m, rows) = Joined(s)
      /\ t \in Seq(Seq(Points)) /\ Len(t) = Len(more) /\ PointsOf(m, more) = Joined(t)
  BY PointsOfTyped
<1>2. rows \o more \in Seq(FileRow) /\ Len(rows \o more) = Len(rows) + Len(more)
      /\ Len(rows) \in Nat /\ Len(more) \in Nat
  OBVIOUS
<1>3. u \in Seq(Seq(Points)) /\ Len(u) = Len(rows) + Len(more)
      /\ PointsOf(m, rows \o more) = Joined(u)
  BY <1>2, PointsOfTyped
<1>0. \A p, q \in Seq(Seq(Points)) :
         /\ p \o q \in Seq(Seq(Points)) /\ Len(p \o q) = Len(p) + Len(q)
         /\ \A i \in 1..Len(p) : (p \o q)[i] = p[i]
         /\ \A i \in 1..(Len(p) + Len(q)) : i > Len(p) => (p \o q)[i] = q[i - Len(p)]
  OBVIOUS
<1>4. ASSUME NEW i \in 1..Len(u) PROVE u[i] = (s \o t)[i]
  <2>1. u[i] = PointAt(m, (rows \o more)[i])
    BY <1>2, <1>3 DEF PointsAt
  <2>2. CASE i <= Len(rows)
    <3>1. (rows \o more)[i] = rows[i] /\ i \in 1..Len(rows)
      BY <1>2, <1>3, <2>2
    <3>2. s[i] = PointAt(m, rows[i])
      BY <3>1 DEF PointsAt
    <3> HIDE DEF s, t, u
    <3>3. (s \o t)[i] = s[i]
      BY SMTT(30), <1>0, <1>1, <3>1
    <3> QED BY <2>1, <3>1, <3>2, <3>3
  <2>3. CASE i > Len(rows)
    <3>1. (rows \o more)[i] = more[i - Len(rows)] /\ i - Len(rows) \in 1..Len(more)
      BY <1>2, <1>3, <2>3
    <3>2. t[i - Len(rows)] = PointAt(m, more[i - Len(rows)])
      BY <3>1 DEF PointsAt
    <3> HIDE DEF s, t, u
    <3>3. i \in 1..(Len(s) + Len(t)) /\ i > Len(s)
      BY <1>1, <1>3, <2>3
    <3>4. (s \o t)[i] = t[i - Len(s)]
      BY <1>0, <1>1, <3>3, Zenon
    <3>5. t[i - Len(s)] = t[i - Len(rows)]
      BY <1>1
    <3> QED BY <2>1, <3>1, <3>2, <3>4, <3>5, Zenon
  <2> HIDE DEF s, t, u
  <2>4. i \in Nat /\ Len(rows) \in Nat
    BY <1>2, <1>3
  <2>5. i <= Len(rows) \/ i > Len(rows)
    BY <2>4
  <2> QED BY <2>2, <2>3, <2>5, Zenon
<1> HIDE DEF s, t, u
<1>5. s \o t \in Seq(Seq(Points)) /\ Len(s \o t) = Len(s) + Len(t)
  BY <1>0, <1>1, Zenon
<1>6. u = s \o t
  BY <1>1, <1>3, <1>4, <1>5, SameSequence
<1>7. Joined(s \o t) = Joined(s) \o Joined(t)
  BY <1>1, JoinedConcat
<1> QED BY <1>1, <1>3, <1>6, <1>7

(* Points of a series one by one are those of the rows of a batch call.        *)
LEMMA PointsMatch ==
    ASSUME Meant, NEW rows \in Seq(FileRow), NEW m, NEW brows, AreRows(brows),
           Len(brows) = Len(rows),
           \A i \in 1..Len(rows) :
               PointAt(m, rows[i]) = IF brows[i].null THEN <<>> ELSE <<brows[i].p>>
    PROVE  PointsOf(m, rows) = NonNull(brows)
<1>1. PICK N \in Nat : N = Len(rows)
  OBVIOUS
<1>2. PICK seqs \in Seq(Seq(Points)) :
         /\ Len(seqs) = N /\ PointsOf(m, rows) = Joined(seqs)
         /\ \A i \in 1..N : seqs[i] = IF brows[i].null THEN <<>> ELSE <<brows[i].p>>
  <2>1. \A i \in 1..N : PointsAt(m, rows)[i] = PointAt(m, rows[i])
    BY <1>1 DEF PointsAt
  <2> QED BY <1>1, <2>1, PointsOfTyped
<1>3. PICK f \in [0..N -> Seq(Points)] :
         /\ Joined(seqs) = f[N] /\ f[0] = <<>>
         /\ \A n \in 1..N : f[n] = f[n - 1] \o seqs[n]
  BY <1>2, JoinSteps
<1>4. PICK g \in [0..N -> Seq(Points)] : Keeps(g, brows) /\ NonNull(brows) = g[N]
  BY <1>1, KeptRecursion
<1>5. \A n \in 0..N : g[n] = IF n = 0 THEN <<>>
                             ELSE IF brows[n].null THEN g[n - 1] ELSE Append(g[n - 1], brows[n].p)
  BY <1>1, <1>4 DEF Keeps
<1> DEFINE T == {n \in Nat : n <= N => f[n] = g[n]}
<1>6. 0 \in T
  BY <1>3, <1>5
<1>7. ASSUME NEW n \in Nat, n \in T PROVE n + 1 \in T
  <2> SUFFICES ASSUME n + 1 <= N PROVE f[n + 1] = g[n + 1]
    OBVIOUS
  <2>1. n + 1 \in 1..N /\ n + 1 \in 0..N /\ n + 1 # 0 /\ (n + 1) - 1 = n /\ n <= N /\ n \in 0..N
    BY <1>1
  <2>2. f[n] = g[n] /\ f[n] \in Seq(Points)
    BY <1>3, <1>7, <2>1
  <2>3. f[n + 1] = f[n] \o seqs[n + 1]
    BY <1>3, <2>1
  <2>4. g[n + 1] = IF brows[n + 1].null THEN g[n] ELSE Append(g[n], brows[n + 1].p)
    BY <1>5, <2>1
  <2>5. CASE brows[n + 1].null
    <3>1. seqs[n + 1] = <<>>
      BY <1>2, <2>1, <2>5
    <3>2. f[n] \o <<>> = f[n]
      BY <2>2
    <3> QED BY <2>2, <2>3, <2>4, <2>5, <3>1, <3>2
  <2>6. CASE ~brows[n + 1].null
    <3>1. seqs[n + 1] = <<brows[n + 1].p>> /\ brows[n + 1].p \in Points
      BY <1>1, <1>2, <2>1, <2>6, RowPoint DEF AreRows
    <3>2. \A s \in Seq(Points), p \in Points : s \o <<p>> = Append(s, p)
      OBVIOUS
    <3>3. f[n] \o <<brows[n + 1].p>> = Append(f[n], brows[n + 1].p)
      BY <2>2, <3>1, <3>2, Zenon
    <3> QED BY <2>2, <2>3, <2>4, <2>6, <3>1, <3>3
  <2> QED BY <2>5, <2>6
<1> HIDE DEF T
<1>8. Nat \subseteq T
  BY <1>6, <1>7, InductiveSet
<1>9. f[N] = g[N]
  BY <1>8 DEF T
<1> QED BY <1>2, <1>3, <1>4, <1>9

(* A series of which no row has a value has no points, and one of which every  *)
(* row has a value has the rows'.                                              *)
LEMMA PointsNone ==
    ASSUME Meant, NEW rows \in Seq(FileRow), NEW m,
           \A i \in 1..Len(rows) : PointAt(m, rows[i]) = <<>>
    PROVE  PointsOf(m, rows) = <<>>
<1> DEFINE brows == [i \in 1..Len(rows) |-> [null |-> TRUE]]
           N == Len(rows)
<1>1. N \in Nat /\ Len(brows) = N
  OBVIOUS
<1>2. AreRows(brows)
  BY <1>1 DEF AreRows, IsRow
<1>3. PointsOf(m, rows) = NonNull(brows)
  BY <1>1, <1>2, PointsMatch
<1>4. PICK g \in [0..N -> Seq(Points)] : Keeps(g, brows) /\ NonNull(brows) = g[N]
  BY <1>1, <1>2, KeptRecursion
<1>5. \A n \in 0..N : g[n] = IF n = 0 THEN <<>> ELSE g[n - 1]
  BY <1>1, <1>4 DEF Keeps
<1> HIDE DEF brows, N
<1> DEFINE T == {n \in Nat : n <= N => g[n] = <<>>}
<1>6. 0 \in T
  BY <1>1, <1>5
<1>7. ASSUME NEW n \in Nat, n \in T PROVE n + 1 \in T
  <2>1. n + 1 <= N => n + 1 \in 0..N /\ n + 1 # 0 /\ (n + 1) - 1 = n /\ n <= N
    BY <1>1
  <2> QED BY <1>5, <1>7, <2>1
<1> HIDE DEF T
<1>8. Nat \subseteq T
  BY <1>6, <1>7, InductiveSet
<1>9. g[N] = <<>>
  BY <1>1, <1>8 DEF T
<1> QED BY <1>3, <1>4, <1>9

LEMMA PointsDense ==
    ASSUME Meant, NEW rows \in Seq(FileRow), NEW m,
           \A i \in 1..Len(rows) : m \in DOMAIN rows[i].cells /\ rows[i].cells[m] # <<>>
    PROVE  /\ Len(PointsOf(m, rows)) = Len(rows)
           /\ \A i \in 1..Len(rows) :
                 PointsOf(m, rows)[i] = [t |-> rows[i].t, v |-> rows[i].cells[m][1]]
<1> DEFINE P(i) == [t |-> rows[i].t, v |-> rows[i].cells[m][1]]
           G(n) == [i \in 1..n |-> P(i)]
<1>1. PICK N \in Nat : N = Len(rows)
  OBVIOUS
<1>2. \A i \in 1..N : P(i) \in Points /\ PointAt(m, rows[i]) = <<P(i)>>
  <2> SUFFICES ASSUME NEW i \in 1..N PROVE P(i) \in Points /\ PointAt(m, rows[i]) = <<P(i)>>
    OBVIOUS
  <2>1. PointAt(m, rows[i]) = <<P(i)>>
    BY <1>1 DEF PointAt
  <2>2. PointAt(m, rows[i]) \in Seq(Points)
    BY <1>1, PointAtTyped
  <2> HIDE DEF P
  <2> QED BY <2>1, <2>2
<1> HIDE DEF P
<1>3. PICK seqs \in Seq(Seq(Points)) :
         Len(seqs) = N /\ PointsOf(m, rows) = Joined(seqs) /\ \A i \in 1..N : seqs[i] = <<P(i)>>
  <2>1. \A i \in 1..N : PointsAt(m, rows)[i] = PointAt(m, rows[i])
    BY <1>1 DEF PointsAt
  <2> QED BY <1>1, <1>2, <2>1, PointsOfTyped
<1>4. PICK f \in [0..N -> Seq(Points)] :
         /\ Joined(seqs) = f[N] /\ f[0] = <<>>
         /\ \A n \in 1..N : f[n] = f[n - 1] \o seqs[n]
  BY <1>3, JoinSteps
<1> DEFINE T == {n \in Nat : n <= N => f[n] = G(n)}
<1>5. 0 \in T
  BY <1>4
<1>6. ASSUME NEW n \in Nat, n \in T PROVE n + 1 \in T
  <2> SUFFICES ASSUME n + 1 <= N PROVE f[n + 1] = G(n + 1)
    OBVIOUS
  <2>1. n + 1 \in 1..N /\ (n + 1) - 1 = n /\ n <= N /\ \A i \in 1..(n + 1) : i \in 1..N
    BY <1>1
  <2>2. f[n + 1] = G(n) \o <<P(n + 1)>>
    <3>1. f[n] = G(n) /\ f[n + 1] = f[(n + 1) - 1] \o seqs[n + 1] /\ seqs[n + 1] = <<P(n + 1)>>
      BY <1>3, <1>4, <1>6, <2>1
    <3> HIDE DEF G
    <3> QED BY <2>1, <3>1
  <2>3. G(n) \in Seq(Points) /\ Len(G(n)) = n /\ G(n + 1) \in Seq(Points) /\ Len(G(n + 1)) = n + 1
    BY <1>2, <2>1
  <2>4. \A s \in Seq(Points), p \in Points :
           /\ s \o <<p>> \in Seq(Points) /\ Len(s \o <<p>>) = Len(s) + 1
           /\ (s \o <<p>>)[Len(s) + 1] = p /\ \A i \in 1..Len(s) : (s \o <<p>>)[i] = s[i]
    OBVIOUS
  <2> DEFINE u == G(n) \o <<P(n + 1)>>
  <2>5. /\ u \in Seq(Points) /\ Len(u) = n + 1 /\ u[n + 1] = P(n + 1)
        /\ \A i \in 1..n : u[i] = G(n)[i]
    <3>1. PICK p \in Points : p = P(n + 1)
      BY <1>2, <2>1
    <3> HIDE DEF G, P
    <3>2. PICK s \in Seq(Points) : s = G(n)
      BY <2>3
    <3>3. Len(s) = n
      BY <2>3, <3>2
    <3>4. u = s \o <<p>>
      BY <3>1, <3>2
    <3> HIDE DEF u
    <3>5. /\ u \in Seq(Points) /\ Len(u) = Len(s) + 1 /\ u[Len(s) + 1] = p
          /\ \A i \in 1..Len(s) : u[i] = s[i]
      BY <2>4, <3>4, Zenon
    <3> QED BY <3>1, <3>2, <3>3, <3>5, Zenon
  <2>6. \A i \in 1..(n + 1) : u[i] = G(n + 1)[i]
    <3>1. (\A i \in 1..n : G(n)[i] = P(i)) /\ (\A i \in 1..(n + 1) : G(n + 1)[i] = P(i))
      OBVIOUS
    <3>2. n + 1 \in 1..(n + 1) /\ \A i \in 1..(n + 1) : i \in 1..n \/ i = n + 1
      OBVIOUS
    <3> HIDE DEF u, G
    <3> QED BY <2>5, <3>1, <3>2
  <2> HIDE DEF u, G
  <2>7. u = G(n + 1)
    BY <2>3, <2>5, <2>6, SameSequence
  <2> QED BY <2>2, <2>7 DEF u
<1> HIDE DEF T
<1>7. Nat \subseteq T
  BY <1>5, <1>6, InductiveSet
<1> HIDE DEF G
<1>8. f[N] = G(N)
  BY <1>7 DEF T
<1>9. PointsOf(m, rows) = G(N)
  BY <1>3, <1>4, <1>8
<1>10. Len(G(N)) = N /\ \A i \in 1..N : G(N)[i] = P(i)
  BY DEF G
<1> QED BY <1>1, <1>9, <1>10 DEF P

-------------------------------------------------------------------------------
(* Columns whose names have a type.                                            *)
Listed(A) ==
    /\ Len(A) \in Nat /\ DOMAIN A = 1..Len(A)
    /\ \A c \in 1..Len(A) : A[c].name \in Measurements

(* A tablet that can be written.                                               *)
Writable(tb) ==
    /\ tb.device \in Devices /\ tb.columns \in ColumnLists(tb.device)
    /\ tb.timestamps \in Seq(Stamps)
    /\ tb.values \in [DOMAIN tb.columns -> Seq(Int)]

(* The rows that are in a tablet.                                              *)
CellOf(p) == IF p.null THEN <<>> ELSE <<p.p>>

Represents(tb, R) ==
    /\ R \in Seq(FileRow) /\ Len(R) = RowCount(tb)
    /\ \A i \in 1..Len(R) : \A m \in DOMAIN R[i].cells :
          \E c \in DOMAIN tb.columns : tb.columns[c].name = m
    /\ \A c \in DOMAIN tb.columns : Missing(tb, c) = {} =>
          \A i \in 1..Len(R) : PointAt(tb.columns[c].name, R[i]) = CellOf(RowAtIndex(tb, c, i))

-------------------------------------------------------------------------------
(* Rows as the file knows them, of cells in the order of their columns.        *)
RowIs(r, names, t, cells) ==
    /\ r \in FileRow /\ r.t = t
    /\ \A m \in DOMAIN r.cells : \E c \in 1..Len(names) : names[c] = m
    /\ (\A i, j \in 1..Len(names) : names[i] = names[j] => i = j) =>
          \A c \in 1..Len(names) :
             names[c] \in DOMAIN r.cells /\ r.cells[names[c]] = cells[c]

LEMMA RowOfIs ==
    ASSUME NEW names \in Seq(Measurements), NEW t \in Stamps, NEW cells \in Seq(NumberCells),
           Len(cells) = Len(names), NEW r, r = RowOf(names, t, cells)
    PROVE  RowIs(r, names, t, cells)
<1> DEFINE D == ToSet(names)
           f == [m \in D |-> cells[CHOOSE c \in DOMAIN names : names[c] = m]]
<1>1. r = [t |-> t, cells |-> f]
  BY DEF RowOf
<1>2. D \subseteq Measurements /\ \A m \in D : \E c \in DOMAIN names : names[c] = m
  BY DEF ToSet
<1>3. \A c \in 1..Len(names) : names[c] \in D
  BY DEF ToSet
<1>4. f \in [D -> NumberCells]
  <2> SUFFICES ASSUME NEW m \in D
               PROVE  cells[CHOOSE c \in DOMAIN names : names[c] = m] \in NumberCells
    OBVIOUS
  <2> DEFINE k == CHOOSE c \in DOMAIN names : names[c] = m
  <2>1. k \in 1..Len(names)
    BY <1>2
  <2> HIDE DEF k
  <2>2. cells[k] \in NumberCells
    BY <2>1
  <2> QED BY <2>2 DEF k
<1>5. r \in FileRow
  <2> HIDE DEF f, D
  <2>1. f \in UNION {[E -> NumberCells] : E \in SUBSET Measurements}
    BY <1>2, <1>4
  <2> QED BY <1>1, <2>1 DEF FileRow
<1>6. \A m \in DOMAIN r.cells : \E c \in 1..Len(names) : names[c] = m
  BY <1>1, <1>2
<1>7. ASSUME \A i, j \in 1..Len(names) : names[i] = names[j] => i = j, NEW c \in 1..Len(names)
      PROVE  names[c] \in DOMAIN r.cells /\ r.cells[names[c]] = cells[c]
  <2> DEFINE k == CHOOSE e \in DOMAIN names : names[e] = names[c]
  <2>1. k = c
    BY <1>7
  <2>2. names[c] \in D /\ f[names[c]] = cells[k]
    BY <1>3
  <2> QED BY <1>1, <2>1, <2>2
<1>8. r.t = t
  BY <1>1
<1> QED BY <1>5, <1>6, <1>7, <1>8 DEF RowIs

LEMMA NamesAre ==
    ASSUME NEW A, Listed(A)
    PROVE  /\ NamesOf(A) \in Seq(Measurements) /\ Len(NamesOf(A)) = Len(A)
           /\ \A c \in 1..Len(A) : NamesOf(A)[c] = A[c].name
<1>1. NamesOf(A) = [c \in 1..Len(A) |-> A[c].name]
  BY DEF Listed, NamesOf
<1> QED BY <1>1 DEF Listed

LEMMA NumbersAre ==
    ASSUME NEW cells \in Seq(Cells)
    PROVE  /\ NumbersOf(cells) \in Seq(NumberCells) /\ Len(NumbersOf(cells)) = Len(cells)
           /\ \A c \in 1..Len(cells) :
                 NumbersOf(cells)[c] = IF cells[c] = <<>> THEN <<>> ELSE <<cells[c][1].v>>
<1> DEFINE of(c) == IF cells[c] = <<>> THEN <<>> ELSE <<cells[c][1].v>>
<1>1. NumbersOf(cells) = [c \in 1..Len(cells) |-> of(c)]
  BY DEF NumbersOf
<1>2. ASSUME NEW c \in 1..Len(cells) PROVE of(c) \in NumberCells
  <2>1. cells[c] \in Cells
    OBVIOUS
  <2>2. CASE cells[c] = <<>>
    BY <2>2 DEF NumberCells
  <2>3. CASE cells[c] # <<>>
    <3>1. cells[c][1].v \in Int
      BY <2>1, <2>3 DEF Cells, TsValue
    <3>2. \A v \in Int : <<v>> \in [1..1 -> Int]
      OBVIOUS
    <3> QED BY <2>3, <3>1, <3>2 DEF NumberCells
  <2> QED BY <2>2, <2>3
<1> HIDE DEF of
<1>3. NumbersOf(cells) \in Seq(NumberCells) /\ Len(NumbersOf(cells)) = Len(cells)
      /\ \A c \in 1..Len(cells) : NumbersOf(cells)[c] = of(c)
  BY <1>1, <1>2
<1> QED BY <1>3 DEF of

(* The rows of the caller's tablet.                                            *)
RowsIn(tb, h) ==
    [i \in DOMAIN h |-> RowOf(NamesOf(tb.columns), h[i].t, NumbersOf(h[i].cells))]

Full(tb, h) == \A i \in 1..Len(h) : Len(h[i].cells) = Len(tb.columns)

LEMMA KeptTyped ==
    ASSUME NEW h \in Rows
    PROVE  /\ Len(h) \in Nat /\ DOMAIN h = 1..Len(h)
           /\ \A i \in 1..Len(h) : h[i].t \in Stamps /\ h[i].cells \in Seq(Cells)
<1> DEFINE Kept == [t : Stamps, cells : Seq(Cells)]
<1>1. h \in Seq(Kept) /\ \A x \in Kept : x.t \in Stamps /\ x.cells \in Seq(Cells)
  BY DEF Rows
<1> HIDE DEF Kept
<1> QED BY <1>1

LEMMA RowsInAre ==
    ASSUME NEW tb, Listed(tb.columns), NEW h \in Rows, Full(tb, h)
    PROVE  /\ RowsIn(tb, h) \in Seq(FileRow) /\ Len(RowsIn(tb, h)) = Len(h)
           /\ \A i \in 1..Len(h) :
                 RowIs(RowsIn(tb, h)[i], NamesOf(tb.columns), h[i].t, NumbersOf(h[i].cells))
<1> DEFINE A == tb.columns
           of(i) == RowOf(NamesOf(A), h[i].t, NumbersOf(h[i].cells))
<1>1. /\ Len(h) \in Nat /\ DOMAIN h = 1..Len(h)
      /\ \A i \in 1..Len(h) : h[i].t \in Stamps /\ h[i].cells \in Seq(Cells)
  BY KeptTyped
<1>2. PICK n \in Nat : n = Len(h) /\ DOMAIN h = 1..n
  BY <1>1
<1>3. RowsIn(tb, h) = [i \in 1..n |-> of(i)]
  BY <1>2 DEF RowsIn
<1>4. ASSUME NEW i \in 1..n
      PROVE  RowIs(of(i), NamesOf(A), h[i].t, NumbersOf(h[i].cells))
  <2>1. h[i].t \in Stamps /\ h[i].cells \in Seq(Cells) /\ Len(h[i].cells) = Len(A)
    BY <1>1, <1>2 DEF Full
  <2>2. PICK cells \in Seq(NumberCells) : cells = NumbersOf(h[i].cells) /\ Len(cells) = Len(A)
    BY <2>1, NumbersAre
  <2>3. PICK names \in Seq(Measurements) : names = NamesOf(A) /\ Len(names) = Len(A)
    BY NamesAre
  <2>4. PICK r : r = of(i)
    OBVIOUS
  <2>5. r = RowOf(names, h[i].t, cells)
    BY <2>2, <2>3, <2>4
  <2> HIDE DEF of, A
  <2>6. RowIs(r, names, h[i].t, cells)
    BY <2>1, <2>2, <2>3, <2>5, RowOfIs
  <2> QED BY <2>2, <2>3, <2>4, <2>6
<1> HIDE DEF of
<1>5. \A i \in 1..n : of(i) \in FileRow
  BY <1>4 DEF RowIs
<1>6. RowsIn(tb, h) \in Seq(FileRow) /\ Len(RowsIn(tb, h)) = n
      /\ \A i \in 1..n : RowsIn(tb, h)[i] = of(i)
  BY <1>3, <1>5
<1> QED BY <1>2, <1>4, <1>6

LEMMA TabletRepresents ==
    ASSUME Meant, NEW tb, Listed(tb.columns), NEW h, HasRows(tb, h, FALSE), Full(tb, h),
           \A k, l \in 1..Len(tb.columns) : tb.columns[k].name = tb.columns[l].name => k = l
    PROVE  Represents(tb, RowsIn(tb, h))
<1>1. /\ Formed(tb) /\ Bounded(tb) /\ h \in Rows /\ Filled(tb, h)
  BY DEF HasRows
<1>2. PICK R : R = RowsIn(tb, h)
  OBVIOUS
<1>6. /\ R \in Seq(FileRow) /\ Len(R) = Len(h)
      /\ \A i \in 1..Len(h) : RowIs(R[i], NamesOf(tb.columns), h[i].t, NumbersOf(h[i].cells))
  BY <1>1, <1>2, RowsInAre
<1>3. /\ R \in Seq(FileRow) /\ Len(R) = Len(h)
      /\ \A i \in 1..Len(h) :
            /\ R[i].t = h[i].t
            /\ \A m \in DOMAIN R[i].cells : \E c \in 1..Len(tb.columns) : tb.columns[c].name = m
            /\ \A c \in 1..Len(tb.columns) :
                  tb.columns[c].name \in DOMAIN R[i].cells
                  /\ R[i].cells[tb.columns[c].name] = NumbersOf(h[i].cells)[c]
  <2>1. PICK names : /\ names = NamesOf(tb.columns) /\ Len(names) = Len(tb.columns)
                     /\ \A c \in 1..Len(tb.columns) : names[c] = tb.columns[c].name
    BY NamesAre
  <2>2. \A i, j \in 1..Len(names) : names[i] = names[j] => i = j
    BY <2>1
  <2>3. \A i \in 1..Len(h) : RowIs(R[i], names, h[i].t, NumbersOf(h[i].cells))
    BY <1>6, <2>1
  <2>4. ASSUME NEW i \in 1..Len(h)
        PROVE  /\ R[i].t = h[i].t
               /\ \A m \in DOMAIN R[i].cells : \E c \in 1..Len(tb.columns) : tb.columns[c].name = m
               /\ \A c \in 1..Len(tb.columns) :
                     tb.columns[c].name \in DOMAIN R[i].cells
                     /\ R[i].cells[tb.columns[c].name] = NumbersOf(h[i].cells)[c]
    <3>1. PICK r : r = R[i]
      OBVIOUS
    <3>2. PICK cells : cells = NumbersOf(h[i].cells)
      OBVIOUS
    <3>3. RowIs(r, names, h[i].t, cells)
      BY <2>3, <3>1, <3>2
    <3>4. /\ r.t = h[i].t
          /\ \A m \in DOMAIN r.cells : \E c \in 1..Len(names) : names[c] = m
          /\ \A c \in 1..Len(names) :
                names[c] \in DOMAIN r.cells /\ r.cells[names[c]] = cells[c]
      BY <2>2, <3>3, Zenon DEF RowIs
    <3>5. PICK A : A = tb.columns
      OBVIOUS
    <3>6. Len(names) = Len(A) /\ \A c \in 1..Len(A) : names[c] = A[c].name
      BY <2>1, <3>5
    <3>7. \A m \in DOMAIN r.cells : \E c \in 1..Len(A) : A[c].name = m
      BY SMTT(30), <3>4, <3>6
    <3>8. \A c \in 1..Len(A) : A[c].name \in DOMAIN r.cells /\ r.cells[A[c].name] = cells[c]
      BY <3>4, <3>6
    <3>9. r.t = h[i].t
      BY <3>4
    <3> QED BY <3>1, <3>2, <3>5, <3>7, <3>8, <3>9, Zenon
  <2> QED BY <1>6, <2>4
<1>4. Len(h) = RowCount(tb) /\ DOMAIN tb.columns = 1..Len(tb.columns)
  BY <1>1 DEF Filled, RowCount, Listed
<1>5. ASSUME NEW c \in 1..Len(tb.columns), NEW i \in 1..Len(h)
      PROVE  PointAt(tb.columns[c].name, R[i]) = CellOf(RowAtIndex(tb, c, i))
  <2>1. PICK m : m = tb.columns[c].name
    OBVIOUS
  <2>2. PICK cell : cell = h[i].cells[c]
    OBVIOUS
  <2>3. h[i].cells \in Seq(Cells) /\ Len(h[i].cells) = Len(tb.columns)
    BY <1>1, KeptTyped DEF Full
  <2>4. cell \in Cells
    BY <2>2, <2>3
  <2>5. m \in DOMAIN R[i].cells /\ R[i].t = h[i].t
        /\ R[i].cells[m] = IF cell = <<>> THEN <<>> ELSE <<cell[1].v>>
    <3>1. PICK numbers : numbers = NumbersOf(h[i].cells)
      OBVIOUS
    <3>2. m \in DOMAIN R[i].cells /\ R[i].t = h[i].t /\ R[i].cells[m] = numbers[c]
      BY SMTT(30), <1>3, <2>1, <3>1
    <3>3. numbers[c] = IF cell = <<>> THEN <<>> ELSE <<cell[1].v>>
      BY <2>2, <2>3, <3>1, NumbersAre
    <3> QED BY <3>2, <3>3
  <2>6. PointAt(m, R[i]) = IF cell = <<>> THEN <<>> ELSE <<[t |-> h[i].t, v |-> cell[1].v]>>
    <3>1. CASE cell = <<>>
      BY <2>5, <3>1 DEF PointAt
    <3>2. CASE cell # <<>>
      <4>1. R[i].cells[m] = <<cell[1].v>>
        BY <2>5, <3>2
      <4>2. R[i].cells[m] # <<>> /\ R[i].cells[m][1] = cell[1].v
        BY <4>1
      <4> QED BY <2>5, <3>2, <4>2 DEF PointAt
    <3> QED BY <3>1, <3>2
  <2>7. PICK p : p = RowAtIndex(tb, c, i)
    OBVIOUS
  <2>8. p = [null |-> IsNullAt(tb.bitmaps[c], i),
             p |-> [t |-> tb.timestamps[i],
                    v |-> IF i <= Len(tb.values[c]) THEN tb.values[c][i] ELSE Default]]
    BY <2>7 DEF RowAtIndex
  <2>9. /\ tb.timestamps[i] = h[i].t /\ i <= Len(tb.values[c])
        /\ tb.values[c][i] = Number(cell)
        /\ (i \in tb.bitmaps[c].nulls <=> cell = <<>>)
    BY <1>1, <1>4, <2>2 DEF Filled
  <2>10. i <= tb.bitmaps[c].size
    <3>1. tb.bitmaps[c] \in [nulls : SUBSET Nat, size : {tb.max_rows}] /\ tb.max_rows \in Nat
      BY <1>1, <1>4 DEF Formed
    <3>2. i <= tb.max_rows
      BY <1>1, <3>1 DEF Bounded, Filled
    <3> QED BY <3>1, <3>2
  <2>11. p.null <=> cell = <<>>
    BY <2>8, <2>9, <2>10 DEF IsNullAt
  <2>12. p.p = [t |-> h[i].t, v |-> Number(cell)]
    BY <2>8, <2>9
  <2>13. CASE cell = <<>>
    BY <2>1, <2>6, <2>7, <2>11, <2>13 DEF CellOf
  <2>14. CASE cell # <<>>
    <3>1. Number(cell) = cell[1].v
      BY <2>14 DEF Number
    <3> QED BY <2>1, <2>6, <2>7, <2>11, <2>12, <2>14, <3>1 DEF CellOf
  <2> QED BY <2>13, <2>14
<1> QED BY <1>2, <1>3, <1>4, <1>5 DEF Represents

-------------------------------------------------------------------------------
(* What is picked of a sequence.                                               *)
Picks(f, s, places) ==
    f = [n \in 0..Len(s) |->
            IF n = 0 THEN <<>>
            ELSE IF n \in places THEN Append(f[n - 1], s[n]) ELSE f[n - 1]]

LEMMA PickRecursion ==
    ASSUME NEW X, NEW s \in Seq(X), NEW places
    PROVE  \E f : Picks(f, s, places)
<1> DEFINE N == Len(s)
           step == [n \in 1..N |-> [x \in Seq(X) |-> IF n \in places THEN Append(x, s[n]) ELSE x]]
<1>1. N \in Nat /\ <<>> \in Seq(X)
  OBVIOUS
<1>2. step \in [1..N -> [Seq(X) -> Seq(X)]]
  <2>1. \A n \in 1..N, x \in Seq(X) : (IF n \in places THEN Append(x, s[n]) ELSE x) \in Seq(X)
    OBVIOUS
  <2> QED BY <2>1
<1> HIDE DEF N, step
<1>3. PICK f \in [0..N -> Seq(X)] : Follows(f, N, <<>>, step)
  BY <1>1, <1>2, RecursionDefines, Zenon
<1> DEFINE More(h, n) == IF n \in places THEN Append(h[n - 1], s[n]) ELSE h[n - 1]
<1>4. \A n \in 0..N : f[n] = IF n = 0 THEN <<>> ELSE More(f, n)
  <2>1. ASSUME NEW n \in 1..N PROVE step[n][f[n - 1]] = More(f, n)
    <3>1. f[n - 1] \in Seq(X)
      BY <1>1
    <3> QED BY <3>1 DEF step
  <2>2. \A n \in 0..N : f[n] = IF n = 0 THEN <<>> ELSE step[n][f[n - 1]]
    BY <1>3 DEF Follows
  <2>3. \A n \in 0..N : n # 0 => n \in 1..N
    BY <1>1
  <2> HIDE DEF More
  <2> QED BY <2>1, <2>2, <2>3
<1>5. f = [n \in 0..N |-> IF n = 0 THEN <<>> ELSE More(f, n)]
  BY <1>4
<1> QED BY <1>5 DEF Picks, N

LEMMA PickedIs ==
    ASSUME NEW X, NEW s \in Seq(X), NEW places
    PROVE  \E f : /\ Picked(s, places) = f[Len(s)] /\ f[0] = <<>>
                  /\ \A n \in 1..Len(s) :
                        f[n] = IF n \in places THEN Append(f[n - 1], s[n]) ELSE f[n - 1]
<1> DEFINE f == CHOOSE f : Picks(f, s, places)
           N == Len(s)
<1>1. Picks(f, s, places)
  BY PickRecursion, Zenon
<1>2. Picked(s, places) = f[N]
  BY Zenon DEF Picked, Picks
<1> HIDE DEF f
<1>3. \A n \in 0..N : f[n] = IF n = 0 THEN <<>>
                             ELSE IF n \in places THEN Append(f[n - 1], s[n]) ELSE f[n - 1]
  BY <1>1 DEF Picks
<1>4. f[0] = <<>> /\ \A n \in 1..N : n \in 0..N /\ n # 0
  BY <1>3
<1> QED BY <1>2, <1>3, <1>4

LEMMA PickedTyped ==
    ASSUME NEW X, NEW s \in Seq(X), NEW places
    PROVE  Picked(s, places) \in Seq({s[i] : i \in {i \in 1..Len(s) : i \in places}})
<1> DEFINE Y == {s[i] : i \in {i \in 1..Len(s) : i \in places}}
           N == Len(s)
<1>1. PICK f : /\ Picked(s, places) = f[N] /\ f[0] = <<>>
               /\ \A n \in 1..N :
                     f[n] = IF n \in places THEN Append(f[n - 1], s[n]) ELSE f[n - 1]
  BY PickedIs
<1> DEFINE T == {n \in Nat : n <= N => f[n] \in Seq(Y)}
<1>2. N \in Nat /\ \A n \in 1..N : n \in places => s[n] \in Y
  OBVIOUS
<1> HIDE DEF N, Y
<1>3. 0 \in T
  <2>1. <<>> \in Seq(Y)
    OBVIOUS
  <2> QED BY <1>1, <2>1
<1>4. ASSUME NEW n \in Nat, n \in T PROVE n + 1 \in T
  <2> SUFFICES ASSUME n + 1 <= N PROVE f[n + 1] \in Seq(Y)
    OBVIOUS
  <2>1. n + 1 \in 1..N /\ (n + 1) - 1 = n /\ f[n] \in Seq(Y)
    BY <1>2, <1>4
  <2>2. f[n + 1] = IF n + 1 \in places THEN Append(f[n], s[n + 1]) ELSE f[n]
    BY <1>1, <2>1
  <2>3. n + 1 \in places => s[n + 1] \in Y
    BY <1>2, <2>1
  <2>4. \A x \in Y, q \in Seq(Y) : Append(q, x) \in Seq(Y)
    OBVIOUS
  <2> QED BY <2>1, <2>2, <2>3, <2>4
<1> HIDE DEF T
<1>5. Nat \subseteq T
  BY <1>3, <1>4, InductiveSet
<1>6. f[N] \in Seq(Y)
  BY <1>2, <1>5 DEF T
<1> QED BY <1>1, <1>6 DEF Y, N

(* One member more, and the same places as far as there were members.          *)
LEMMA PickedMore ==
    ASSUME NEW X, NEW s \in Seq(X), NEW x \in X, NEW places, NEW now,
           \A i \in 1..Len(s) : i \in places <=> i \in now
    PROVE  Picked(Append(s, x), now) =
              IF Len(s) + 1 \in now THEN Append(Picked(s, places), x) ELSE Picked(s, places)
<1> DEFINE N == Len(s)
<1>1. PICK f : /\ Picked(s, places) = f[N] /\ f[0] = <<>>
               /\ \A n \in 1..N :
                     f[n] = IF n \in places THEN Append(f[n - 1], s[n]) ELSE f[n - 1]
  BY PickedIs
<1>2. PICK t : t = Append(s, x)
  OBVIOUS
<1>11. t \in Seq(X)
  BY <1>2
<1>3. N \in Nat /\ Len(t) = N + 1 /\ t[N + 1] = x /\ \A n \in 1..N : t[n] = s[n]
  BY <1>2
<1>4. PICK g : /\ Picked(t, now) = g[N + 1] /\ g[0] = <<>>
               /\ \A n \in 1..(N + 1) :
                     g[n] = IF n \in now THEN Append(g[n - 1], t[n]) ELSE g[n - 1]
  <2>1. \E g : /\ Picked(t, now) = g[Len(t)] /\ g[0] = <<>>
               /\ \A n \in 1..Len(t) :
                     g[n] = IF n \in now THEN Append(g[n - 1], t[n]) ELSE g[n - 1]
    BY <1>11, PickedIs
  <2> QED BY <1>3, <2>1
<1> DEFINE T == {n \in Nat : n <= N => g[n] = f[n]}
<1> HIDE DEF N
<1>5. 0 \in T
  BY <1>1, <1>4
<1>6. ASSUME NEW n \in Nat, n \in T PROVE n + 1 \in T
  <2> SUFFICES ASSUME n + 1 <= N PROVE g[n + 1] = f[n + 1]
    OBVIOUS
  <2>1. n + 1 \in 1..N /\ n + 1 \in 1..(N + 1) /\ (n + 1) - 1 = n /\ g[n] = f[n]
    BY <1>3, <1>6
  <2>2. n + 1 \in places <=> n + 1 \in now
    BY <2>1 DEF N
  <2> QED BY <1>1, <1>3, <1>4, <2>1, <2>2
<1> HIDE DEF T
<1>7. Nat \subseteq T
  BY <1>5, <1>6, InductiveSet
<1>8. g[N] = f[N]
  BY <1>3, <1>7 DEF T
<1>9. N + 1 \in 1..(N + 1) /\ (N + 1) - 1 = N
  BY <1>3
<1>10. g[N + 1] = IF N + 1 \in now THEN Append(f[N], x) ELSE f[N]
  BY <1>3, <1>4, <1>8, <1>9
<1> QED BY <1>1, <1>2, <1>4, <1>10 DEF N

LEMMA PickedAll ==
    ASSUME NEW X, NEW s \in Seq(X), NEW places, 1..Len(s) \subseteq places
    PROVE  Picked(s, places) = s
<1> DEFINE N == Len(s)
<1>1. PICK f : /\ Picked(s, places) = f[N] /\ f[0] = <<>>
               /\ \A n \in 1..N :
                     f[n] = IF n \in places THEN Append(f[n - 1], s[n]) ELSE f[n - 1]
  BY PickedIs
<1> DEFINE T == {n \in Nat : n <= N => f[n] = SubSeq(s, 1, n)}
<1>2. N \in Nat
  OBVIOUS
<1>3. 0 \in T
  <2>1. SubSeq(s, 1, 0) = <<>>
    OBVIOUS
  <2> QED BY <1>1, <2>1
<1>4. ASSUME NEW n \in Nat, n \in T PROVE n + 1 \in T
  <2> SUFFICES ASSUME n + 1 <= N PROVE f[n + 1] = SubSeq(s, 1, n + 1)
    OBVIOUS
  <2>1. n + 1 \in 1..N /\ (n + 1) - 1 = n /\ f[n] = SubSeq(s, 1, n)
    BY <1>2, <1>4
  <2>2. f[n + 1] = Append(SubSeq(s, 1, n), s[n + 1])
    BY <1>1, <2>1
  <2>3. Append(SubSeq(s, 1, n), s[n + 1]) = SubSeq(s, 1, n + 1)
    BY <2>1
  <2> QED BY <2>2, <2>3
<1> HIDE DEF T
<1>5. Nat \subseteq T
  BY <1>3, <1>4, InductiveSet
<1>6. f[N] = SubSeq(s, 1, N)
  BY <1>2, <1>5 DEF T
<1>7. SubSeq(s, 1, N) = s
  OBVIOUS
<1> QED BY <1>1, <1>6, <1>7

(* What is taken of a column for the rows of a device.                         *)
Gathers(x, cells, indices, kind) ==
    /\ x.values \in Seq(Int) /\ Len(x.values) = Len(indices)
    /\ \A i \in 1..Len(indices) :
          /\ i \in x.nulls <=> cells[indices[i]] = <<>>
          /\ cells[indices[i]] # <<>> =>
                x.values[i] = Converted(kind, cells[indices[i]][1])

Collected(x, cells, indices) ==
    /\ x.values \in Seq(Int) /\ Len(x.values) = Len(indices)
    /\ \A i \in 1..Len(indices) :
          /\ i \in x.nulls <=> cells[indices[i]] = <<>>
          /\ cells[indices[i]] # <<>> => x.values[i] = cells[indices[i]][1]

LEMMA NumberCellIs ==
    ASSUME NEW cell \in NumberCells, cell # <<>>
    PROVE  cell[1] \in Int /\ Len(cell) = 1
  BY DEF NumberCells

LEMMA ConvertedTyped ==
    ASSUME NEW kind, NEW v \in Int
    PROVE  Converted(kind, v) \in Int
<1>1. I32Max \in Int /\ I64Max \in Int
  BY NumberAssumption, SizeAssumption
<1> QED BY <1>1 DEF Converted, Wrapped

LEMMA TakenIs ==
    ASSUME NEW cells \in Seq(NumberCells), NEW indices \in Seq(1..Len(cells)),
           NEW x, x = Taken(cells, indices)
    PROVE  Collected(x, cells, indices)
<1> DEFINE value(i) == IF cells[indices[i]] = <<>> THEN Default ELSE cells[indices[i]][1]
<1>1. PICK n \in Nat : n = Len(indices) /\ DOMAIN indices = 1..n
  OBVIOUS
<1>2. ASSUME NEW i \in 1..n PROVE value(i) \in Int
  <2>1. PICK cell : cell = cells[indices[i]]
    OBVIOUS
  <2>2. cell \in NumberCells
    <3>1. indices[i] \in 1..Len(cells)
      BY <1>1
    <3> QED BY <2>1, <3>1
  <2> QED BY <2>1, <2>2, NumberCellIs, TabletAssumption
<1>3. /\ x.values = [i \in 1..n |-> value(i)]
      /\ x.nulls = {i \in 1..n : cells[indices[i]] = <<>>}
  BY <1>1 DEF Taken
<1>4. \A i \in 1..n : cells[indices[i]] # <<>> => value(i) = cells[indices[i]][1]
  OBVIOUS
<1> HIDE DEF value
<1>5. x.values \in Seq(Int) /\ Len(x.values) = n /\ \A i \in 1..n : x.values[i] = value(i)
  BY <1>2, <1>3
<1> QED BY <1>1, <1>3, <1>4, <1>5 DEF Collected

(* Indices that are next to each other are a range.                            *)
LEMMA NextToEachOther ==
    ASSUME NEW indices \in Seq(Nat), IsContiguous(indices)
    PROVE  \A i \in 1..Len(indices) : indices[i] = indices[1] + i - 1
<1>1. PICK n \in Nat : n = Len(indices)
  OBVIOUS
<1>2. n > 1 /\ \A i \in 1..(n - 1) : indices[i + 1] = indices[i] + 1
  BY <1>1 DEF IsContiguous
<1>3. \A i \in 1..n : indices[i] \in Nat
  BY <1>1
<1> DEFINE T == {k \in Nat : k + 1 <= n => indices[k + 1] = indices[1] + k}
<1>4. 0 \in T
  BY <1>2, <1>3
<1>5. ASSUME NEW k \in Nat, k \in T PROVE k + 1 \in T
  <2> SUFFICES ASSUME (k + 1) + 1 <= n PROVE indices[(k + 1) + 1] = indices[1] + (k + 1)
    OBVIOUS
  <2>1. k + 1 \in 1..(n - 1) /\ (k + 1) + 1 = k + 2 /\ k + 1 <= n /\ 1 \in 1..n
    BY <1>2
  <2>2. indices[(k + 1) + 1] = indices[k + 1] + 1
    BY <1>2, <2>1
  <2>3. indices[k + 1] = indices[1] + k
    BY <1>5, <2>1
  <2> QED BY <1>3, <2>1, <2>2, <2>3
<1> HIDE DEF T
<1>6. Nat \subseteq T
  BY <1>4, <1>5, InductiveSet
<1>7. ASSUME NEW i \in 1..n PROVE indices[i] = indices[1] + i - 1
  <2>1. i - 1 \in Nat /\ (i - 1) + 1 = i /\ 1 \in 1..n
    BY <1>2
  <2>2. i - 1 \in T
    BY <1>6, <2>1
  <2>3. indices[(i - 1) + 1] = indices[1] + (i - 1)
    BY <2>1, <2>2 DEF T
  <2> QED BY <1>3, <2>1, <2>3
<1> QED BY <1>1, <1>7

LEMMA NumbersExtracted ==
    ASSUME NEW cells \in Seq(NumberCells), NEW indices \in Seq(1..Len(cells)),
           NEW x, x = ExtractNumbers(cells, indices)
    PROVE  Collected(x, cells, indices)
<1> DEFINE plain == \A i \in DOMAIN cells : cells[i] # <<>>
<1>1. CASE ~(IsContiguous(indices) /\ plain)
  <2>1. x = Taken(cells, indices)
    BY <1>1 DEF ExtractNumbers
  <2> QED BY <2>1, TakenIs
<1>2. CASE IsContiguous(indices) /\ plain
  <2>1. PICK N \in Nat : N = Len(cells) /\ DOMAIN cells = 1..N
    OBVIOUS
  <2>2. PICK n \in Nat : n = Len(indices)
    OBVIOUS
  <2>3. n > 1 /\ \A i \in 1..n : indices[i] \in 1..N
    BY <1>2, <2>1, <2>2 DEF IsContiguous
  <2>4. indices \in Seq(Nat)
    <3>1. 1..Len(cells) \subseteq Nat
      BY <2>1
    <3> QED BY <3>1
  <2>5. \A i \in 1..n : indices[i] = indices[1] + i - 1
    BY <1>2, <2>2, <2>4, NextToEachOther
  <2>6. PICK low \in 1..N : low = indices[1] /\ Head(indices) = low
    BY <2>2, <2>3
  <2>7. PICK high \in 1..N : high = low + n - 1 /\ Last(indices) = high
    <3>1. Last(indices) = indices[n]
      BY <2>2, <2>3 DEF Last
    <3> QED BY <2>3, <2>5, <2>6, <3>1
  <2>8. PICK slice : slice = SubSeq(cells, low, high)
    OBVIOUS
  <2>9. /\ slice \in Seq(NumberCells) /\ Len(slice) = n /\ DOMAIN slice = 1..n
        /\ \A i \in 1..n : slice[i] = cells[low + i - 1]
    BY <2>1, <2>2, <2>3, <2>7, <2>8
  <2>10. x.values = [i \in DOMAIN slice |-> slice[i][1]] /\ x.nulls = {}
    BY <1>2, <2>6, <2>7, <2>8 DEF ExtractNumbers
  <2>11. ASSUME NEW i \in 1..n
         PROVE  slice[i] = cells[indices[i]] /\ slice[i] # <<>> /\ slice[i][1] \in Int
    <3>1. slice[i] = cells[indices[i]] /\ indices[i] \in 1..N
      BY <2>3, <2>5, <2>6, <2>9
    <3>2. slice[i] \in NumberCells /\ slice[i] # <<>>
      BY <1>2, <2>1, <2>9, <3>1
    <3> QED BY <3>1, <3>2, NumberCellIs
  <2>12. x.values \in Seq(Int) /\ Len(x.values) = n
         /\ \A i \in 1..n : x.values[i] = slice[i][1]
    BY <2>9, <2>10, <2>11
  <2> QED BY <2>2, <2>10, <2>11, <2>12 DEF Collected
<1> QED BY <1>1, <1>2

LEMMA UnsignedExtracted ==
    ASSUME NEW cells \in Seq(NumberCells), NEW indices \in Seq(1..Len(cells)), NEW kind,
           NEW x, x = ExtractUnsigned(cells, indices, kind)
    PROVE  Gathers(x, cells, indices, kind)
<1>1. PICK taken : taken = Taken(cells, indices)
  OBVIOUS
<1>2. Collected(taken, cells, indices)
  BY <1>1, TakenIs
<1>3. PICK s \in Seq(Int) : s = taken.values
  BY <1>2 DEF Collected
<1>4. taken = [values |-> s, nulls |-> taken.nulls]
  BY <1>1, <1>3 DEF Taken
<1>5. x = [taken EXCEPT !.values = [i \in DOMAIN @ |-> Converted(kind, @[i])]]
  BY <1>1 DEF ExtractUnsigned
<1>6. x.values = [i \in DOMAIN s |-> Converted(kind, s[i])] /\ x.nulls = taken.nulls
  BY <1>4, <1>5
<1>7. \A i \in DOMAIN s : Converted(kind, s[i]) \in Int
  BY ConvertedTyped
<1>8. x.values \in Seq(Int) /\ Len(x.values) = Len(s)
      /\ \A i \in 1..Len(s) : x.values[i] = Converted(kind, s[i])
  <2>1. PICK n \in Nat : n = Len(s) /\ DOMAIN s = 1..n
    OBVIOUS
  <2>2. PICK g : g = x.values
    OBVIOUS
  <2>3. g = [i \in 1..n |-> Converted(kind, s[i])] /\ \A i \in 1..n : Converted(kind, s[i]) \in Int
    BY <1>6, <1>7, <2>1, <2>2
  <2>4. g \in Seq(Int) /\ Len(g) = n /\ \A i \in 1..n : g[i] = Converted(kind, s[i])
    BY <2>3
  <2> QED BY <2>1, <2>2, <2>4
<1> QED BY <1>2, <1>3, <1>6, <1>8 DEF Gathers, Collected

LEMMA ColumnExtracted ==
    ASSUME NEW column, column.cells \in Seq(NumberCells),
           NEW indices \in Seq(1..Len(column.cells)), NEW x, x = ExtractColumn(column, indices)
    PROVE  Gathers(x, column.cells, indices, column.type)
<1>1. CASE column.type \in {"UInt32", "UInt64"}
  <2>1. x = ExtractUnsigned(column.cells, indices, column.type)
    BY <1>1 DEF ExtractColumn
  <2> QED BY <2>1, UnsignedExtracted
<1>2. CASE column.type \notin {"UInt32", "UInt64"}
  <2>1. \A v : Converted(column.type, v) = v
    BY <1>2 DEF Converted
  <2>2. x = ExtractNumbers(column.cells, indices) \/ x = Taken(column.cells, indices)
    BY <1>2 DEF ExtractColumn
  <2>3. Collected(x, column.cells, indices)
    BY <2>2, TakenIs, NumbersExtracted
  <2> QED BY <2>1, <2>3 DEF Gathers, Collected
<1> QED BY <1>1, <1>2

(* The rows of a device in a batch.                                            *)
LEMMA BatchTyped ==
    ASSUME NEW batch \in BATCHES
    PROVE  /\ batch.devices \in Seq(Devices \cup {NoDevice}) /\ Len(batch.devices) \in Nat
           /\ DOMAIN batch.devices = 1..Len(batch.devices)
           /\ DOMAIN batch.times = 1..Len(batch.devices)
           /\ \A i \in 1..Len(batch.devices) : TimesOf(batch)[i] \in Stamps
           /\ Len(batch.columns) \in Nat /\ DOMAIN batch.columns = 1..Len(batch.columns)
           /\ \A c \in 1..Len(batch.columns) :
                 /\ batch.columns[c].name \in DOMAIN TypeOf
                 /\ batch.columns[c].cells \in Seq(NumberCells)
                 /\ Len(batch.columns[c].cells) = Len(batch.devices)
<1>1. /\ batch.devices \in Seq(Devices \cup {NoDevice})
      /\ batch.times \in Seq((I64Min..I64Max) \cup {NullTime})
      /\ batch.columns \in Seq([name : DOMAIN TypeOf, type : STRING, cells : Seq(NumberCells)])
      /\ Len(batch.times) = Len(batch.devices)
      /\ \A c \in DOMAIN batch.columns : Len(batch.columns[c].cells) = Len(batch.devices)
  BY FileAssumption
<1>2. PICK n \in Nat : n = Len(batch.devices) /\ DOMAIN batch.devices = 1..n
                       /\ DOMAIN batch.times = 1..n
  BY <1>1
<1>3. \A i \in 1..n : TimesOf(batch)[i] \in Stamps
  <2>1. I64Min \in Int /\ I64Max \in Int /\ I64Min <= 0 /\ 0 <= I64Max
    BY NumberAssumption, SizeAssumption
  <2>2. \A i \in 1..n : batch.times[i] \in Stamps \cup {NullTime}
    BY <1>1, <1>2 DEF Stamps
  <2>3. 0 \in Stamps
    BY <2>1 DEF Stamps
  <2>4. \A i \in 1..n : TimesOf(batch)[i] = IF batch.times[i] = NullTime THEN 0 ELSE batch.times[i]
    BY <1>2 DEF TimesOf
  <2> QED BY <2>2, <2>3, <2>4
<1> DEFINE Shape == [name : DOMAIN TypeOf, type : STRING, cells : Seq(NumberCells)]
<1>4. \A x \in Shape : x.name \in DOMAIN TypeOf /\ x.cells \in Seq(NumberCells)
  OBVIOUS
<1>5. batch.columns \in Seq(Shape)
  BY <1>1
<1> HIDE DEF Shape
<1>6. Len(batch.columns) \in Nat /\ DOMAIN batch.columns = 1..Len(batch.columns)
      /\ \A c \in 1..Len(batch.columns) : batch.columns[c] \in Shape
  BY <1>5
<1> QED BY <1>1, <1>2, <1>3, <1>4, <1>6

LEMMA IndicesAre ==
    ASSUME NEW batch \in BATCHES, NEW d
    PROVE  RowsOf(batch, d) \in Seq(1..Len(batch.devices))
<1>1. PICK n \in Nat : n = Len(batch.devices) /\ DOMAIN batch.devices = 1..n
  BY BatchTyped
<1>2. PICK s : s = [i \in 1..n |-> i]
  OBVIOUS
<1>3. PICK P : P = {i \in 1..n : batch.devices[i] = d}
  OBVIOUS
<1>4. s \in Seq(1..n) /\ Len(s) = n
  BY <1>2
<1>5. RowsOf(batch, d) = Picked(s, P)
  BY <1>1, <1>2, <1>3 DEF RowsOf
<1>6. Picked(s, P) \in Seq({s[i] : i \in {i \in 1..n : i \in P}})
  BY <1>4, PickedTyped
<1>7. PICK Y : Y = {s[i] : i \in {i \in 1..n : i \in P}}
  OBVIOUS
<1>8. Y \subseteq 1..n
  BY <1>2, <1>7
<1>9. Picked(s, P) \in Seq(Y)
  BY <1>6, <1>7
<1>10. PICK q \in Seq(Y) : q = Picked(s, P)
  BY <1>9
<1>11. q \in Seq(1..n)
  <2>1. PICK m \in Nat : m = Len(q) /\ q \in [1..m -> Y]
    OBVIOUS
  <2>2. q \in [1..m -> 1..n]
    BY <1>8, <2>1
  <2> QED BY <2>2, FunctionsAreSequences
<1> QED BY <1>1, <1>5, <1>10, <1>11

(* The tablets of a batch.                                                     *)
RowsGiven(batch, d) ==
    LET indices == RowsOf(batch, d)
    IN  [i \in DOMAIN indices |->
            RowOf(NamesOf(batch.columns), TimesOf(batch)[indices[i]], CellsAt(batch, indices[i]))]

Built(tb, batch, d, indices) ==
    /\ tb.device = d /\ tb.columns = ColumnsOf(batch)
    /\ tb.timestamps = [i \in DOMAIN indices |-> TimesOf(batch)[indices[i]]]
    /\ tb.values = [c \in DOMAIN ColumnsOf(batch) |->
                       ExtractColumn(batch.columns[c], indices).values]
    /\ tb.bitmaps = [c \in DOMAIN ColumnsOf(batch) |->
                        [nulls |-> ExtractColumn(batch.columns[c], indices).nulls,
                         size |-> Len(indices)]]

LEMMA BuiltIs ==
    ASSUME NEW batch \in BATCHES, NEW d, NEW tb, tb = BuildTablet(batch, d)
    PROVE  Built(tb, batch, d, RowsOf(batch, d))
<1>1. PICK indices : indices = RowsOf(batch, d)
  OBVIOUS
<1>2. PICK columns : columns = ColumnsOf(batch)
  OBVIOUS
<1>3. PICK times : times = TimesOf(batch)
  OBVIOUS
<1>4. PICK taken : taken = [c \in DOMAIN columns |-> ExtractColumn(batch.columns[c], indices)]
  OBVIOUS
<1>5. PICK n : n = Len(indices)
  OBVIOUS
<1>6. tb = [NewTablet(d, columns, n, FALSE) EXCEPT
               !.timestamps = [i \in DOMAIN indices |-> times[indices[i]]],
               !.values  = [c \in DOMAIN columns |-> taken[c].values],
               !.bitmaps = [c \in DOMAIN columns |->
                               [nulls |-> taken[c].nulls, size |-> n]]]
  BY <1>1, <1>2, <1>3, <1>4, <1>5 DEF BuildTablet
<1>7. PICK t0 : t0 = NewTablet(d, columns, n, FALSE)
  OBVIOUS
<1>8. t0 = [device |-> d, columns |-> columns, max_rows |-> n,
            aligned |-> FALSE, timestamps |-> <<>>,
            values  |-> [c \in DOMAIN columns |-> <<>>],
            bitmaps |-> [c \in DOMAIN columns |-> NewBitMap(n)]]
  BY <1>7 DEF NewTablet
<1>9. /\ tb.device = d /\ tb.columns = columns
      /\ tb.timestamps = [i \in DOMAIN indices |-> times[indices[i]]]
      /\ tb.values = [c \in DOMAIN columns |-> taken[c].values]
      /\ tb.bitmaps = [c \in DOMAIN columns |-> [nulls |-> taken[c].nulls, size |-> n]]
  <2>1. PICK ts : ts = [i \in DOMAIN indices |-> times[indices[i]]]
    OBVIOUS
  <2>2. PICK vs : vs = [c \in DOMAIN columns |-> taken[c].values]
    OBVIOUS
  <2>3. PICK bs : bs = [c \in DOMAIN columns |-> [nulls |-> taken[c].nulls, size |-> n]]
    OBVIOUS
  <2>4. tb = [t0 EXCEPT !.timestamps = ts, !.values = vs, !.bitmaps = bs]
    BY <1>6, <1>7, <2>1, <2>2, <2>3
  <2>5. DOMAIN t0 = {"device", "columns", "max_rows", "aligned", "timestamps", "values", "bitmaps"}
        /\ t0.device = d /\ t0.columns = columns
    BY <1>8
  <2>6. /\ tb.device = d /\ tb.columns = columns /\ tb.timestamps = ts
        /\ tb.values = vs /\ tb.bitmaps = bs
    BY <1>8, <2>4, <2>5
  <2> QED BY <2>1, <2>2, <2>3, <2>6
<1>10. \A c \in DOMAIN columns : taken[c] = ExtractColumn(batch.columns[c], indices)
  BY <1>4
<1>11. /\ [c \in DOMAIN columns |-> taken[c].values] =
             [c \in DOMAIN columns |-> ExtractColumn(batch.columns[c], indices).values]
       /\ [c \in DOMAIN columns |-> [nulls |-> taken[c].nulls, size |-> n]] =
             [c \in DOMAIN columns |->
                 [nulls |-> ExtractColumn(batch.columns[c], indices).nulls, size |-> n]]
  BY <1>10
<1> QED BY <1>1, <1>2, <1>3, <1>5, <1>9, <1>11 DEF Built

LEMMA ColumnsOfAre ==
    ASSUME NEW batch \in BATCHES
    PROVE  /\ Len(ColumnsOf(batch)) = Len(batch.columns)
           /\ DOMAIN ColumnsOf(batch) = 1..Len(batch.columns)
           /\ \A c \in 1..Len(batch.columns) : ColumnsOf(batch)[c].name = batch.columns[c].name
<1>1. PICK m \in Nat : m = Len(batch.columns) /\ DOMAIN batch.columns = 1..m
  BY BatchTyped
<1> QED BY <1>1 DEF ColumnsOf

LEMMA GatheredIs ==
    ASSUME NEW batch \in BATCHES, NEW d, NEW c \in 1..Len(batch.columns)
    PROVE  Gathers(ExtractColumn(batch.columns[c], RowsOf(batch, d)), batch.columns[c].cells,
                   RowsOf(batch, d), batch.columns[c].type)
<1>1. PICK column : column = batch.columns[c]
  OBVIOUS
<1>2. PICK indices : indices = RowsOf(batch, d)
  OBVIOUS
<1>3. column.cells \in Seq(NumberCells) /\ Len(column.cells) = Len(batch.devices)
  BY <1>1, BatchTyped
<1>4. indices \in Seq(1..Len(column.cells))
  BY <1>2, <1>3, IndicesAre
<1>5. PICK x : x = ExtractColumn(column, indices)
  OBVIOUS
<1>6. Gathers(x, column.cells, indices, column.type)
  BY <1>3, <1>4, <1>5, ColumnExtracted
<1> QED BY <1>1, <1>2, <1>5, <1>6

LEMMA BuiltWritable ==
    ASSUME NEW batch \in BATCHES, TimesOutcome(batch) = "ok", Extractable(batch),
           NEW d \in Devices, d \in ToSet(batch.devices), NEW tb, tb = BuildTablet(batch, d)
    PROVE  Writable(tb)
<1>1. PICK indices : indices = RowsOf(batch, d)
  OBVIOUS
<1>2. Built(tb, batch, d, indices)
  BY <1>1, BuiltIs
<1>3. tb.device \in Devices /\ tb.columns \in ColumnLists(tb.device)
  BY <1>2 DEF Built, ColumnLists
<1>4. PICK n \in Nat : n = Len(batch.devices)
  BY BatchTyped
<1>5. indices \in Seq(1..n)
  BY <1>1, <1>4, IndicesAre
<1>6. PICK k \in Nat : k = Len(indices) /\ DOMAIN indices = 1..k
                       /\ \A i \in 1..k : indices[i] \in 1..n
  BY <1>5
<1>7. PICK times : times = TimesOf(batch)
  OBVIOUS
<1>8. tb.timestamps = [i \in 1..k |-> times[indices[i]]]
      /\ \A i \in 1..k : times[indices[i]] \in Stamps
  <2>1. \A i \in 1..n : times[i] \in Stamps
    BY <1>4, <1>7, BatchTyped
  <2> QED BY <1>2, <1>6, <1>7, <2>1 DEF Built
<1>9. tb.timestamps \in Seq(Stamps)
  BY <1>8
<1>10. tb.values \in [DOMAIN tb.columns -> Seq(Int)]
  <2>1. PICK m \in Nat : m = Len(batch.columns) /\ DOMAIN ColumnsOf(batch) = 1..m
    BY BatchTyped, ColumnsOfAre
  <2>2. tb.values = [c \in 1..m |-> ExtractColumn(batch.columns[c], indices).values]
        /\ DOMAIN tb.columns = 1..m
    BY <1>2, <2>1 DEF Built
  <2>3. \A c \in 1..m : ExtractColumn(batch.columns[c], indices).values \in Seq(Int)
    BY <1>1, <2>1, GatheredIs DEF Gathers
  <2> QED BY <2>2, <2>3
<1> QED BY <1>3, <1>9, <1>10 DEF Writable

LEMMA CellsAtAre ==
    ASSUME NEW batch \in BATCHES, NEW i \in 1..Len(batch.devices)
    PROVE  /\ CellsAt(batch, i) \in Seq(NumberCells)
           /\ Len(CellsAt(batch, i)) = Len(batch.columns)
           /\ \A c \in 1..Len(batch.columns) :
                 CellsAt(batch, i)[c] =
                    IF batch.columns[c].cells[i] = <<>> THEN <<>>
                    ELSE <<Converted(batch.columns[c].type, batch.columns[c].cells[i][1])>>
<1> DEFINE of(c) == IF batch.columns[c].cells[i] = <<>> THEN <<>>
                    ELSE <<Converted(batch.columns[c].type, batch.columns[c].cells[i][1])>>
<1>1. PICK m \in Nat : m = Len(batch.columns) /\ DOMAIN batch.columns = 1..m
  BY BatchTyped
<1>2. ASSUME NEW c \in 1..m PROVE of(c) \in NumberCells
  <2>1. PICK column : column = batch.columns[c]
    OBVIOUS
  <2>2. column.cells \in Seq(NumberCells) /\ i \in 1..Len(column.cells)
    BY <1>1, <2>1, BatchTyped
  <2>3. PICK cell \in NumberCells : cell = column.cells[i]
    BY <2>2
  <2>4. CASE cell = <<>>
    BY <2>1, <2>3, <2>4 DEF NumberCells
  <2>5. CASE cell # <<>>
    <3>1. PICK v \in Int : v = Converted(column.type, cell[1])
      BY <2>5, NumberCellIs, ConvertedTyped
    <3>2. <<v>> \in NumberCells
      BY DEF NumberCells
    <3> QED BY <2>1, <2>3, <2>5, <3>1, <3>2
  <2> QED BY <2>4, <2>5
<1>3. CellsAt(batch, i) = [c \in 1..m |-> of(c)]
  BY <1>1 DEF CellsAt
<1> HIDE DEF of
<1>4. /\ CellsAt(batch, i) \in Seq(NumberCells) /\ Len(CellsAt(batch, i)) = m
      /\ \A c \in 1..m : CellsAt(batch, i)[c] = of(c)
  BY <1>2, <1>3
<1> QED BY <1>1, <1>4 DEF of

LEMMA RowsGivenAre ==
    ASSUME Meant, NEW batch \in BATCHES, NEW d, NEW indices, indices = RowsOf(batch, d)
    PROVE  /\ RowsGiven(batch, d) \in Seq(FileRow) /\ Len(RowsGiven(batch, d)) = Len(indices)
           /\ \A i \in 1..Len(indices) :
                 RowIs(RowsGiven(batch, d)[i], NamesOf(batch.columns),
                       TimesOf(batch)[indices[i]], CellsAt(batch, indices[i]))
<1> DEFINE of(i) == RowOf(NamesOf(batch.columns), TimesOf(batch)[indices[i]],
                          CellsAt(batch, indices[i]))
<1>1. PICK n \in Nat : n = Len(batch.devices)
  BY BatchTyped
<1>2. indices \in Seq(1..n)
  BY <1>1, IndicesAre
<1>3. PICK k \in Nat : k = Len(indices) /\ DOMAIN indices = 1..k
                       /\ \A i \in 1..k : indices[i] \in 1..n
  BY <1>2
<1>4. RowsGiven(batch, d) = [i \in 1..k |-> of(i)]
  BY <1>3 DEF RowsGiven
<1>5. Listed(batch.columns)
  BY BatchTyped DEF Meant, Listed
<1>6. ASSUME NEW i \in 1..k
      PROVE  RowIs(of(i), NamesOf(batch.columns), TimesOf(batch)[indices[i]],
                   CellsAt(batch, indices[i]))
  <2>1. PICK j \in 1..n : j = indices[i]
    BY <1>3
  <2>2. PICK t \in Stamps : t = TimesOf(batch)[j]
    BY <1>1, <2>1, BatchTyped
  <2>3. PICK cells \in Seq(NumberCells) : cells = CellsAt(batch, j)
                                         /\ Len(cells) = Len(batch.columns)
    BY <1>1, <2>1, CellsAtAre
  <2>4. PICK names \in Seq(Measurements) : names = NamesOf(batch.columns)
                                           /\ Len(names) = Len(batch.columns)
    BY <1>5, NamesAre
  <2>5. PICK r : r = of(i)
    OBVIOUS
  <2>6. r = RowOf(names, t, cells)
    BY <2>1, <2>2, <2>3, <2>4, <2>5
  <2> HIDE DEF of
  <2>7. RowIs(r, names, t, cells)
    BY <2>3, <2>4, <2>6, RowOfIs
  <2> QED BY <2>1, <2>2, <2>3, <2>4, <2>5, <2>7
<1> HIDE DEF of
<1>7. \A i \in 1..k : of(i) \in FileRow
  BY <1>6 DEF RowIs
<1>8. RowsGiven(batch, d) \in Seq(FileRow) /\ Len(RowsGiven(batch, d)) = k
      /\ \A i \in 1..k : RowsGiven(batch, d)[i] = of(i)
  BY <1>4, <1>7
<1> QED BY <1>3, <1>6, <1>8

LEMMA BatchRepresents ==
    ASSUME Meant, NEW batch \in BATCHES, NEW d, NEW tb, tb = BuildTablet(batch, d),
           \A k, l \in 1..Len(batch.columns) :
              batch.columns[k].name = batch.columns[l].name => k = l
    PROVE  Represents(tb, RowsGiven(batch, d))
<1>1. PICK indices : indices = RowsOf(batch, d)
  OBVIOUS
<1>2. Built(tb, batch, d, indices)
  BY <1>1, BuiltIs
<1>3. PICK n \in Nat : n = Len(batch.devices)
  BY BatchTyped
<1>4. indices \in Seq(1..n)
  BY <1>1, <1>3, IndicesAre
<1>5. PICK k \in Nat : k = Len(indices) /\ DOMAIN indices = 1..k
                       /\ \A i \in 1..k : indices[i] \in 1..n
  BY <1>4
<1>6. PICK A : A = batch.columns
  OBVIOUS
<1>7. PICK names : names = NamesOf(A) /\ Len(names) = Len(A)
                   /\ \A c \in 1..Len(A) : names[c] = A[c].name
  <2>1. Listed(A)
    BY <1>6, BatchTyped DEF Meant, Listed
  <2> QED BY <2>1, NamesAre
<1>8. \A i, j \in 1..Len(names) : names[i] = names[j] => i = j
  BY <1>6, <1>7
<1>9. PICK R : R = RowsGiven(batch, d)
  OBVIOUS
<1>10. /\ R \in Seq(FileRow) /\ Len(R) = k
       /\ \A i \in 1..k : RowIs(R[i], names, TimesOf(batch)[indices[i]], CellsAt(batch, indices[i]))
  BY <1>1, <1>5, <1>6, <1>7, <1>9, RowsGivenAre
<1>11. RowCount(tb) = k
  BY <1>2, <1>5 DEF Built, RowCount
<1>12. /\ DOMAIN tb.columns = 1..Len(A)
       /\ \A c \in 1..Len(A) : tb.columns[c].name = names[c]
  BY <1>2, <1>6, <1>7, ColumnsOfAre DEF Built
<1>13. ASSUME NEW i \in 1..k
       PROVE  /\ R[i].t = TimesOf(batch)[indices[i]]
              /\ \A m \in DOMAIN R[i].cells : \E c \in 1..Len(A) : names[c] = m
              /\ \A c \in 1..Len(A) :
                    names[c] \in DOMAIN R[i].cells
                    /\ R[i].cells[names[c]] = CellsAt(batch, indices[i])[c]
  <2>1. PICK r : r = R[i]
    OBVIOUS
  <2>2. PICK cells : cells = CellsAt(batch, indices[i])
    OBVIOUS
  <2>3. PICK t : t = TimesOf(batch)[indices[i]]
    OBVIOUS
  <2>4. RowIs(r, names, t, cells)
    BY <1>10, <2>1, <2>2, <2>3
  <2>5. /\ r.t = t
        /\ \A m \in DOMAIN r.cells : \E c \in 1..Len(names) : names[c] = m
        /\ \A c \in 1..Len(names) :
              names[c] \in DOMAIN r.cells /\ r.cells[names[c]] = cells[c]
    BY <1>8, <2>4, Zenon DEF RowIs
  <2> QED BY <1>7, <2>1, <2>2, <2>3, <2>5
<1>14. ASSUME NEW c \in 1..Len(A), NEW i \in 1..k
       PROVE  PointAt(names[c], R[i]) = CellOf(RowAtIndex(tb, c, i))
  <2>1. PICK column : column = batch.columns[c]
    OBVIOUS
  <2>2. PICK j \in 1..n : j = indices[i]
    BY <1>5
  <2>3. PICK cell : cell = column.cells[j]
    OBVIOUS
  <2>4. PICK t : t = TimesOf(batch)[j]
    OBVIOUS
  <2>5. PICK m : m = names[c]
    OBVIOUS
  <2>6. R[i].t = t /\ m \in DOMAIN R[i].cells
        /\ R[i].cells[m] = IF cell = <<>> THEN <<>> ELSE <<Converted(column.type, cell[1])>>
    <3>1. PICK cells : cells = CellsAt(batch, j)
      OBVIOUS
    <3>2. R[i].t = t /\ m \in DOMAIN R[i].cells /\ R[i].cells[m] = cells[c]
      BY <1>13, <2>2, <2>4, <2>5, <3>1
    <3>3. cells[c] = IF cell = <<>> THEN <<>> ELSE <<Converted(column.type, cell[1])>>
      BY <1>3, <1>6, <2>1, <2>3, <3>1, CellsAtAre
    <3> QED BY <3>2, <3>3
  <2>7. PICK x : x = ExtractColumn(column, indices)
    OBVIOUS
  <2>8. Gathers(x, column.cells, indices, column.type)
    BY <1>1, <1>6, <2>1, <2>7, GatheredIs
  <2>9. /\ Len(x.values) = k /\ (i \in x.nulls <=> cell = <<>>)
        /\ cell # <<>> => x.values[i] = Converted(column.type, cell[1])
    BY <1>5, <2>2, <2>3, <2>8 DEF Gathers
  <2>10. /\ tb.timestamps[i] = t /\ tb.values[c] = x.values
         /\ tb.bitmaps[c] = [nulls |-> x.nulls, size |-> k]
    <3>1. c \in DOMAIN ColumnsOf(batch)
      BY <1>6, ColumnsOfAre
    <3>2. tb.timestamps[i] = t
      <4>1. PICK ts : ts = TimesOf(batch)
        OBVIOUS
      <4>2. tb.timestamps = [l \in DOMAIN indices |-> ts[indices[l]]]
        BY <1>2, <4>1 DEF Built
      <4> QED BY <1>5, <2>2, <2>4, <4>1, <4>2
    <3>3. tb.values[c] = x.values
      BY <1>2, <2>1, <2>7, <3>1 DEF Built
    <3>4. tb.bitmaps[c] = [nulls |-> x.nulls, size |-> k]
      BY <1>2, <1>5, <2>1, <2>7, <3>1 DEF Built
    <3> QED BY <3>2, <3>3, <3>4
  <2>11. PICK p : p = RowAtIndex(tb, c, i)
    OBVIOUS
  <2>12. p = [null |-> IsNullAt(tb.bitmaps[c], i),
              p |-> [t |-> tb.timestamps[i],
                     v |-> IF i <= Len(tb.values[c]) THEN tb.values[c][i] ELSE Default]]
    BY <2>11 DEF RowAtIndex
  <2>13. (p.null <=> cell = <<>>) /\ p.p = [t |-> t, v |-> x.values[i]]
    <3>1. tb.bitmaps[c].size = k /\ tb.bitmaps[c].nulls = x.nulls
      BY <2>10
    <3>2. p.null <=> cell = <<>>
      <4>1. PICK bits : bits = tb.bitmaps[c]
        OBVIOUS
      <4>2. bits.size = k /\ bits.nulls = x.nulls
        BY <3>1, <4>1
      <4>3. i <= k /\ (i \in bits.nulls <=> cell = <<>>)
        BY <2>9, <4>2
      <4>4. p.null = IsNullAt(bits, i)
        BY <2>12, <4>1
      <4>5. IsNullAt(bits, i) <=> cell = <<>>
        BY <4>2, <4>3 DEF IsNullAt
      <4> QED BY <4>4, <4>5
    <3>3. p.p = [t |-> t, v |-> x.values[i]]
      BY <2>9, <2>10, <2>12
    <3> QED BY <3>2, <3>3
  <2>14. CASE cell = <<>>
    BY <2>5, <2>6, <2>11, <2>13, <2>14 DEF CellOf, PointAt
  <2>15. CASE cell # <<>>
    <3>1. PICK v : v = Converted(column.type, cell[1])
      OBVIOUS
    <3>2. R[i].cells[m] = <<v>> /\ <<v>> # <<>> /\ <<v>>[1] = v
      BY <2>6, <2>15, <3>1
    <3>3. PointAt(m, R[i]) = <<[t |-> t, v |-> v]>>
      BY <2>6, <3>2 DEF PointAt
    <3>4. CellOf(p) = <<[t |-> t, v |-> v]>>
      BY <2>9, <2>13, <2>15, <3>1 DEF CellOf
    <3> QED BY <2>5, <2>11, <3>3, <3>4
  <2> QED BY <2>14, <2>15
<1>15. ASSUME NEW c \in DOMAIN tb.columns, NEW i \in 1..k
       PROVE  PointAt(tb.columns[c].name, R[i]) = CellOf(RowAtIndex(tb, c, i))
  <2>1. c \in 1..Len(A) /\ tb.columns[c].name = names[c]
    BY <1>12
  <2> QED BY <1>14, <2>1
<1>16. \A i \in 1..k : \A m \in DOMAIN R[i].cells :
          \E c \in DOMAIN tb.columns : tb.columns[c].name = m
  <2>1. ASSUME NEW i \in 1..k, NEW m \in DOMAIN R[i].cells
        PROVE  \E c \in DOMAIN tb.columns : tb.columns[c].name = m
    <3>1. PICK c \in 1..Len(A) : names[c] = m
      BY <1>13, <2>1
    <3>2. c \in DOMAIN tb.columns /\ tb.columns[c].name = m
      BY <1>12, <3>1
    <3> QED BY <3>2
  <2> QED BY <2>1
<1> QED BY <1>9, <1>10, <1>11, <1>15, <1>16 DEF Represents
===============================================================================
