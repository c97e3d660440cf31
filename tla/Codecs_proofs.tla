---------------------------- MODULE Codecs_proofs ----------------------------
(* What holds of every encoder of Codecs, whatever the values, the widths of   *)
(* the words and the lengths of the blocks.                                    *)
EXTENDS Codecs, Induction, FiniteSetTheorems, SequenceTheorems

--------------------------------------------------------------------------------
(* Powers of two, which the model is full of and the provers know nothing of:  *)
(* 2^n counts the subsets of 1..n.                                             *)

LEMMA PowerCounts ==
    ASSUME NEW n \in Nat
    PROVE  /\ IsFiniteSet(SUBSET (1..n)) /\ Cardinality(SUBSET (1..n)) = 2^n
           /\ 2^n \in Nat
<1>1. IsFiniteSet(1..n) /\ Cardinality(1..n) = n
  BY FS_Interval
<1>2. IsFiniteSet(SUBSET (1..n)) /\ Cardinality(SUBSET (1..n)) = 2^n
  BY <1>1, FS_SUBSET, Zenon
<1>3. Cardinality(SUBSET (1..n)) \in Nat
  BY <1>2, FS_CardinalityType, Zenon
<1> QED BY <1>2, <1>3, Zenon

LEMMA PowerDoubles ==
    ASSUME NEW n \in Nat
    PROVE  2^(n + 1) = 2 * 2^n
<1> DEFINE A == SUBSET (1..n)
           B == {X \in SUBSET (1..(n + 1)) : n + 1 \in X}
           With == [X \in A |-> X \cup {n + 1}]
<1>1. IsFiniteSet(A) /\ Cardinality(A) = 2^n /\ 2^n \in Nat
  BY PowerCounts, Zenon
<1>2. With \in Bijection(A, B)
  <2>1. \A X \in A : With[X] \in B
    OBVIOUS
  <2>2. ASSUME NEW X \in A, NEW Y \in A, With[X] = With[Y] PROVE X = Y
    <3>1. n + 1 \notin X /\ n + 1 \notin Y
      OBVIOUS
    <3>2. X \cup {n + 1} = Y \cup {n + 1}
      BY <2>2
    <3>3. \A x : x \in X <=> x \in Y
      BY <3>1, <3>2
    <3> QED BY <3>3, Zenon
  <2>3. ASSUME NEW Z \in B PROVE \E X \in A : With[X] = Z
    <3>1. Z \ {n + 1} \in A /\ (Z \ {n + 1}) \cup {n + 1} = Z
      OBVIOUS
    <3> QED BY <3>1
  <2>4. With \in [A -> B]
    BY <2>1
  <2> HIDE DEF A, B, With
  <2>5. With \in Injection(A, B)
    BY <2>2, <2>4, Zenon DEF Injection, IsInjective
  <2>6. With \in Surjection(A, B)
    BY <2>3, <2>4, Zenon DEF Surjection
  <2> QED BY <2>5, <2>6, Zenon DEF Bijection
<1>3. A \cup B = SUBSET (1..(n + 1)) /\ A \cap B = {}
  <2>1. \A X : X \in SUBSET (1..(n + 1)) <=> X \in A \/ X \in B
    <3> TAKE X
    <3>1. (1..(n + 1)) = (1..n) \cup {n + 1} /\ n + 1 \notin 1..n
      OBVIOUS
    <3> QED BY <3>1, Zenon
  <2>2. n + 1 \notin 1..n
    OBVIOUS
  <2> QED BY <2>1, <2>2, Zenon
<1> HIDE DEF A, B, With
<1>4. IsFiniteSet(B) /\ Cardinality(B) = 2^n
  BY <1>1, <1>2, FS_Bijection, Zenon DEF ExistsBijection
<1>5. Cardinality(A \cup B) = 2^(n + 1)
  BY <1>3, PowerCounts, n + 1 \in Nat, Zenon
<1>6. Cardinality(A \cap B) = 0
  BY <1>3, FS_EmptySet, Zenon
<1>7. Cardinality(A \cup B) = 2^n + 2^n - 0
  BY <1>1, <1>4, <1>6, FS_Union, Zenon
<1> QED BY <1>1, <1>5, <1>7

LEMMA PowerIsPositive ==
    ASSUME NEW n \in Nat PROVE 2^n \in Nat \ {0}
<1> DEFINE T == {m \in Nat : 2^m \in Nat \ {0}}
<1>1. 0 \in T
  OBVIOUS
<1>2. ASSUME NEW m \in Nat, m \in T PROVE m + 1 \in T
  BY <1>2, PowerDoubles
<1> HIDE DEF T
<1>3. n \in T
  BY <1>1, <1>2, InductiveSet
<1> QED BY <1>3 DEF T

LEMMA PowerOfSum ==
    ASSUME NEW a \in Nat, NEW b \in Nat PROVE 2^(a + b) = 2^a * 2^b
<1> DEFINE T == {m \in Nat : 2^(a + m) = 2^a * 2^m}
<1>1. 0 \in T
  BY PowerIsPositive
<1>2. ASSUME NEW m \in Nat, m \in T PROVE m + 1 \in T
  <2>1. 2^(a + m) = 2^a * 2^m /\ a + m \in Nat /\ a + (m + 1) = (a + m) + 1
    BY <1>2
  <2>2. 2^((a + m) + 1) = 2 * 2^(a + m) /\ 2^(m + 1) = 2 * 2^m
    BY <2>1, PowerDoubles, Zenon
  <2>3. 2^a \in Nat /\ 2^m \in Nat
    BY PowerIsPositive
  <2>4. 2 * (2^a * 2^m) = 2^a * (2 * 2^m)
    BY <2>3
  <2>5. 2^(a + (m + 1)) = 2^a * 2^(m + 1)
    BY <2>1, <2>2, <2>4, Zenon
  <2> QED BY <2>5
<1> HIDE DEF T
<1>3. b \in T
  BY <1>1, <1>2, InductiveSet
<1> QED BY <1>3 DEF T

LEMMA PowerExceeds ==
    ASSUME NEW n \in Nat PROVE n < 2^n
<1> DEFINE T == {m \in Nat : m < 2^m}
<1>1. 0 \in T
  OBVIOUS
<1>2. ASSUME NEW m \in Nat, m \in T PROVE m + 1 \in T
  BY <1>2, PowerDoubles, PowerIsPositive
<1> HIDE DEF T
<1>3. n \in T
  BY <1>1, <1>2, InductiveSet
<1> QED BY <1>3 DEF T

LEMMA PowerIsMonotone ==
    ASSUME NEW a \in Nat, NEW b \in Nat, a <= b PROVE 2^a <= 2^b
<1>1. b - a \in Nat /\ b = a + (b - a)
  OBVIOUS
<1>2. 2^b = 2^a * 2^(b - a)
  BY <1>1, PowerOfSum, Zenon
<1>3. 2^a \in Nat \ {0} /\ 2^(b - a) \in Nat \ {0}
  BY <1>1, PowerIsPositive
<1> DEFINE p == 2^a
           q == 2^(b - a)
<1> HIDE DEF p, q
<1>4. p * q >= p
  <2>1. p \in Nat \ {0} /\ q \in Nat \ {0}
    BY <1>3 DEF p, q
  <2> QED BY <2>1
<1> QED BY <1>2, <1>4 DEF p, q

--------------------------------------------------------------------------------
(* A batch call is its values in turn, in whichever of the three loops.        *)

IsRun(f, codec, type, e, values) ==
    f = [i \in 0..Len(values) |->
            IF i = 0 THEN e ELSE EncodeValue(codec, type, f[i - 1], values[i])]

LEMMA RunExists ==
    ASSUME NEW codec, NEW type, NEW e, NEW S, NEW values \in Seq(S)
    PROVE  \E f : IsRun(f, codec, type, e, values)
<1> DEFINE Runs(f, m) ==
              f = [i \in 0..m |-> IF i = 0 THEN e
                                  ELSE EncodeValue(codec, type, f[i - 1], values[i])]
           T == {m \in Nat : \E f : Runs(f, m)}
<1>1. 0 \in T
  <2>1. Runs([i \in 0..0 |-> e], 0)
    OBVIOUS
  <2> QED BY <2>1
<1>2. ASSUME NEW m \in Nat, m \in T PROVE m + 1 \in T
  <2>1. PICK f : Runs(f, m)
    BY <1>2
  <2> DEFINE next == EncodeValue(codec, type, f[m], values[m + 1])
             g == [i \in 0..(m + 1) |-> IF i = m + 1 THEN next ELSE f[i]]
  <2>2. \A i \in 0..(m + 1) :
           g[i] = IF i = 0 THEN e ELSE EncodeValue(codec, type, g[i - 1], values[i])
    <3> SUFFICES ASSUME NEW i \in 0..(m + 1)
                 PROVE  g[i] = IF i = 0 THEN e
                               ELSE EncodeValue(codec, type, g[i - 1], values[i])
      OBVIOUS
    <3>1. CASE i = m + 1
      <4>1. m \in 0..(m + 1) /\ m # m + 1 /\ i - 1 = m /\ i # 0
        BY <3>1
      <4>2. g[i] = next /\ g[m] = f[m]
        BY <3>1, <4>1
      <4> QED BY <3>1, <4>1, <4>2, Zenon
    <3>2. CASE i \in 0..m
      <4>1. f[i] = IF i = 0 THEN e ELSE EncodeValue(codec, type, f[i - 1], values[i])
        BY <2>1, <3>2, Zenon
      <4>2. i # m + 1 /\ (i # 0 => i - 1 \in 0..(m + 1) /\ i - 1 # m + 1)
        BY <3>2
      <4>3. g[i] = f[i] /\ (i # 0 => g[i - 1] = f[i - 1])
        BY <4>2
      <4> QED BY <4>1, <4>3, Zenon
    <3> QED BY <3>1, <3>2
  <2>3. Runs(g, m + 1)
    BY <2>2, Zenon
  <2> QED BY <2>3, m + 1 \in Nat, Zenon
<1>3. Len(values) \in Nat
  OBVIOUS
<1>4. Len(values) \in T
  <2> HIDE DEF T
  <2> QED BY <1>1, <1>2, <1>3, InductiveSet
<1> QED BY <1>4, Zenon DEF IsRun

(* The two loops of their own are the run of the encoder's values.             *)
LEMMA BatchIsRun ==
    ASSUME NEW codec, NEW type, NEW e, NEW S, NEW values \in Seq(S)
    PROVE  \E f : /\ IsRun(f, codec, type, e, values)
                  /\ EncodeBatch(codec, type, e, values) = f[Len(values)]
<1>1. PICK f : IsRun(f, codec, type, e, values)
  BY RunExists, Zenon
<1>2. CASE codec = "Gorilla"
  <2> DEFINE bits == [i \in DOMAIN values |-> Unsigned(values[i], NativeBits(type))]
             Loop(h) == h = [i \in 0..Len(bits) |->
                               IF i = 0 THEN e ELSE GorillaEncode(h[i - 1], bits[i], type)]
             g == CHOOSE h : Loop(h)
  <2>1. Len(bits) = Len(values)
    OBVIOUS
  <2>2. ASSUME NEW h PROVE Loop(h) <=> IsRun(h, codec, type, e, values)
    <3>1. \A a, v : EncodeValue(codec, type, a, v)
                      = GorillaEncode(a, Unsigned(v, NativeBits(type)), type)
      BY <1>2, Zenon DEF EncodeValue, Series
    <3>2. \A i \in 0..Len(values) :
             i # 0 => GorillaEncode(h[i - 1], bits[i], type)
                        = EncodeValue(codec, type, h[i - 1], values[i])
      <4> SUFFICES ASSUME NEW i \in 0..Len(values), i # 0
                   PROVE  GorillaEncode(h[i - 1], bits[i], type)
                            = EncodeValue(codec, type, h[i - 1], values[i])
        OBVIOUS
      <4>1. bits[i] = Unsigned(values[i], NativeBits(type))
        OBVIOUS
      <4> QED BY <3>1, <4>1, Zenon
    <3>3. [i \in 0..Len(bits) |->
              IF i = 0 THEN e ELSE GorillaEncode(h[i - 1], bits[i], type)]
            = [i \in 0..Len(values) |->
                  IF i = 0 THEN e ELSE EncodeValue(codec, type, h[i - 1], values[i])]
      <4> HIDE DEF bits
      <4> QED BY <2>1, <3>2
    <3> QED BY <3>3, Zenon DEF IsRun
  <2>3. EncodeBatch(codec, type, e, values) = g[Len(bits)]
    BY <1>2, Zenon DEF EncodeBatch, GorillaEncodeBatch
  <2> HIDE DEF bits, Loop
  <2>4. Loop(g)
    BY <1>1, <2>2, Zenon
  <2> HIDE DEF g
  <2> QED BY <2>1, <2>2, <2>3, <2>4, Zenon
<1>3. CASE codec = "Chimp128"
  <2> DEFINE Loop(h) == h = [i \in 0..Len(values) |->
                               IF i = 0 THEN e ELSE ChimpEncode(h[i - 1], values[i])]
             g == CHOOSE h : Loop(h)
  <2>1. \A a, v : EncodeValue(codec, type, a, v) = ChimpEncode(a, v)
    BY <1>3, Zenon DEF EncodeValue, Series
  <2>2. ASSUME NEW h PROVE Loop(h) <=> IsRun(h, codec, type, e, values)
    <3>1. [i \in 0..Len(values) |->
              IF i = 0 THEN e ELSE ChimpEncode(h[i - 1], values[i])]
            = [i \in 0..Len(values) |->
                  IF i = 0 THEN e ELSE EncodeValue(codec, type, h[i - 1], values[i])]
      BY <2>1, Zenon
    <3> QED BY <3>1, Zenon DEF IsRun
  <2>3. EncodeBatch(codec, type, e, values) = g[Len(values)]
    BY <1>3, Zenon DEF EncodeBatch, ChimpEncodeBatch
  <2> HIDE DEF Loop
  <2>4. Loop(g)
    BY <1>1, <2>2, Zenon
  <2> HIDE DEF g
  <2> QED BY <2>2, <2>3, <2>4, Zenon
<1>4. CASE codec \notin {"Gorilla", "Chimp128"}
  <2> DEFINE Loop(h) == h = [i \in 0..Len(values) |->
                               IF i = 0 THEN e
                               ELSE EncodeValue(codec, type, h[i - 1], values[i])]
             g == CHOOSE h : Loop(h)
  <2>1. EncodeBatch(codec, type, e, values) = g[Len(values)]
    BY <1>4, Zenon DEF EncodeBatch
  <2>2. ASSUME NEW h PROVE Loop(h) <=> IsRun(h, codec, type, e, values)
    BY Zenon DEF IsRun
  <2> HIDE DEF Loop
  <2>3. Loop(g)
    BY <1>1, <2>2, Zenon
  <2> HIDE DEF g
  <2> QED BY <2>1, <2>2, <2>3, Zenon
<1> QED BY <1>2, <1>3, <1>4, Zenon

(* So one more value is one more call.                                         *)
LEMMA BatchOfNone ==
    ASSUME NEW codec, NEW type, NEW e
    PROVE  EncodeBatch(codec, type, e, <<>>) = e
<1>1. PICK f : /\ IsRun(f, codec, type, e, <<>>)
               /\ EncodeBatch(codec, type, e, <<>>) = f[Len(<<>>)]
  BY BatchIsRun, <<>> \in Seq({}), Zenon
<1>2. Len(<<>>) = 0 /\ 0 \in 0..0
  OBVIOUS
<1> QED BY <1>1, <1>2, Zenon DEF IsRun

LEMMA BatchOfOneMore ==
    ASSUME NEW codec, NEW type, NEW e, NEW S, NEW values \in Seq(S), NEW v \in S
    PROVE  EncodeBatch(codec, type, e, Append(values, v))
             = EncodeValue(codec, type, EncodeBatch(codec, type, e, values), v)
<1> DEFINE more == Append(values, v)
           N == Len(values)
<1>1. /\ more \in Seq(S) /\ Len(more) = N + 1 /\ N \in Nat /\ more[N + 1] = v
      /\ \A i \in 1..N : more[i] = values[i]
  OBVIOUS
<1> HIDE DEF more
<1>2. PICK f : /\ IsRun(f, codec, type, e, values)
               /\ EncodeBatch(codec, type, e, values) = f[N]
  BY BatchIsRun, Zenon
<1>3. PICK g : /\ IsRun(g, codec, type, e, more)
               /\ EncodeBatch(codec, type, e, more) = g[N + 1]
  <2>1. \E g : IsRun(g, codec, type, e, more)
                /\ EncodeBatch(codec, type, e, more) = g[Len(more)]
    BY <1>1, BatchIsRun, Zenon
  <2> QED BY <1>1, <2>1, Zenon
<1>4. \A i \in 0..N : f[i] = IF i = 0 THEN e ELSE EncodeValue(codec, type, f[i - 1], values[i])
  BY <1>2, Zenon DEF IsRun
<1>5. \A i \in 0..(N + 1) : g[i] = IF i = 0 THEN e ELSE EncodeValue(codec, type, g[i - 1], more[i])
  <2>1. 0..Len(more) = 0..(N + 1)
    BY <1>1
  <2> QED BY <1>3, <2>1, Zenon DEF IsRun
<1> DEFINE T == {m \in Nat : m <= N => g[m] = f[m]}
<1>6. 0 \in T
  BY <1>1, <1>4, <1>5
<1>7. ASSUME NEW m \in Nat, m \in T PROVE m + 1 \in T
  <2> SUFFICES ASSUME m + 1 <= N PROVE g[m + 1] = f[m + 1]
    OBVIOUS
  <2>1. /\ m + 1 \in 0..N /\ m + 1 \in 0..(N + 1) /\ m + 1 # 0 /\ (m + 1) - 1 = m
        /\ m + 1 \in 1..N /\ g[m] = f[m]
    BY <1>1, <1>7
  <2>2. more[m + 1] = values[m + 1]
    BY <1>1, <2>1
  <2>3. f[m + 1] = EncodeValue(codec, type, f[m], values[m + 1])
    BY <1>4, <2>1, Zenon
  <2>4. g[m + 1] = EncodeValue(codec, type, g[m], more[m + 1])
    BY <1>5, <2>1, Zenon
  <2> QED BY <2>1, <2>2, <2>3, <2>4, Zenon
<1>8. g[N] = f[N]
  <2>1. Nat \subseteq T
    <3> HIDE DEF T
    <3> QED BY <1>6, <1>7, InductiveSet
  <2> QED BY <1>1, <2>1
<1>9. N + 1 \in 0..(N + 1) /\ N + 1 # 0 /\ (N + 1) - 1 = N
  BY <1>1
<1>10. g[N + 1] = EncodeValue(codec, type, g[N], v)
  BY <1>1, <1>5, <1>9, Zenon
<1> QED BY <1>2, <1>3, <1>8, <1>10, Zenon DEF more

--------------------------------------------------------------------------------
(* An encoder is a record: a function on the names of its fields.              *)

Shaped(e, fields) == e = [x \in fields |-> e[x]]

--------------------------------------------------------------------------------
(* Simple8b: a word that is pushed takes at least one of the pending values.   *)

Simple8bFields == {"pending", "output", "out"}
IsSimple8b(e) ==
    /\ Shaped(e, Simple8bFields)
    /\ \E S : e.pending \in Seq(S)

LEMMA SmallestIsMember ==
    ASSUME NEW S \in SUBSET Selectors, S # {}
    PROVE  Smallest(S) \in S /\ Count(Smallest(S)) \in Nat \ {0}
<1>1. S \in SUBSET Nat
  BY SelectorsAssumption
<1>2. \E s \in S : \A t \in S : s <= t
  BY <1>1, LeastNumber, Zenon
<1>3. Smallest(S) \in S
  BY <1>2, Zenon DEF Smallest
<1> QED BY <1>3, SelectorsAssumption

LEMMA PushedWordTakes ==
    ASSUME NEW e, IsSimple8b(e), NEW word, NEW n \in 1..Len(e.pending)
    PROVE  /\ IsSimple8b(PushWord(e, word, n))
           /\ PushWord(e, word, n).out = e.out
           /\ Len(PushWord(e, word, n).pending) = Len(e.pending) - n
<1>1. PICK S : e.pending \in Seq(S)
  BY DEF IsSimple8b
<1> DEFINE rest == SubSeq(e.pending, n + 1, Len(e.pending))
<1>3. rest \in Seq(S) /\ Len(rest) = Len(e.pending) - n
  <2>1. \A i \in (n + 1)..Len(e.pending) : e.pending[i] \in S
    BY <1>1
  <2>2. Len(e.pending) \in Nat /\ n + 1 \in Nat \ {0}
    BY <1>1
  <2> QED BY <1>1, <2>1, <2>2, SubSeqProperties
<1>4. /\ PushWord(e, word, n).pending = rest /\ PushWord(e, word, n).out = e.out
      /\ Shaped(PushWord(e, word, n), Simple8bFields)
  BY DEF PushWord, IsSimple8b, Shaped, Simple8bFields
<1> HIDE DEF rest
<1> QED BY <1>3, <1>4 DEF IsSimple8b

LEMMA PackingShrinks ==
    ASSUME NEW e, IsSimple8b(e)
    PROVE  /\ IsSimple8b(TryPack(e)) /\ TryPack(e).out = e.out
           /\ Len(TryPack(e).pending) <= Len(e.pending)
<1>1. Len(e.pending) \in Nat
  BY DEF IsSimple8b
<1> DEFINE fitting == {s \in Selectors :
                          /\ Count(s) <= Len(e.pending)
                          /\ FitsIn(Prefix(e.pending, Count(s)), s)}
           s == Smallest(fitting)
           word == PackValues(Prefix(e.pending, Count(s)), s)
           forced == PackValues(Prefix(e.pending, 1), LastSelector)
<1>2. TryPack(e) = IF fitting # {} THEN PushWord(e, word, Count(s))
                   ELSE IF Len(e.pending) >= ForceAt THEN PushWord(e, forced, 1) ELSE e
  BY Zenon DEF TryPack
<1>3. fitting # {} => Count(s) \in 1..Len(e.pending)
  <2> SUFFICES ASSUME fitting # {} PROVE Count(s) \in 1..Len(e.pending)
    OBVIOUS
  <2>1. fitting \in SUBSET Selectors
    OBVIOUS
  <2>2. s \in fitting /\ Count(s) \in Nat \ {0}
    <3> HIDE DEF fitting
    <3> QED BY <2>1, SmallestIsMember, Zenon
  <2>3. Count(s) <= Len(e.pending)
    BY <2>2, Zenon
  <2> HIDE DEF s, fitting
  <2> QED BY <1>1, <2>2, <2>3
<1>4. Len(e.pending) >= ForceAt => 1 \in 1..Len(e.pending)
  BY <1>1, WidthsAssumption
<1> HIDE DEF fitting, s, word, forced
<1>5. CASE fitting # {}
  <2>1. TryPack(e) = PushWord(e, word, Count(s)) /\ Count(s) \in 1..Len(e.pending)
    BY <1>2, <1>3, <1>5, Zenon
  <2> QED BY <1>1, <2>1, PushedWordTakes
<1>6. CASE fitting = {} /\ Len(e.pending) >= ForceAt
  <2>1. TryPack(e) = PushWord(e, forced, 1) /\ 1 \in 1..Len(e.pending)
    BY <1>2, <1>4, <1>6, Zenon
  <2> QED BY <1>1, <2>1, PushedWordTakes
<1>7. CASE fitting = {} /\ ~(Len(e.pending) >= ForceAt)
  BY <1>1, <1>2, <1>7
<1> QED BY <1>5, <1>6, <1>7, Zenon

LEMMA FinishedWordTakes ==
    ASSUME NEW e, IsSimple8b(e), e.pending # <<>>
    PROVE  /\ IsSimple8b(FinishWord(e)) /\ FinishWord(e).out = e.out
           /\ Len(FinishWord(e).pending) < Len(e.pending)
<1>1. Len(e.pending) \in Nat \ {0}
  BY DEF IsSimple8b
<1> DEFINE n == Len(e.pending)
           fitting == {s \in Selectors :
                          IF Count(s) <= n
                          THEN FitsIn(Prefix(e.pending, Count(s)), s)
                          ELSE FitsIn(e.pending, s)}
           s == IF fitting = {} THEN LastSelector ELSE Smallest(fitting)
           taken == IF Count(s) <= n THEN Count(s) ELSE n
           word == PackValues(Prefix(e.pending, taken) \o Zeros(Count(s) - taken), s)
<1>2. FinishWord(e) = PushWord(e, word, taken)
  BY Zenon DEF FinishWord
<1>3. Count(s) \in Nat \ {0}
  <2>1. fitting \in SUBSET Selectors
    OBVIOUS
  <2> HIDE DEF fitting
  <2>2. CASE fitting = {}
    <3>1. LastSelector \in Selectors
      BY SelectorsAssumption
    <3> QED BY <2>2, <3>1, SelectorsAssumption, Zenon
  <2>3. CASE fitting # {}
    BY <2>1, <2>3, SmallestIsMember, Zenon
  <2> QED BY <2>2, <2>3
<1> HIDE DEF s, word
<1>4. taken \in 1..Len(e.pending)
  BY <1>1, <1>3
<1> HIDE DEF taken
<1> QED BY <1>1, <1>2, <1>4, PushedWordTakes

LEMMA Simple8bEncodes ==
    ASSUME NEW e, IsSimple8b(e), NEW v, NEW w
    PROVE  /\ IsSimple8b(Simple8bEncode(e, v, w))
           /\ Len(Simple8bEncode(e, v, w).pending) <= Len(e.pending) + 1
<1> DEFINE number == Simple8bZigzag(v, w)
           pushed == [e EXCEPT !.pending = Append(@, number)]
           packed == Simple8bEncode(e, v, w)
<1>1. PICK S : e.pending \in Seq(S)
  BY DEF IsSimple8b
<1>2. /\ IsSimple8b(pushed) /\ Len(e.pending) \in Nat
      /\ Len(pushed.pending) = Len(e.pending) + 1
  <2> HIDE DEF number
  <2>1. Append(e.pending, number) \in Seq(S \cup {number})
    BY <1>1
  <2>2. pushed.pending = Append(e.pending, number) /\ Shaped(pushed, Simple8bFields)
    BY DEF IsSimple8b, Shaped, Simple8bFields
  <2>3. /\ Len(Append(e.pending, number)) = Len(e.pending) + 1
        /\ Len(e.pending) \in Nat
    BY <1>1
  <2> HIDE DEF pushed
  <2> QED BY <2>1, <2>2, <2>3 DEF IsSimple8b
<1>3. packed = IF Len(pushed.pending) >= PackAt THEN TryPack(pushed) ELSE pushed
  BY Zenon DEF Simple8bEncode
<1> HIDE DEF pushed, packed
<1>4. IsSimple8b(packed) /\ Len(packed.pending) <= Len(e.pending) + 1
  <2>1. CASE Len(pushed.pending) >= PackAt
    BY <1>2, <1>3, <2>1, PackingShrinks
  <2>2. CASE ~(Len(pushed.pending) >= PackAt)
    BY <1>2, <1>3, <2>2
  <2> QED BY <2>1, <2>2
<1> QED BY <1>4 DEF packed

--------------------------------------------------------------------------------
(* Delta of delta: its numbers wait in a Simple8b encoder, each value adding   *)
(* at most one.                                                                *)

DeltaFields == {"previous_value", "previous_delta", "count", "simple8b", "out"}
IsDelta(e) == Shaped(e, DeltaFields) /\ IsSimple8b(e.simple8b)

LEMMA DeltaEncodes ==
    ASSUME NEW e, IsDelta(e), NEW v
    PROVE  /\ IsDelta(DeltaEncode(e, v))
           /\ Len(DeltaEncode(e, v).simple8b.pending) <= Len(e.simple8b.pending) + 1
<1> DEFINE dod == Signed(DeltaOfDelta(e, v), LongBits)
           packed == Simple8bEncode(e.simple8b, dod, LongBits)
<1>4. IsSimple8b(packed) /\ Len(packed.pending) <= Len(e.simple8b.pending) + 1
  <2> HIDE DEF dod
  <2> QED BY Simple8bEncodes DEF IsDelta
<1>2. Len(e.simple8b.pending) \in Nat
  BY DEF IsDelta, IsSimple8b
<1> HIDE DEF packed
<1> DEFINE delta == Signed(DeltaOf(e, v), LongBits)
           next == [e EXCEPT !.previous_value = v, !.count = @ + 1]
<1>5. DeltaEncode(e, v) =
        CASE e.count = 0 -> [next EXCEPT !.out = Append(@, Token("fixed", v))]
          [] e.count = 1 -> [next EXCEPT !.previous_delta = delta,
                                         !.out = Append(@, Token("fixed", delta))]
          [] OTHER -> [next EXCEPT !.previous_delta = delta,
                                   !.simple8b = Simple8bEncode(@, dod, LongBits)]
  BY Zenon DEF DeltaEncode
<1>6. Shaped(next, DeltaFields) /\ next.simple8b = e.simple8b
  BY DEF IsDelta, Shaped, DeltaFields
<1> HIDE DEF delta, next, dod
<1> DEFINE r == DeltaEncode(e, v)
<1>7. /\ Shaped(r, DeltaFields)
      /\ r.simple8b = IF e.count \in {0, 1} THEN e.simple8b ELSE packed
  <2>1. CASE e.count = 0
    BY <1>5, <1>6, <2>1 DEF Shaped, DeltaFields
  <2>2. CASE e.count = 1
    BY <1>5, <1>6, <2>2 DEF Shaped, DeltaFields
  <2>3. CASE e.count \notin {0, 1}
    BY <1>5, <1>6, <2>3 DEF Shaped, DeltaFields, packed
  <2> QED BY <2>1, <2>2, <2>3
<1> HIDE DEF r, packed
<1>8. IsSimple8b(r.simple8b) /\ Len(r.simple8b.pending) <= Len(e.simple8b.pending) + 1
  BY <1>2, <1>4, <1>7 DEF IsDelta
<1> QED BY <1>7, <1>8 DEF IsDelta, r

--------------------------------------------------------------------------------
(* Bit strings and the numbers they make.                                      *)

BitString(n) == [1..n -> {0, 1}]

LEMMA BitsAreBits ==
    ASSUME NEW n \in Nat, NEW x \in Int, NEW y \in Int
    PROVE  Xor(Bits(x, n), Bits(y, n)) \in BitString(n)
<1>1. ASSUME NEW z \in Int PROVE Bits(z, n) \in BitString(n)
  <2>1. ASSUME NEW i \in 1..n PROVE (z \div 2^(n - i)) % 2 \in {0, 1}
    <3>1. n - i \in Nat
      OBVIOUS
    <3>2. 2^(n - i) \in Nat \ {0}
      BY <3>1, PowerIsPositive
    <3>3. z \div 2^(n - i) \in Int
      BY <3>2
    <3> QED BY <3>3
  <2> QED BY <2>1 DEF Bits, BitString
<1> DEFINE a == Bits(x, n)
           b == Bits(y, n)
<1>2. a \in BitString(n) /\ b \in BitString(n)
  BY <1>1
<1> HIDE DEF a, b
<1>3. Xor(a, b) \in BitString(n)
  <2>1. \A i \in 1..n : (a[i] + b[i]) % 2 \in {0, 1}
    BY <1>2 DEF BitString
  <2>2. DOMAIN a = 1..n
    BY <1>2 DEF BitString
  <2> QED BY <2>1, <2>2 DEF Xor, BitString
<1> QED BY <1>3 DEF a, b

LEMMA NumberRuns ==
    ASSUME NEW n \in Nat, NEW bits \in BitString(n)
    PROVE  \E f \in [0..n -> Nat] : /\ f[0] = 0
                                    /\ \A i \in 1..n : f[i] = 2 * f[i - 1] + bits[i]
                                    /\ NumberOf(bits) = f[n]
<1>1. Len(bits) = n
  BY DEF BitString
<1> DEFINE step == [i \in 1..n |-> [x \in Nat |-> 2 * x + bits[i]]]
           Numbers(f) == f = [i \in 0..Len(bits) |->
                                IF i = 0 THEN 0 ELSE 2 * f[i - 1] + bits[i]]
           g == CHOOSE f : Numbers(f)
<1>2. step \in [1..n -> [Nat -> Nat]]
  BY DEF BitString
<1>3. PICK f \in [0..n -> Nat] : Follows(f, n, 0, step)
  <2> HIDE DEF step
  <2> QED BY <1>2, RecursionDefines
<1>4. ASSUME NEW h, Numbers(h)
      PROVE  /\ h = [i \in 0..n |-> IF i = 0 THEN 0 ELSE 2 * h[i - 1] + bits[i]]
      BY <1>1, <1>4
<1>5. Numbers(f)
  <2>1. \A i \in 1..n : i - 1 \in 0..n /\ f[i - 1] \in Nat
    OBVIOUS
  <2>2. \A i \in 1..n : step[i][f[i - 1]] = 2 * f[i - 1] + bits[i]
    BY <2>1
  <2>3. f = [i \in 0..n |-> IF i = 0 THEN 0 ELSE step[i][f[i - 1]]]
    BY <1>3 DEF Follows
  <2> HIDE DEF step
  <2>4. f = [i \in 0..n |-> IF i = 0 THEN 0 ELSE 2 * f[i - 1] + bits[i]]
    BY <2>2, <2>3
  <2> QED BY <1>1, <2>4
<1>6. NumberOf(bits) = g[n]
  BY <1>1, Zenon DEF NumberOf
<1> HIDE DEF Numbers
<1>7. Numbers(g)
  BY <1>5, Zenon
<1> HIDE DEF g
<1>8. g = [i \in 0..n |-> IF i = 0 THEN 0 ELSE 2 * g[i - 1] + bits[i]]
  BY <1>4, <1>7, Zenon
<1>9. g[0] = 0 /\ \A i \in 1..n : g[i] = 2 * g[i - 1] + bits[i]
  BY <1>8
<1> DEFINE T == {m \in Nat : m <= n => g[m] \in Nat}
<1>10. 0 \in T
  BY <1>9
<1>11. ASSUME NEW m \in Nat, m \in T PROVE m + 1 \in T
  <2> SUFFICES ASSUME m + 1 <= n PROVE g[m + 1] \in Nat
    OBVIOUS
  <2>1. g[m + 1] = 2 * g[m] + bits[m + 1]
    BY <1>9
  <2>2. g[m] \in Nat /\ bits[m + 1] \in {0, 1}
    BY <1>11 DEF BitString
  <2> HIDE DEF T
  <2> QED BY <2>1, <2>2
<1>12. Nat \subseteq T
  <2> HIDE DEF T
  <2> QED BY <1>10, <1>11, InductiveSet
<1>13. g \in [0..n -> Nat]
  <2>1. \A i \in 0..n : g[i] \in Nat
    BY <1>12
  <2>2. DOMAIN g = 0..n /\ g = [i \in 0..n |-> g[i]]
    BY <1>8
  <2> QED BY <2>1, <2>2, Zenon
<1> QED BY <1>6, <1>9, <1>13

(* k zeros in front leave a number of n - k bits.                              *)
LEMMA NumberIsBelow ==
    ASSUME NEW n \in Nat, NEW bits \in BitString(n), NEW k \in 0..n,
           \A j \in 1..k : bits[j] = 0
    PROVE  NumberOf(bits) \in Nat /\ NumberOf(bits) < 2^(n - k)
<1>1. PICK f \in [0..n -> Nat] : /\ f[0] = 0
                                 /\ \A i \in 1..n : f[i] = 2 * f[i - 1] + bits[i]
                                 /\ NumberOf(bits) = f[n]
  BY NumberRuns
<1> DEFINE Z == {m \in Nat : m <= k => f[m] = 0}
<1>2. k \in Z
  <2>1. 0 \in Z
    BY <1>1
  <2>2. ASSUME NEW m \in Nat, m \in Z PROVE m + 1 \in Z
    <3> SUFFICES ASSUME m + 1 <= k PROVE f[m + 1] = 0
      OBVIOUS
    <3>1. m + 1 \in 1..n /\ f[m] = 0 /\ bits[m + 1] = 0 /\ (m + 1) - 1 = m
      BY <2>2
    <3>2. f[m + 1] = 2 * f[(m + 1) - 1] + bits[m + 1]
      BY <1>1, <3>1
    <3> QED BY <3>1, <3>2
  <2>3. Nat \subseteq Z
    <3> HIDE DEF Z
    <3> QED BY <2>1, <2>2, InductiveSet
  <2> QED BY <2>3, k \in Nat, Zenon
<1> DEFINE T == {m \in Nat : k + m <= n => f[k + m] < 2^m}
<1>3. n - k \in T
  <2>1. 0 \in T
    BY <1>2
  <2>2. ASSUME NEW m \in Nat, m \in T PROVE m + 1 \in T
    <3> SUFFICES ASSUME k + (m + 1) <= n PROVE f[k + (m + 1)] < 2^(m + 1)
      OBVIOUS
    <3> DEFINE i == k + (m + 1)
    <3>1. i \in 1..n /\ i - 1 = k + m /\ k + m \in 0..n
      OBVIOUS
    <3>2. f[i] = 2 * f[k + m] + bits[i] /\ bits[i] \in {0, 1} /\ f[k + m] \in Nat
      BY <1>1, <3>1 DEF BitString
    <3>3. f[k + m] < 2^m
      BY <2>2, <3>1
    <3>4. 2^(m + 1) = 2 * 2^m /\ 2^m \in Nat
      BY PowerDoubles, PowerIsPositive
    <3> QED BY <3>2, <3>3, <3>4
  <2> HIDE DEF T
  <2> QED BY <2>1, <2>2, n - k \in Nat, InductiveSet
<1>4. f[k + (n - k)] < 2^(n - k) /\ k + (n - k) = n
  BY <1>3
<1> QED BY <1>1, <1>4

(* A difference has a bit that is not 0: what is left between its leading and  *)
(* its trailing zeros is at least that bit.                                    *)
LEMMA ZerosAround ==
    ASSUME NEW n \in Nat, NEW bits \in BitString(n), NumberOf(bits) # 0
    PROVE  /\ LeadingZeros(bits) \in Nat /\ TrailingZeros(bits) \in Nat
           /\ LeadingZeros(bits) + TrailingZeros(bits) < n
           /\ NumberOf(bits) \in Nat
           /\ NumberOf(bits) < 2^(n - LeadingZeros(bits))
<1> DEFINE FirstOne(b, i) == b[i] = 1 /\ \A j \in 1..(i - 1) : b[j] = 0
<1>1. ~IsZero(bits)
  <2> SUFFICES ASSUME IsZero(bits) PROVE NumberOf(bits) = 0
    OBVIOUS
  <2>1. \A j \in 1..n : bits[j] = 0
    BY DEF IsZero, BitString
  <2>2. NumberOf(bits) \in Nat /\ NumberOf(bits) < 2^(n - n)
    BY <2>1, n \in 0..n, NumberIsBelow
  <2> QED BY <2>2
<1>2. PICK p \in 1..n : bits[p] = 1
  BY <1>1 DEF IsZero, BitString
<1>3. ASSUME NEW b \in BitString(n), NEW q \in 1..n, b[q] = 1
      PROVE  /\ LeadingZeros(b) \in Nat /\ LeadingZeros(b) < q
             /\ \A j \in 1..LeadingZeros(b) : b[j] = 0
             /\ b[LeadingZeros(b) + 1] = 1
  <2> DEFINE Ones == {i \in Nat : i \in 1..n /\ b[i] = 1}
  <2>1. PICK i \in Ones : \A j \in Ones : i <= j
    <3>1. Ones \in SUBSET Nat /\ q \in Ones
      BY <1>3
    <3> HIDE DEF Ones
    <3> QED BY <3>1, LeastNumber
  <2>2. DOMAIN b = 1..n /\ \A j \in 1..n : b[j] \in {0, 1}
    BY DEF BitString
  <2>3. i \in DOMAIN b /\ FirstOne(b, i)
    <3>1. ASSUME NEW j \in 1..(i - 1) PROVE b[j] = 0
      <4>1. j \in 1..n /\ j < i
        BY <2>1
      <4>2. j \notin Ones
        BY <2>1, <4>1
      <4> QED BY <2>2, <4>1, <4>2
    <3> QED BY <2>1, <2>2, <3>1
  <2>4. ~IsZero(b)
    BY <1>3, <2>2 DEF IsZero
  <2> DEFINE c == CHOOSE k \in DOMAIN b : FirstOne(b, k)
  <2>5. LeadingZeros(b) = c - 1
    BY <2>4, Zenon DEF LeadingZeros
  <2>6. c \in DOMAIN b /\ FirstOne(b, c)
    <3> HIDE DEF FirstOne
    <3> QED BY <2>3, Zenon
  <2> HIDE DEF c
  <2>7. c \in 1..n
    BY <2>2, <2>6
  <2>8. c <= q
    <3> SUFFICES ASSUME q < c PROVE FALSE
      BY <2>7
    <3>1. q \in 1..(c - 1)
      BY <2>7
    <3> QED BY <1>3, <2>6, <3>1
  <2> QED BY <2>5, <2>6, <2>7, <2>8
<1> DEFINE back == Reverse(bits)
<1>4. back \in BitString(n) /\ \A i \in 1..n : back[i] = bits[(n - i) + 1]
  <2>1. Len(bits) = n /\ \A i \in 1..n : (n - i) + 1 \in 1..n
    BY DEF BitString
  <2> QED BY <2>1 DEF Reverse, BitString
<1> HIDE DEF back
<1>5. /\ LeadingZeros(bits) \in Nat /\ LeadingZeros(bits) < n
      /\ \A j \in 1..LeadingZeros(bits) : bits[j] = 0
      /\ bits[LeadingZeros(bits) + 1] = 1
  BY <1>2, <1>3
<1> DEFINE q == n - LeadingZeros(bits)
<1>6. q \in 1..n /\ back[q] = 1
  <2>1. q \in 1..n /\ (n - q) + 1 = LeadingZeros(bits) + 1
    BY <1>5
  <2>2. back[q] = bits[(n - q) + 1]
    BY <1>4, <2>1
  <2> QED BY <1>5, <2>1, <2>2, Zenon
<1>7. TrailingZeros(bits) \in Nat /\ TrailingZeros(bits) < q
  <2> HIDE DEF q
  <2>1. LeadingZeros(back) \in Nat /\ LeadingZeros(back) < q
    BY <1>3, <1>4, <1>6
  <2> QED BY <2>1 DEF TrailingZeros, back
<1>8. NumberOf(bits) \in Nat /\ NumberOf(bits) < 2^(n - LeadingZeros(bits))
  <2>1. LeadingZeros(bits) \in 0..n
    BY <1>5
  <2> QED BY <1>5, <2>1, NumberIsBelow
<1> QED BY <1>5, <1>7, <1>8

(* Cut off at its trailing end, a number has that many bits less.              *)
LEMMA ShiftedIsBelow ==
    ASSUME NEW x \in Nat, NEW a \in Nat, NEW b \in Nat, x < 2^(a + b)
    PROVE  x \div 2^b \in Nat /\ x \div 2^b < 2^a
<1>1. 2^(a + b) = 2^a * 2^b /\ 2^a \in Nat \ {0} /\ 2^b \in Nat \ {0}
  BY PowerOfSum, PowerIsPositive
<1> DEFINE p == 2^a
           q == 2^b
<1> HIDE DEF p, q
<1>2. p \in Nat \ {0} /\ q \in Nat \ {0} /\ x < p * q
  BY <1>1 DEF p, q
<1>3. x \div q \in Nat /\ x \div q < p
  BY <1>2
<1> QED BY <1>3 DEF p, q

--------------------------------------------------------------------------------
(* Writing bits: only the bit buffer and what left it change, less than a byte *)
(* stays, and nothing spills if the field is short enough and holds its value. *)

BitFields == {"buffer", "bit_buffer", "bits_in_buffer", "spilled"}
Keeps(e, r, fields) == Shaped(r, fields) /\ \A x \in fields \ BitFields : r[x] = e[x]
Clear(e) == e.bits_in_buffer \in 0..(ByteBits - 1) /\ e.spilled = FALSE

LEMMA KeepsOn ==
    ASSUME NEW fields, NEW e, NEW f, NEW g, Keeps(e, f, fields), Keeps(f, g, fields)
    PROVE  Keeps(e, g, fields)
BY DEF Keeps

LEMMA WritingKeeps ==
    ASSUME NEW fields, BitFields \subseteq fields, NEW e, Shaped(e, fields),
           NEW value, NEW n
    PROVE  /\ Keeps(e, GorillaWriteBits(e, value, n), fields)
           /\ Keeps(e, GorillaWriteBit(e, value), fields)
           /\ Keeps(e, FlushBits(e), fields)
<1>1. ASSUME NEW packed, NEW fill, NEW whole
      PROVE  /\ Keeps(e, Drain(e, packed, fill, whole), fields)
             /\ Drain(e, packed, fill, whole).spilled = e.spilled
  BY DEF Drain, Keeps, Shaped, BitFields
<1>2. ASSUME NEW f, Keeps(e, f, fields), NEW b
      PROVE  Keeps(e, [f EXCEPT !.spilled = b], fields)
  BY <1>2 DEF Keeps, Shaped, BitFields
<1>3. Keeps(e, e, fields)
  BY DEF Keeps
<1>4. Keeps(e, GorillaWriteBits(e, value, n), fields)
  <2> DEFINE end  == e.bits_in_buffer + n
             fill == IF end > BufferBits THEN BufferBits ELSE end
             d    == Drain(e, Pack(e, value, fill), fill, WholeBytes(fill))
             s    == d.spilled \/ end > BufferBits \/ value >= 2^n
  <2>1. GorillaWriteBits(e, value, n) = IF n = 0 THEN e ELSE [d EXCEPT !.spilled = s]
    BY Zenon DEF GorillaWriteBits
  <2>2. Keeps(e, d, fields)
    BY <1>1, Zenon
  <2> HIDE DEF d, s
  <2>3. Keeps(e, [d EXCEPT !.spilled = s], fields)
    BY <1>2, <2>2
  <2> QED BY <1>3, <2>1, <2>3
<1>5. Keeps(e, GorillaWriteBit(e, value), fields)
  BY <1>1, Zenon DEF GorillaWriteBit
<1>6. Keeps(e, FlushBits(e), fields)
  BY <1>3 DEF FlushBits, Keeps, Shaped, BitFields
<1> QED BY <1>4, <1>5, <1>6

LEMMA WritingKeepsOn ==
    ASSUME NEW fields, BitFields \subseteq fields, NEW e, NEW f, Keeps(e, f, fields),
           NEW value, NEW n
    PROVE  /\ Keeps(e, GorillaWriteBits(f, value, n), fields)
           /\ Keeps(e, GorillaWriteBit(f, value), fields)
<1>1. Shaped(f, fields)
  BY DEF Keeps
<1>2. /\ Keeps(f, GorillaWriteBits(f, value, n), fields)
      /\ Keeps(f, GorillaWriteBit(f, value), fields)
  BY <1>1, WritingKeeps, Zenon
<1> QED BY <1>2, KeepsOn, Zenon

LEMMA WritingFits ==
    ASSUME NEW fields, BitFields \subseteq fields, NEW e, Shaped(e, fields), Clear(e),
           NEW n \in Nat, n + ByteBits <= BufferBits, NEW value \in Nat, value < 2^n
    PROVE  Clear(GorillaWriteBits(e, value, n))
<1>1. ByteBits \in Nat \ {0} /\ BufferBits \in Nat
  BY XorAssumption
<1> DEFINE end  == e.bits_in_buffer + n
           fill == IF end > BufferBits THEN BufferBits ELSE end
           d    == Drain(e, Pack(e, value, fill), fill, WholeBytes(fill))
           s    == d.spilled \/ end > BufferBits \/ value >= 2^n
<1>2. GorillaWriteBits(e, value, n) = IF n = 0 THEN e ELSE [d EXCEPT !.spilled = s]
  BY Zenon DEF GorillaWriteBits
<1>3. end \in Nat /\ end <= BufferBits /\ fill = end
  BY <1>1 DEF Clear
<1> HIDE DEF end, fill
<1>4. /\ d.bits_in_buffer = fill - WholeBytes(fill) /\ d.spilled = e.spilled
      /\ Shaped(d, fields)
  BY DEF Drain, Shaped, BitFields
<1>5. fill - WholeBytes(fill) \in 0..(ByteBits - 1)
  <2> DEFINE q == fill \div ByteBits
             r == fill % ByteBits
  <2>1. fill = ByteBits * q + r /\ r \in 0..(ByteBits - 1) /\ q \in Int
    BY <1>1, <1>3
  <2>2. WholeBytes(fill) = q * ByteBits
    BY Zenon DEF WholeBytes
  <2> HIDE DEF q, r
  <2>3. q * ByteBits = ByteBits * q /\ ByteBits * q \in Int
    BY <1>1, <2>1
  <2> QED BY <1>1, <2>1, <2>2, <2>3
<1>6. ~(end > BufferBits) /\ ~(value >= 2^n)
  <2>1. 2^n \in Nat
    BY PowerIsPositive
  <2> QED BY <1>1, <1>3, <2>1
<1> HIDE DEF d
<1>7. s = FALSE
  BY <1>4, <1>6 DEF Clear
<1> HIDE DEF s
<1>8. CASE n = 0
  BY <1>2, <1>8
<1>9. CASE n # 0
  <2>1. GorillaWriteBits(e, value, n) = [d EXCEPT !.spilled = s]
    BY <1>2, <1>9
  <2>2. /\ [d EXCEPT !.spilled = s].spilled = s
        /\ [d EXCEPT !.spilled = s].bits_in_buffer = d.bits_in_buffer
    BY <1>4 DEF Shaped, BitFields
  <2> QED BY <1>4, <1>5, <1>7, <2>1, <2>2 DEF Clear
<1> QED BY <1>8, <1>9

LEMMA WritingBitFits ==
    ASSUME NEW fields, BitFields \subseteq fields, NEW e, Shaped(e, fields), Clear(e),
           NEW bit
    PROVE  Clear(GorillaWriteBit(e, bit))
<1>1. ByteBits \in Nat \ {0}
  BY XorAssumption
<1> DEFINE fill == e.bits_in_buffer + 1
           whole == IF fill >= ByteBits THEN ByteBits ELSE 0
           d == Drain(e, Pack(e, bit, fill), fill, whole)
<1>2. GorillaWriteBit(e, bit) = d
  BY Zenon DEF GorillaWriteBit
<1>3. fill - whole \in 0..(ByteBits - 1)
  BY <1>1 DEF Clear
<1> HIDE DEF fill, whole
<1>4. d.bits_in_buffer = fill - whole /\ d.spilled = e.spilled
  BY DEF Drain, Shaped, BitFields
<1> HIDE DEF d
<1> QED BY <1>2, <1>3, <1>4 DEF Clear

LEMMA FlushingFits ==
    ASSUME NEW fields, BitFields \cup {"out"} \subseteq fields, NEW e, Shaped(e, fields)
    PROVE  /\ Clear(e) => Clear(TakeBuffer(FlushBits(e)))
           /\ Shaped(TakeBuffer(FlushBits(e)), fields)
           /\ \A x \in fields \ (BitFields \cup {"out"}) : TakeBuffer(FlushBits(e))[x] = e[x]
<1>1. 0 \in 0..(ByteBits - 1)
  BY XorAssumption
<1> DEFINE f == FlushBits(e)
<1>2. Keeps(e, f, fields)
  BY WritingKeeps
<1>3. ASSUME Clear(e) PROVE Clear(f)
  <2>1. CASE e.bits_in_buffer = 0
    BY <1>3, <2>1 DEF FlushBits
  <2>2. CASE e.bits_in_buffer # 0
    <3>1. f.bits_in_buffer = 0 /\ f.spilled = e.spilled
      BY <2>2 DEF FlushBits, Shaped, BitFields
    <3> QED BY <1>1, <1>3, <3>1 DEF Clear
  <2> QED BY <2>1, <2>2
<1> HIDE DEF f
<1> DEFINE bits == f.out \o [i \in DOMAIN f.buffer |-> Token("bit", f.buffer[i])]
<1>4. TakeBuffer(f) = [f EXCEPT !.out = bits, !.buffer = <<>>]
  <2>1. Shaped(f, fields)
    BY <1>2 DEF Keeps
  <2> QED BY <2>1, Zenon DEF TakeBuffer
<1> HIDE DEF bits
<1>5. /\ Shaped(TakeBuffer(f), fields)
      /\ TakeBuffer(f).bits_in_buffer = f.bits_in_buffer /\ TakeBuffer(f).spilled = f.spilled
      /\ \A x \in fields \ {"out", "buffer"} : TakeBuffer(f)[x] = f[x]
  BY <1>2, <1>4 DEF Keeps, Shaped, BitFields
<1>6. Clear(e) => Clear(TakeBuffer(f))
  BY <1>3, <1>5 DEF Clear
<1>7. \A x \in fields \ (BitFields \cup {"out"}) : TakeBuffer(f)[x] = e[x]
  BY <1>2, <1>5 DEF Keeps, BitFields
<1> QED BY <1>5, <1>6, <1>7 DEF f

--------------------------------------------------------------------------------
(* Gorilla and Chimp128 keep their record and what it was made for; and of a   *)
(* type of half the width of the buffer no write spills, whatever the values.  *)

HalfTypes == {"Float", "Int32"}
HalfValues == 0..(2^HalfBits - 1)
RangeFits(leading, trailing) ==
    \/ leading = NoRange
    \/ leading \in Nat /\ trailing \in Nat /\ leading + trailing < HalfBits

GorillaFields == BitFields \cup {"widths", "first_value", "previous_value",
                                 "previous_leading", "previous_trailing", "out"}
IsGorilla(e, type) == Shaped(e, GorillaFields) /\ e.widths = GorillaWidths(type)
GorillaFits(e) == /\ Clear(e) /\ e.previous_value \in HalfValues
                  /\ RangeFits(e.previous_leading, e.previous_trailing)

LEMMA HalfWidths ==
    /\ {BufferBits, HalfBits, ByteBits, WideField, HalfField} \subseteq Nat \ {0}
    /\ HalfBits + ByteBits <= BufferBits /\ HalfField + ByteBits <= BufferBits
    /\ WideField + ByteBits <= BufferBits
    /\ HalfBits = 2^HalfField /\ BufferBits = 2^WideField
    /\ NoRange > 2 * HalfBits + 1
    /\ \A type \in HalfTypes : /\ NativeBits(type) = HalfBits
                               /\ GorillaWidths(type).field = HalfField
                               /\ GorillaWidths(type).value = HalfBits
<1>1. /\ {BufferBits, HalfBits, ByteBits, WideField, HalfField} \subseteq Nat \ {0}
      /\ HalfBits + ByteBits <= BufferBits /\ WideField <= HalfBits
      /\ HalfBits = 2^HalfField /\ BufferBits = 2^WideField
  BY XorAssumption
<1>2. HalfField < HalfBits
  <2>1. HalfField < 2^HalfField
    BY <1>1, PowerExceeds
  <2> QED BY <1>1, <2>1
<1>3. \A type \in HalfTypes : /\ NativeBits(type) = HalfBits
                              /\ GorillaWidths(type).field = HalfField
                              /\ GorillaWidths(type).value = HalfBits
  BY DEF HalfTypes, NativeBits, GorillaWidths
<1>4. /\ HalfField + ByteBits <= BufferBits /\ WideField + ByteBits <= BufferBits
      /\ NoRange > 2 * HalfBits + 1
  BY <1>1, <1>2 DEF NoRange
<1> QED BY <1>1, <1>3, <1>4

LEMMA GorillaBlockKeeps ==
    ASSUME NEW type, NEW e, IsGorilla(e, type), NEW xor, NEW leading, NEW trailing
    PROVE  LET r == GorillaNewBlock(e, xor, leading, trailing)
           IN  /\ IsGorilla(r, type) /\ r.previous_value = e.previous_value
               /\ r.previous_leading = leading /\ r.previous_trailing = trailing
               /\ /\ type \in HalfTypes /\ GorillaFits(e)
                  /\ xor \in Nat /\ leading \in Nat /\ trailing \in Nat
                  /\ leading + trailing < HalfBits /\ xor < 2^(HalfBits - leading)
                  => GorillaFits(r)
<1> DEFINE length == e.widths.value - leading - trailing
           a == GorillaWriteBit(e, 1)
           b == GorillaWriteBits(a, leading, e.widths.field)
           c == GorillaWriteBits(b, length - 1, e.widths.field)
           d == GorillaWriteBits(c, xor \div 2^trailing, length)
           r == [d EXCEPT !.previous_leading = leading, !.previous_trailing = trailing]
<1>1. GorillaNewBlock(e, xor, leading, trailing) = r
  BY Zenon DEF GorillaNewBlock
<1>2. BitFields \subseteq GorillaFields /\ Shaped(e, GorillaFields)
  BY DEF GorillaFields, IsGorilla
<1>3. Keeps(e, a, GorillaFields)
  BY <1>2, WritingKeeps, Zenon
<1>4. Keeps(e, b, GorillaFields)
  BY <1>2, <1>3, WritingKeepsOn, Zenon
<1>5. Keeps(e, c, GorillaFields)
  BY <1>2, <1>4, WritingKeepsOn, Zenon
<1>7. Keeps(e, d, GorillaFields)
  BY <1>2, <1>5, WritingKeepsOn, Zenon
<1>8. ASSUME type \in HalfTypes, GorillaFits(e),
             xor \in Nat, leading \in Nat, trailing \in Nat,
             leading + trailing < HalfBits, xor < 2^(HalfBits - leading)
      PROVE  Clear(d)
  <2>1. /\ e.widths.field = HalfField /\ length = HalfBits - leading - trailing
        /\ HalfBits \in Nat /\ HalfField \in Nat /\ HalfBits = 2^HalfField
        /\ HalfField + ByteBits <= BufferBits /\ HalfBits + ByteBits <= BufferBits
        /\ ByteBits \in Nat /\ BufferBits \in Nat
    BY <1>8, HalfWidths DEF IsGorilla
  <2>2. length \in Nat \ {0} /\ length <= HalfBits /\ length + trailing = HalfBits - leading
    BY <1>8, <2>1
  <2>3. /\ length - 1 \in Nat /\ length - 1 < 2^HalfField /\ leading < 2^HalfField
        /\ length + ByteBits <= BufferBits
    BY <1>8, <2>1, <2>2
  <2> HIDE DEF length
  <2>4. xor \div 2^trailing \in Nat /\ xor \div 2^trailing < 2^length
    BY <1>8, <2>2, ShiftedIsBelow
  <2> HIDE DEF a, b, c, d
  <2>5. Clear(a)
    BY <1>2, <1>8, WritingBitFits DEF GorillaFits, a
  <2>6. Clear(b)
    BY <1>2, <1>3, <1>8, <2>1, <2>3, <2>5, WritingFits DEF Keeps, b
  <2>7. Clear(c)
    BY <1>2, <1>4, <2>1, <2>3, <2>6, WritingFits DEF Keeps, c
  <2> QED BY <1>2, <1>5, <2>2, <2>3, <2>4, <2>7, WritingFits DEF Keeps, d
<1> HIDE DEF d
<1>9. /\ Shaped(r, GorillaFields) /\ r.widths = e.widths
      /\ r.previous_value = e.previous_value
      /\ r.previous_leading = leading /\ r.previous_trailing = trailing
      /\ r.bits_in_buffer = d.bits_in_buffer /\ r.spilled = d.spilled
  BY <1>7 DEF Keeps, Shaped, GorillaFields, BitFields
<1> HIDE DEF r
<1>10. IsGorilla(r, type)
  BY <1>9 DEF IsGorilla
<1>11. ASSUME type \in HalfTypes, GorillaFits(e),
              xor \in Nat, leading \in Nat, trailing \in Nat,
              leading + trailing < HalfBits, xor < 2^(HalfBits - leading)
       PROVE  GorillaFits(r)
  BY <1>8, <1>9, <1>11 DEF GorillaFits, Clear, RangeFits
<1> QED BY <1>1, <1>9, <1>10, <1>11, Zenon

LEMMA GorillaEncodes ==
    ASSUME NEW type, NEW e, IsGorilla(e, type), NEW v \in Int
    PROVE  /\ IsGorilla(GorillaEncode(e, v, type), type)
           /\ type \in HalfTypes /\ GorillaFits(e) /\ v \in HalfValues
              => GorillaFits(GorillaEncode(e, v, type))
<1> DEFINE native   == NativeBits(type)
           bits     == Xor(Bits(v, native), Bits(e.previous_value, native))
           xor      == NumberOf(bits)
           leading  == LeadingZeros(bits)
           trailing == TrailingZeros(bits)
           changed  == GorillaWriteBit(e, 1)
           length   == e.widths.value - e.previous_leading - e.previous_trailing
           start    == [e EXCEPT !.first_value = <<v>>, !.previous_value = v]
           first    == GorillaWriteBits(start, v, e.widths.value)
           same     == GorillaWriteBit(e, 0)
           marked   == GorillaWriteBit(changed, 0)
           within   == GorillaWriteBits(marked, xor \div 2^e.previous_trailing, length)
           fresh    == GorillaNewBlock(changed, xor, leading, trailing)
           reuse    == leading >= e.previous_leading /\ trailing >= e.previous_trailing
           r        == GorillaEncode(e, v, type)
           Fitting  == type \in HalfTypes /\ GorillaFits(e) /\ v \in HalfValues
<1>1. r = IF e.first_value = <<>> THEN first
          ELSE IF xor = 0 THEN same
          ELSE [(IF reuse THEN within ELSE fresh) EXCEPT !.previous_value = v]
  BY Zenon DEF GorillaEncode
<1>2. BitFields \subseteq GorillaFields /\ Shaped(e, GorillaFields)
      /\ e.widths = GorillaWidths(type)
  BY DEF GorillaFields, IsGorilla
<1>3. ASSUME Fitting
      PROVE  /\ e.widths.field = HalfField /\ e.widths.value = HalfBits /\ Clear(e)
             /\ native = HalfBits /\ e.previous_value \in HalfValues
             /\ v \in HalfValues /\ v \in Nat /\ v < 2^HalfBits
             /\ e.previous_value \in Nat
             /\ RangeFits(e.previous_leading, e.previous_trailing)
             /\ HalfBits \in Nat /\ 2^HalfBits \in Nat /\ HalfValues \subseteq Nat
             /\ HalfBits + ByteBits <= BufferBits
             /\ ByteBits \in Nat /\ BufferBits \in Nat
             /\ NoRange \in Nat /\ NoRange > HalfBits
  <2>1. /\ HalfBits \in Nat /\ 2^HalfBits \in Nat
        /\ HalfBits + ByteBits <= BufferBits
        /\ ByteBits \in Nat /\ BufferBits \in Nat
        /\ NoRange \in Nat /\ NoRange > HalfBits
    BY HalfWidths, PowerIsPositive DEF NoRange
  <2>2. /\ e.widths.field = HalfField /\ e.widths.value = HalfBits /\ native = HalfBits
    BY <1>2, <1>3, HalfWidths
  <2>3. v \in HalfValues /\ e.previous_value \in HalfValues
    BY <1>3 DEF GorillaFits
  <2>4. v \in Nat /\ v < 2^HalfBits /\ e.previous_value \in Nat /\ HalfValues \subseteq Nat
    BY <2>1, <2>3 DEF HalfValues
  <2> QED BY <1>3, <2>1, <2>2, <2>3, <2>4 DEF GorillaFits
<1> HIDE DEF Fitting
<1>4. ASSUME Fitting, xor # 0
      PROVE  /\ leading \in Nat /\ trailing \in Nat /\ leading + trailing < HalfBits
             /\ xor \in Nat /\ xor < 2^(HalfBits - leading)
  <2> HIDE DEF native
  <2>1. v \in Int /\ e.previous_value \in Int /\ HalfBits \in Nat /\ native = HalfBits
    BY <1>3, <1>4
  <2>2. bits \in BitString(HalfBits)
    BY <2>1, BitsAreBits
  <2> HIDE DEF bits
  <2> QED BY <1>4, <2>1, <2>2, ZerosAround
<1>5. Keeps(e, changed, GorillaFields) /\ (Fitting => Clear(changed))
  BY <1>2, <1>3, WritingKeeps, WritingBitFits
<1>6. CASE e.first_value = <<>>
  <2>1. /\ Shaped(start, GorillaFields) /\ start.widths = e.widths
        /\ start.previous_value = v
        /\ start.previous_leading = e.previous_leading
        /\ start.previous_trailing = e.previous_trailing
        /\ start.bits_in_buffer = e.bits_in_buffer /\ start.spilled = e.spilled
    BY <1>2 DEF Shaped, GorillaFields, BitFields
  <2> HIDE DEF start
  <2>2. Keeps(start, first, GorillaFields)
    BY <1>2, <2>1, WritingKeeps
  <2>3. IsGorilla(first, type)
    BY <1>2, <2>1, <2>2 DEF Keeps, IsGorilla, GorillaFields, BitFields
  <2>4. ASSUME Fitting PROVE Clear(first)
    <3>1. Clear(start)
      BY <1>3, <2>1, <2>4 DEF Clear
    <3> QED BY <1>2, <1>3, <2>1, <2>4, <3>1, WritingFits
  <2> HIDE DEF first
  <2>5. ASSUME Fitting PROVE GorillaFits(first)
    <3>1. /\ first.previous_value = v
          /\ first.previous_leading = e.previous_leading
          /\ first.previous_trailing = e.previous_trailing
      BY <2>1, <2>2 DEF Keeps, GorillaFields, BitFields
    <3> QED BY <1>3, <2>4, <2>5, <3>1 DEF GorillaFits
  <2> QED BY <1>1, <1>6, <2>3, <2>5 DEF Fitting
<1>7. CASE e.first_value # <<>> /\ xor = 0
  <2>1. Keeps(e, same, GorillaFields) /\ (Fitting => Clear(same))
    BY <1>2, <1>3, WritingKeeps, WritingBitFits
  <2> HIDE DEF same
  <2>2. IsGorilla(same, type) /\ (Fitting => GorillaFits(same))
    BY <1>2, <1>3, <2>1 DEF Keeps, IsGorilla, GorillaFits, GorillaFields, BitFields
  <2> QED BY <1>1, <1>7, <2>2 DEF Fitting
<1> HIDE DEF xor, leading, trailing, bits, native
<1>8. ASSUME NEW f, IsGorilla(f, type), Fitting => GorillaFits(f)
      PROVE  /\ IsGorilla([f EXCEPT !.previous_value = v], type)
             /\ Fitting => GorillaFits([f EXCEPT !.previous_value = v])
  <2> DEFINE g == [f EXCEPT !.previous_value = v]
  <2>1. /\ Shaped(g, GorillaFields) /\ g.widths = f.widths /\ g.previous_value = v
        /\ g.previous_leading = f.previous_leading
        /\ g.previous_trailing = f.previous_trailing
        /\ g.bits_in_buffer = f.bits_in_buffer /\ g.spilled = f.spilled
    BY <1>8 DEF IsGorilla, Shaped, GorillaFields, BitFields
  <2> HIDE DEF g
  <2>2. IsGorilla(g, type)
    BY <1>8, <2>1 DEF IsGorilla
  <2>3. ASSUME Fitting PROVE GorillaFits(g)
    <3>1. GorillaFits(f) /\ v \in HalfValues
      BY <1>3, <1>8, <2>3
    <3> QED BY <2>1, <3>1 DEF GorillaFits, Clear
  <2> QED BY <2>2, <2>3 DEF g
<1>9. CASE e.first_value # <<>> /\ xor # 0 /\ reuse
  <2>1. Keeps(e, marked, GorillaFields)
    BY <1>2, <1>5, WritingKeepsOn, Zenon
  <2>2. Keeps(e, within, GorillaFields)
    BY <1>2, <2>1, WritingKeepsOn, Zenon
  <2>3. ASSUME Fitting PROVE Clear(within)
    <3>1. e.previous_leading # NoRange
      BY <1>3, <1>4, <1>9, <2>3
    <3>2. /\ e.previous_leading \in Nat /\ e.previous_trailing \in Nat
          /\ length \in Nat /\ length <= HalfBits
          /\ length + e.previous_trailing = HalfBits - e.previous_leading
      BY <1>3, <2>3, <3>1 DEF RangeFits
    <3>3. xor \in Nat /\ xor < 2^(HalfBits - e.previous_leading)
      <4>1. /\ HalfBits - leading \in Nat /\ HalfBits - e.previous_leading \in Nat
            /\ HalfBits - leading <= HalfBits - e.previous_leading
        <5>1. /\ leading \in Nat /\ trailing \in Nat /\ leading + trailing < HalfBits
              /\ leading >= e.previous_leading /\ HalfBits \in Nat
          BY <1>3, <1>4, <1>9, <2>3
        <5>2. /\ e.previous_leading \in Nat /\ e.previous_trailing \in Nat
              /\ e.previous_leading + e.previous_trailing < HalfBits
          BY <1>3, <2>3, <3>1 DEF RangeFits
        <5> QED BY <5>1, <5>2
      <4>2. /\ 2^(HalfBits - leading) <= 2^(HalfBits - e.previous_leading)
            /\ 2^(HalfBits - leading) \in Nat /\ 2^(HalfBits - e.previous_leading) \in Nat
        BY <4>1, PowerIsMonotone, PowerIsPositive
      <4> QED BY <1>4, <1>9, <2>3, <4>2
    <3> HIDE DEF length, marked, changed
    <3>4. /\ xor \div 2^e.previous_trailing \in Nat
          /\ xor \div 2^e.previous_trailing < 2^length
      BY <3>2, <3>3, ShiftedIsBelow
    <3>5. Clear(marked) /\ Shaped(marked, GorillaFields)
      BY <1>2, <1>5, <2>1, <2>3, WritingBitFits DEF Keeps, marked
    <3>6. length + ByteBits <= BufferBits
      BY <1>3, <2>3, <3>2
    <3> QED BY <1>2, <3>2, <3>4, <3>5, <3>6, WritingFits
  <2> HIDE DEF within
  <2>4. IsGorilla(within, type) /\ (Fitting => GorillaFits(within))
    BY <1>2, <1>3, <2>2, <2>3 DEF Keeps, IsGorilla, GorillaFits, GorillaFields, BitFields
  <2>5. r = [within EXCEPT !.previous_value = v]
    BY <1>1, <1>9
  <2> QED BY <1>8, <2>4, <2>5 DEF Fitting
<1>10. CASE e.first_value # <<>> /\ xor # 0 /\ ~reuse
  <2>1. IsGorilla(changed, type) /\ (Fitting => GorillaFits(changed))
    <3> HIDE DEF changed
    <3> QED BY <1>2, <1>3, <1>5 DEF Keeps, IsGorilla, GorillaFits, GorillaFields, BitFields
  <2> HIDE DEF changed
  <2>2. IsGorilla(fresh, type) /\ (Fitting => GorillaFits(fresh))
    <3>1. IsGorilla(fresh, type)
      BY <2>1, GorillaBlockKeeps
    <3>2. ASSUME Fitting PROVE GorillaFits(fresh)
      <4>1. type \in HalfTypes /\ GorillaFits(changed)
        BY <2>1, <3>2 DEF Fitting
      <4>2. /\ leading \in Nat /\ trailing \in Nat /\ leading + trailing < HalfBits
            /\ xor \in Nat /\ xor < 2^(HalfBits - leading)
        BY <1>4, <1>10, <3>2
      <4> QED BY <2>1, <4>1, <4>2, GorillaBlockKeeps
    <3> QED BY <3>1, <3>2
  <2> HIDE DEF fresh, reuse
  <2>3. r = [fresh EXCEPT !.previous_value = v]
    BY <1>1, <1>10
  <2> QED BY <1>8, <2>2, <2>3 DEF Fitting
<1> QED BY <1>6, <1>7, <1>9, <1>10, Zenon

ChimpFields == BitFields \cup {"bit_width", "prev_value", "prev_leading", "prev_trailing",
                               "count", "out"}
IsChimp(e, type) == Shaped(e, ChimpFields) /\ e.bit_width = ChimpWidth(type)
ChimpFits(e) == /\ Clear(e) /\ e.prev_value \in HalfValues
                /\ RangeFits(e.prev_leading, e.prev_trailing)

(* The bits that tell the case of a difference.                                *)
LEMMA FlagsKeep ==
    ASSUME NEW e, Shaped(e, ChimpFields), NEW last
    PROVE  /\ Keeps(e, ChimpWriteBit(e, last), ChimpFields)
           /\ Keeps(e, ChimpWriteBit(ChimpWriteBit(e, 1), last), ChimpFields)
           /\ Keeps(e, WriteFlags(e, last), ChimpFields)
           /\ Clear(e) => /\ Clear(ChimpWriteBit(e, last))
                          /\ Clear(ChimpWriteBit(ChimpWriteBit(e, 1), last))
                          /\ Clear(WriteFlags(e, last))
<1>1. BitFields \subseteq ChimpFields
  BY DEF ChimpFields
<1>2. ASSUME NEW f, Keeps(e, f, ChimpFields), NEW bit
      PROVE  /\ Keeps(e, ChimpWriteBit(f, bit), ChimpFields)
             /\ Clear(f) => Clear(ChimpWriteBit(f, bit))
  <2>1. Keeps(e, ChimpWriteBit(f, bit), ChimpFields)
    BY <1>1, <1>2, WritingKeepsOn, Zenon DEF ChimpWriteBit
  <2>2. Shaped(f, ChimpFields)
    BY <1>2 DEF Keeps
  <2>3. Clear(f) => Clear(ChimpWriteBit(f, bit))
    BY <1>1, <2>2, WritingBitFits, Zenon DEF ChimpWriteBit
  <2> QED BY <2>1, <2>3
<1>3. Keeps(e, e, ChimpFields)
  BY DEF Keeps
<1> DEFINE a == ChimpWriteBit(e, 1)
           b == ChimpWriteBit(a, 1)
<1>4. Keeps(e, a, ChimpFields) /\ (Clear(e) => Clear(a))
  BY <1>2, <1>3, Zenon
<1> HIDE DEF a
<1>5. Keeps(e, b, ChimpFields) /\ (Clear(e) => Clear(b))
  BY <1>2, <1>4, Zenon
<1> HIDE DEF b
<1>6. /\ Keeps(e, ChimpWriteBit(e, last), ChimpFields)
      /\ Clear(e) => Clear(ChimpWriteBit(e, last))
  BY <1>2, <1>3, Zenon
<1>7. /\ Keeps(e, ChimpWriteBit(a, last), ChimpFields)
      /\ Clear(e) => Clear(ChimpWriteBit(a, last))
  BY <1>2, <1>4, Zenon
<1>8. /\ Keeps(e, ChimpWriteBit(b, last), ChimpFields)
      /\ Clear(e) => Clear(ChimpWriteBit(b, last))
  BY <1>2, <1>5, Zenon
<1>9. WriteFlags(e, last) = ChimpWriteBit(b, last)
  BY Zenon DEF WriteFlags, a, b
<1> QED BY <1>6, <1>7, <1>8, <1>9, Zenon DEF a

(* One field after another: what is written keeps the record, and stays clear  *)
(* if each field is short and holds its value.                                 *)
LEMMA ChimpWrites ==
    ASSUME NEW e, NEW f, Keeps(e, f, ChimpFields), NEW value, NEW n
    PROVE  /\ Keeps(e, ChimpWriteBits(f, value, n), ChimpFields)
           /\ /\ Clear(f) /\ n \in Nat /\ n + ByteBits <= BufferBits
              /\ value \in Nat /\ value < 2^n
              => Clear(ChimpWriteBits(f, value, n))
<1>1. BitFields \subseteq ChimpFields /\ Shaped(f, ChimpFields)
  BY DEF ChimpFields, Keeps
<1>2. Keeps(e, GorillaWriteBits(f, value, n), ChimpFields)
  BY <1>1, WritingKeepsOn, Zenon
<1>3. /\ Clear(f) /\ n \in Nat /\ n + ByteBits <= BufferBits
      /\ value \in Nat /\ value < 2^n
      => Clear(GorillaWriteBits(f, value, n))
  BY <1>1, WritingFits, Zenon
<1> QED BY <1>2, <1>3, Zenon DEF ChimpWriteBits

(* The three ranges.                                                           *)
Differs(e, xor, leading, trailing) ==
    /\ Clear(e) /\ e.bit_width = HalfBits
    /\ xor \in Nat /\ leading \in Nat /\ trailing \in Nat
    /\ leading + trailing < HalfBits /\ xor < 2^(HalfBits - leading)

LEMMA RangeLength ==
    ASSUME NEW xor \in Nat, NEW leading \in Nat, NEW trailing \in Nat,
           leading + trailing < HalfBits, xor < 2^(HalfBits - leading)
    PROVE  LET length == HalfBits - leading - trailing
           IN  /\ length \in Nat /\ length + ByteBits <= BufferBits
               /\ xor \div 2^trailing \in Nat /\ xor \div 2^trailing < 2^length
               /\ length < 2^WideField /\ leading < 2^WideField
<1> DEFINE length == HalfBits - leading - trailing
<1>1. /\ HalfBits \in Nat /\ ByteBits \in Nat \ {0} /\ BufferBits \in Nat
      /\ HalfBits + ByteBits <= BufferBits /\ BufferBits = 2^WideField
  BY HalfWidths
<1>2. length \in Nat /\ length <= HalfBits /\ length + trailing = HalfBits - leading
  BY <1>1
<1>3. length + ByteBits <= BufferBits /\ length < BufferBits /\ leading < BufferBits
  BY <1>1, <1>2
<1> HIDE DEF length
<1>4. xor \div 2^trailing \in Nat /\ xor \div 2^trailing < 2^length
  BY <1>2, ShiftedIsBelow
<1> QED BY <1>1, <1>2, <1>3, <1>4 DEF length

LEMMA SameRangeKeeps ==
    ASSUME NEW e, Shaped(e, ChimpFields), NEW xor
    PROVE  /\ Keeps(e, SameRange(e, xor), ChimpFields)
           /\ Differs(e, xor, e.prev_leading, e.prev_trailing)
              => Clear(SameRange(e, xor))
<1> DEFINE a == ChimpWriteBit(ChimpWriteBit(e, 1), 0)
           length == e.bit_width - e.prev_leading - e.prev_trailing
           r == ChimpWriteBits(a, xor \div 2^e.prev_trailing, length)
<1>1. SameRange(e, xor) = r
  BY Zenon DEF SameRange
<1>2. Keeps(e, a, ChimpFields) /\ (Clear(e) => Clear(a))
  BY FlagsKeep, Zenon
<1> HIDE DEF a
<1>3. Keeps(e, r, ChimpFields)
  BY <1>2, ChimpWrites, Zenon
<1>4. ASSUME Differs(e, xor, e.prev_leading, e.prev_trailing) PROVE Clear(r)
  <2>1. /\ length \in Nat /\ length + ByteBits <= BufferBits
        /\ xor \div 2^e.prev_trailing \in Nat
        /\ xor \div 2^e.prev_trailing < 2^length
    BY <1>4, RangeLength DEF Differs
  <2> HIDE DEF length
  <2> QED BY <1>2, <1>4, <2>1, ChimpWrites DEF Differs
<1> QED BY <1>1, <1>3, <1>4, Zenon

LEMMA CloseRangeKeeps ==
    ASSUME NEW e, Shaped(e, ChimpFields), NEW xor, NEW leading
    PROVE  LET r == CloseRange(e, xor, leading)
           IN  /\ Shaped(r, ChimpFields) /\ r.bit_width = e.bit_width
               /\ r.prev_leading = leading /\ r.prev_trailing = e.prev_trailing
               /\ /\ Differs(e, xor, leading, e.prev_trailing)
                  /\ leading - e.prev_leading \in {-1, 0, 1}
                  => Clear(r)
<1> DEFINE a == WriteFlags(e, 0)
           b == ChimpWriteBits(a, leading - e.prev_leading + 1, 2)
           length == e.bit_width - leading - e.prev_trailing
           c == ChimpWriteBits(b, xor \div 2^e.prev_trailing, length)
           r == [c EXCEPT !.prev_leading = leading]
<1>1. CloseRange(e, xor, leading) = r
  BY Zenon DEF CloseRange
<1>2. Keeps(e, a, ChimpFields) /\ (Clear(e) => Clear(a))
  BY FlagsKeep, Zenon
<1> HIDE DEF a
<1>3. Keeps(e, b, ChimpFields)
  BY <1>2, ChimpWrites, Zenon
<1>4. Keeps(e, c, ChimpFields)
  BY <1>3, ChimpWrites, Zenon
<1>5. ASSUME Differs(e, xor, leading, e.prev_trailing),
             leading - e.prev_leading \in {-1, 0, 1}
      PROVE  Clear(c)
  <2>1. /\ length \in Nat /\ length + ByteBits <= BufferBits
        /\ xor \div 2^e.prev_trailing \in Nat
        /\ xor \div 2^e.prev_trailing < 2^length
    BY <1>5, RangeLength DEF Differs
  <2>2. 2^2 = 4 /\ 2 + ByteBits <= BufferBits
    <3>1. 2^2 = 4
      BY PowerDoubles, 2^1 = 2 * 2^0, 2^0 = 1, 1 \in Nat, 1 + 1 = 2
    <3>2. HalfBits >= 2 /\ HalfBits + ByteBits <= BufferBits
          /\ HalfBits \in Nat /\ ByteBits \in Nat /\ BufferBits \in Nat
      <4>1. HalfField \in Nat \ {0} /\ HalfBits = 2^HalfField
        BY HalfWidths
      <4>2. 1 \in Nat /\ 1 <= HalfField
        BY <4>1
      <4>3. 2^1 <= 2^HalfField
        BY <4>1, <4>2, PowerIsMonotone
      <4>4. 2^1 = 2
        OBVIOUS
      <4> QED BY <4>1, <4>3, <4>4, HalfWidths
    <3> QED BY <3>1, <3>2
  <2>3. leading - e.prev_leading + 1 \in Nat /\ leading - e.prev_leading + 1 < 2^2
    BY <1>5, <2>2
  <2> HIDE DEF length, b, c
  <2>4. Clear(b)
    BY <1>2, <1>5, <2>2, <2>3, ChimpWrites DEF Differs, b
  <2> QED BY <1>3, <2>1, <2>4, ChimpWrites DEF c
<1> HIDE DEF c
<1>6. /\ Shaped(r, ChimpFields) /\ r.bit_width = e.bit_width
      /\ r.prev_leading = leading /\ r.prev_trailing = e.prev_trailing
      /\ r.bits_in_buffer = c.bits_in_buffer /\ r.spilled = c.spilled
  BY <1>4 DEF Keeps, Shaped, ChimpFields, BitFields
<1> HIDE DEF r
<1>7. /\ Differs(e, xor, leading, e.prev_trailing)
      /\ leading - e.prev_leading \in {-1, 0, 1}
      => Clear(r)
  BY <1>5, <1>6 DEF Clear
<1> QED BY <1>1, <1>6, <1>7

LEMMA NewRangeKeeps ==
    ASSUME NEW e, Shaped(e, ChimpFields), NEW xor, NEW leading, NEW trailing
    PROVE  LET r == NewRange(e, xor, leading, trailing)
           IN  /\ Shaped(r, ChimpFields) /\ r.bit_width = e.bit_width
               /\ r.prev_leading = leading /\ r.prev_trailing = trailing
               /\ Differs(e, xor, leading, trailing) => Clear(r)
<1> DEFINE a == WriteFlags(e, 1)
           length == e.bit_width - leading - trailing
           b == ChimpWriteBits(a, leading, WideField)
           c == ChimpWriteBits(b, length, WideField)
           d == ChimpWriteBits(c, xor \div 2^trailing, length)
           r == [d EXCEPT !.prev_leading = leading, !.prev_trailing = trailing]
<1>1. NewRange(e, xor, leading, trailing) = r
  BY Zenon DEF NewRange
<1>2. Keeps(e, a, ChimpFields) /\ (Clear(e) => Clear(a))
  BY FlagsKeep, Zenon
<1> HIDE DEF a
<1>3. Keeps(e, b, ChimpFields)
  BY <1>2, ChimpWrites, Zenon
<1>4. Keeps(e, c, ChimpFields)
  BY <1>3, ChimpWrites, Zenon
<1>5. Keeps(e, d, ChimpFields)
  BY <1>4, ChimpWrites, Zenon
<1>6. ASSUME Differs(e, xor, leading, trailing) PROVE Clear(d)
  <2>1. /\ length \in Nat /\ length + ByteBits <= BufferBits
        /\ xor \div 2^trailing \in Nat /\ xor \div 2^trailing < 2^length
        /\ length < 2^WideField /\ leading < 2^WideField
    BY <1>6, RangeLength DEF Differs
  <2>2. WideField \in Nat /\ WideField + ByteBits <= BufferBits
    BY HalfWidths
  <2> HIDE DEF length, b, c, d
  <2>3. Clear(b)
    BY <1>2, <1>6, <2>1, <2>2, ChimpWrites DEF Differs, b
  <2>4. Clear(c)
    BY <1>3, <2>1, <2>2, <2>3, ChimpWrites DEF c
  <2> QED BY <1>4, <2>1, <2>4, ChimpWrites DEF d
<1> HIDE DEF d
<1>7. /\ Shaped(r, ChimpFields) /\ r.bit_width = e.bit_width
      /\ r.prev_leading = leading /\ r.prev_trailing = trailing
      /\ r.bits_in_buffer = d.bits_in_buffer /\ r.spilled = d.spilled
  BY <1>5 DEF Keeps, Shaped, ChimpFields, BitFields
<1> HIDE DEF r
<1> QED BY <1>1, <1>6, <1>7 DEF Clear

LEMMA ChimpEncodes ==
    ASSUME NEW type, NEW e, IsChimp(e, type), NEW v \in Int
    PROVE  /\ IsChimp(ChimpEncode(e, v), type)
           /\ type = "Float" /\ ChimpFits(e) /\ v \in HalfValues
              => ChimpFits(ChimpEncode(e, v))
<1> DEFINE bits     == Xor(Bits(v, e.bit_width), Bits(e.prev_value, e.bit_width))
           xor      == NumberOf(bits)
           leading  == LeadingZeros(bits)
           trailing == TrailingZeros(bits)
           inside   == leading >= e.prev_leading /\ trailing >= e.prev_trailing
           close    == /\ trailing = e.prev_trailing
                       /\ leading \in (e.prev_leading - 1)..(e.prev_leading + 1)
           first    == ChimpWriteBits(e, v, e.bit_width)
           same     == ChimpWriteBit(e, 0)
           w        == IF e.count = 0 THEN first
                       ELSE IF xor = 0 THEN same
                       ELSE IF inside THEN SameRange(e, xor)
                       ELSE IF close THEN CloseRange(e, xor, leading)
                       ELSE NewRange(e, xor, leading, trailing)
           r        == [w EXCEPT !.prev_value = v, !.count = @ + 1]
           Fitting  == type = "Float" /\ ChimpFits(e) /\ v \in HalfValues
           Written(x) == /\ Shaped(x, ChimpFields) /\ x.bit_width = e.bit_width
                         /\ Fitting => /\ Clear(x)
                                       /\ RangeFits(x.prev_leading, x.prev_trailing)
<1>1. ChimpEncode(e, v) = r
  BY Zenon DEF ChimpEncode
<1>2. BitFields \subseteq ChimpFields /\ Shaped(e, ChimpFields)
      /\ e.bit_width = ChimpWidth(type) /\ Keeps(e, e, ChimpFields)
  BY DEF ChimpFields, IsChimp, Keeps
<1>3. ASSUME Fitting
      PROVE  /\ e.bit_width = HalfBits /\ Clear(e)
             /\ e.prev_value \in Nat /\ v \in Nat /\ v < 2^HalfBits /\ v \in HalfValues
             /\ RangeFits(e.prev_leading, e.prev_trailing)
             /\ HalfBits \in Nat /\ HalfBits + ByteBits <= BufferBits
             /\ NoRange \in Nat /\ NoRange > 2 * HalfBits + 1
  <2>1. /\ HalfBits \in Nat /\ 2^HalfBits \in Nat /\ HalfBits + ByteBits <= BufferBits
        /\ NoRange \in Nat /\ NoRange > 2 * HalfBits + 1
    BY HalfWidths, PowerIsPositive DEF NoRange
  <2>2. e.bit_width = HalfBits
    BY <1>2, <1>3 DEF ChimpWidth
  <2>3. v \in Nat /\ v < 2^HalfBits /\ e.prev_value \in Nat
    BY <1>3, <2>1 DEF ChimpFits, HalfValues
  <2> QED BY <1>3, <2>1, <2>2, <2>3 DEF ChimpFits
<1> HIDE DEF Fitting
<1>4. ASSUME Fitting, xor # 0 PROVE Differs(e, xor, leading, trailing)
  <2>1. e.bit_width = HalfBits /\ v \in Int /\ e.prev_value \in Int /\ HalfBits \in Nat
    BY <1>3, <1>4
  <2>2. bits \in BitString(HalfBits)
    BY <2>1, BitsAreBits
  <2> HIDE DEF bits
  <2>3. /\ leading \in Nat /\ trailing \in Nat /\ leading + trailing < HalfBits
        /\ xor \in Nat /\ xor < 2^(HalfBits - leading)
    BY <1>4, <2>1, <2>2, ZerosAround
  <2> QED BY <1>3, <1>4, <2>3 DEF Differs
<1> HIDE DEF xor, leading, trailing, bits
<1>5. ASSUME NEW x, Keeps(e, x, ChimpFields), Fitting => Clear(x) PROVE Written(x)
  BY <1>3, <1>5 DEF Keeps, ChimpFields, BitFields
<1>6. Written(first)
  <2>1. Keeps(e, first, ChimpFields)
    BY <1>2, ChimpWrites, Zenon
  <2>2. Fitting => Clear(first)
    BY <1>2, <1>3, ChimpWrites
  <2> HIDE DEF first, Written
  <2> QED BY <1>5, <2>1, <2>2
<1>7. Written(same)
  <2>1. Keeps(e, same, ChimpFields) /\ (Fitting => Clear(same))
    BY <1>2, <1>3, FlagsKeep
  <2> HIDE DEF same, Written
  <2> QED BY <1>5, <2>1
<1>8. ASSUME e.count = 0 PROVE Written(w)
  BY <1>6, <1>8
<1>9. ASSUME e.count # 0 /\ xor = 0 PROVE Written(w)
  BY <1>7, <1>9
<1>10. ASSUME Fitting, xor # 0
       PROVE  RangeFits(leading, trailing)
  BY <1>4, <1>10 DEF Differs, RangeFits
<1>11. ASSUME e.count # 0 /\ xor # 0 /\ inside PROVE Written(w)
  <2>1. Keeps(e, SameRange(e, xor), ChimpFields)
    BY <1>2, SameRangeKeeps, Zenon
  <2>2. ASSUME Fitting PROVE Clear(SameRange(e, xor))
    <3>1. Differs(e, xor, leading, trailing)
      BY <1>4, <1>11, <2>2
    <3>2. e.prev_leading # NoRange
      BY <1>3, <1>11, <2>2, <3>1 DEF Differs
    <3>3. /\ e.prev_leading \in Nat /\ e.prev_trailing \in Nat
          /\ e.prev_leading + e.prev_trailing < HalfBits
      BY <1>3, <2>2, <3>2 DEF RangeFits
    <3>4. xor < 2^(HalfBits - e.prev_leading)
      <4>1. /\ HalfBits - leading \in Nat /\ HalfBits - e.prev_leading \in Nat
            /\ HalfBits - leading <= HalfBits - e.prev_leading
        <5>1. /\ leading \in Nat /\ trailing \in Nat /\ leading + trailing < HalfBits
              /\ leading >= e.prev_leading /\ HalfBits \in Nat
          BY <1>3, <1>11, <2>2, <3>1 DEF Differs
        <5> QED BY <3>3, <5>1
      <4>2. /\ 2^(HalfBits - leading) <= 2^(HalfBits - e.prev_leading)
            /\ 2^(HalfBits - leading) \in Nat /\ 2^(HalfBits - e.prev_leading) \in Nat
        BY <4>1, PowerIsMonotone, PowerIsPositive
      <4> QED BY <3>1, <4>2 DEF Differs
    <3>5. Differs(e, xor, e.prev_leading, e.prev_trailing)
      BY <3>1, <3>3, <3>4 DEF Differs
    <3> QED BY <1>2, <3>5, SameRangeKeeps
  <2>3. Written(SameRange(e, xor))
    <3> HIDE DEF Written
    <3> QED BY <1>5, <2>1, <2>2
  <2> QED BY <1>11, <2>3
<1>12. ASSUME e.count # 0 /\ xor # 0 /\ ~inside /\ close PROVE Written(w)
  <2>1. /\ Shaped(CloseRange(e, xor, leading), ChimpFields)
        /\ CloseRange(e, xor, leading).bit_width = e.bit_width
        /\ CloseRange(e, xor, leading).prev_leading = leading
        /\ CloseRange(e, xor, leading).prev_trailing = e.prev_trailing
    BY <1>2, CloseRangeKeeps
  <2>2. ASSUME Fitting PROVE Clear(CloseRange(e, xor, leading))
    <3>1. Differs(e, xor, leading, e.prev_trailing)
      BY <1>4, <1>12, <2>2
    <3>2. e.prev_leading # NoRange
      BY <1>3, <1>12, <2>2, <3>1 DEF Differs
    <3>3. leading - e.prev_leading \in {-1, 0, 1}
      BY <1>3, <1>12, <2>2, <3>1, <3>2 DEF Differs, RangeFits
    <3> QED BY <1>2, <3>1, <3>3, CloseRangeKeeps
  <2>3. Written(CloseRange(e, xor, leading))
    BY <1>10, <1>12, <2>1, <2>2
  <2> QED BY <1>12, <2>3
<1>13. ASSUME e.count # 0 /\ xor # 0 /\ ~inside /\ ~close PROVE Written(w)
  <2>1. /\ Shaped(NewRange(e, xor, leading, trailing), ChimpFields)
        /\ NewRange(e, xor, leading, trailing).bit_width = e.bit_width
        /\ NewRange(e, xor, leading, trailing).prev_leading = leading
        /\ NewRange(e, xor, leading, trailing).prev_trailing = trailing
        /\ Differs(e, xor, leading, trailing) => Clear(NewRange(e, xor, leading, trailing))
    BY <1>2, NewRangeKeeps
  <2>2. Written(NewRange(e, xor, leading, trailing))
    BY <1>4, <1>10, <1>13, <2>1
  <2> QED BY <1>13, <2>2
<1> HIDE DEF r
<1>14. Written(w)
  <2> HIDE DEF Written
  <2> QED BY <1>8, <1>9, <1>11, <1>12, <1>13, Zenon
<1> HIDE DEF w
<1>15. /\ Shaped(r, ChimpFields) /\ r.bit_width = w.bit_width /\ r.prev_value = v
       /\ r.prev_leading = w.prev_leading /\ r.prev_trailing = w.prev_trailing
       /\ r.bits_in_buffer = w.bits_in_buffer /\ r.spilled = w.spilled
  BY <1>14 DEF Shaped, ChimpFields, BitFields, r
<1>16. IsChimp(r, type)
  BY <1>2, <1>14, <1>15 DEF IsChimp
<1>17. ASSUME Fitting PROVE ChimpFits(r)
  BY <1>3, <1>14, <1>15, <1>17 DEF ChimpFits, Clear
<1> QED BY <1>1, <1>16, <1>17 DEF Fitting

--------------------------------------------------------------------------------
(* The rounds of a flush.                                                      *)

IsDrain(f, codec, e, n) ==
    f = [i \in 0..n |-> IF i = 0 THEN e ELSE Packed(codec, f[i - 1])]

LEMMA DrainExists ==
    ASSUME NEW codec, NEW e, NEW n \in Nat
    PROVE  \E f : IsDrain(f, codec, e, n)
<1> DEFINE T == {m \in Nat : \E f : IsDrain(f, codec, e, m)}
<1>1. 0 \in T
  <2>1. IsDrain([i \in 0..0 |-> e], codec, e, 0)
    BY DEF IsDrain
  <2> QED BY <2>1
<1>2. ASSUME NEW m \in Nat, m \in T PROVE m + 1 \in T
  <2>1. PICK f : IsDrain(f, codec, e, m)
    BY <1>2
  <2> DEFINE g == [i \in 0..(m + 1) |-> IF i = m + 1 THEN Packed(codec, f[m]) ELSE f[i]]
  <2>2. \A i \in 0..(m + 1) : g[i] = IF i = 0 THEN e ELSE Packed(codec, g[i - 1])
    <3> SUFFICES ASSUME NEW i \in 0..(m + 1)
                 PROVE  g[i] = IF i = 0 THEN e ELSE Packed(codec, g[i - 1])
      OBVIOUS
    <3>1. CASE i = m + 1
      <4>1. m \in 0..(m + 1) /\ m # m + 1 /\ i - 1 = m /\ i # 0
        BY <3>1
      <4>2. g[i] = Packed(codec, f[m]) /\ g[m] = f[m]
        BY <3>1, <4>1
      <4> QED BY <3>1, <4>1, <4>2, Zenon
    <3>2. CASE i \in 0..m
      <4>1. f[i] = IF i = 0 THEN e ELSE Packed(codec, f[i - 1])
        BY <2>1, <3>2, Zenon DEF IsDrain
      <4>2. i # m + 1 /\ (i # 0 => i - 1 \in 0..(m + 1) /\ i - 1 # m + 1)
        BY <3>2
      <4>3. g[i] = f[i] /\ (i # 0 => g[i - 1] = f[i - 1])
        BY <4>2
      <4> QED BY <4>1, <4>3, Zenon
    <3> QED BY <3>1, <3>2
  <2>3. IsDrain(g, codec, e, m + 1)
    BY <2>2, Zenon DEF IsDrain
  <2> QED BY <2>3, m + 1 \in Nat, Zenon
<1>3. n \in T
  <2> HIDE DEF T
  <2> QED BY <1>1, <1>2, InductiveSet
<1> QED BY <1>3

LEMMA DrainedIs ==
    ASSUME NEW codec, NEW e, NEW n \in Nat, NEW f, IsDrain(f, codec, e, n)
    PROVE  Drained(codec, e, n) = f[n]
<1> DEFINE g == CHOOSE h : IsDrain(h, codec, e, n)
<1>1. Drained(codec, e, n) = g[n]
  BY Zenon DEF Drained, IsDrain
<1>2. IsDrain(g, codec, e, n)
  BY Zenon
<1> HIDE DEF g
<1>3. /\ \A i \in 0..n : f[i] = IF i = 0 THEN e ELSE Packed(codec, f[i - 1])
      /\ \A i \in 0..n : g[i] = IF i = 0 THEN e ELSE Packed(codec, g[i - 1])
  BY <1>2, Zenon DEF IsDrain
<1> DEFINE T == {m \in Nat : m <= n => f[m] = g[m]}
<1>4. 0 \in T
  BY <1>3
<1>5. ASSUME NEW m \in Nat, m \in T PROVE m + 1 \in T
  <2> SUFFICES ASSUME m + 1 <= n PROVE f[m + 1] = g[m + 1]
    OBVIOUS
  <2>1. m + 1 \in 0..n /\ m + 1 # 0 /\ (m + 1) - 1 = m /\ f[m] = g[m]
    BY <1>5
  <2>2. f[m + 1] = Packed(codec, f[m]) /\ g[m + 1] = Packed(codec, g[m])
    BY <1>3, <2>1, Zenon
  <2> QED BY <2>1, <2>2, Zenon
<1>6. Nat \subseteq T
  <2> HIDE DEF T
  <2> QED BY <1>4, <1>5, InductiveSet
<1> QED BY <1>1, <1>6

--------------------------------------------------------------------------------
(* Sprintz: what its predictor has learned is forgotten by every block, so     *)
(* encoders that differ in nothing else write the same.                        *)

SprintzFields == {"values", "byte_cache", "group_num", "fire_pred", "is_first_cached",
                  "lost", "out"}
Alike(e, f) ==
    /\ Shaped(e, SprintzFields) /\ Shaped(f, SprintzFields)
    /\ \A x \in SprintzFields \ {"fire_pred"} : e[x] = f[x]

LEMMA AlikeByField ==
    ASSUME NEW e, NEW f, Shaped(e, SprintzFields), Shaped(f, SprintzFields)
    PROVE  Alike(e, f) <=>
             /\ e.values = f.values /\ e.byte_cache = f.byte_cache
             /\ e.group_num = f.group_num /\ e.is_first_cached = f.is_first_cached
             /\ e.lost = f.lost /\ e.out = f.out
<1>1. SprintzFields \ {"fire_pred"} =
        {"values", "byte_cache", "group_num", "is_first_cached", "lost", "out"}
  BY DEF SprintzFields
<1> QED BY <1>1, Zenon DEF Alike

LEMMA BlocksAlike ==
    ASSUME NEW e, NEW f, Alike(e, f), NEW type
    PROVE  Alike(EncodeBlock(e, type), EncodeBlock(f, type))
<1> DEFINE w == WordOf(type)
           P(values) == FoldLeft(LAMBDA acc, i :
               LET prev == AsInteger(values[i], w)
                   val  == AsInteger(values[i + 1], w)
                   err  == Signed(val - FirePredict(acc.fire, prev, type), w)
               IN [fire |-> FireTrain(acc.fire, prev, val, err, w),
                   errs |-> Append(acc.errs, err)],
               [fire |-> FireNew, errs |-> <<>>], [i \in 1..BLOCK_SIZE |-> i])
           Z(p) == [i \in DOMAIN p.errs |-> SprintzZigzag(p.errs[i], w)]
           L(p) == \E i \in DOMAIN p.errs : Saturates(p.errs[i], w)
           B(x) == [x EXCEPT !.byte_cache = @ \o BitPack(Z(P(x.values)), type, x.values[1]),
                             !.values = <<>>, !.is_first_cached = FALSE,
                             !.group_num = @ + 1, !.fire_pred = P(x.values).fire,
                             !.lost = @ \/ L(P(x.values))]
<1>1. EncodeBlock(e, type) = B(e) /\ EncodeBlock(f, type) = B(f)
  BY DEF EncodeBlock, Predictions
<1> HIDE DEF P, Z, L, w
<1>2. e.values = f.values /\ e.byte_cache = f.byte_cache /\ e.group_num = f.group_num
      /\ e.lost = f.lost /\ e.out = f.out
  BY DEF Alike, SprintzFields
<1>3. ASSUME NEW x, Shaped(x, SprintzFields)
      PROVE  /\ Shaped(B(x), SprintzFields)
             /\ B(x).byte_cache = x.byte_cache \o BitPack(Z(P(x.values)), type, x.values[1])
             /\ B(x).values = <<>> /\ B(x).is_first_cached = FALSE
             /\ B(x).group_num = x.group_num + 1
             /\ B(x).lost = (x.lost \/ L(P(x.values))) /\ B(x).out = x.out
  BY <1>3 DEF Shaped, SprintzFields
<1> HIDE DEF B
<1>4. Shaped(B(e), SprintzFields) /\ Shaped(B(f), SprintzFields)
  BY <1>3 DEF Alike
<1>5. /\ Shaped(e, SprintzFields) /\ Shaped(f, SprintzFields)
      /\ P(e.values) = P(f.values)
  <2>1. Shaped(e, SprintzFields) /\ Shaped(f, SprintzFields)
    BY DEF Alike
  <2>2. P(e.values) = P(f.values)
    BY <1>2, Zenon
  <2> QED BY <2>1, <2>2
<1>6. B(e).byte_cache = B(f).byte_cache
  <2>1. /\ B(e).byte_cache = e.byte_cache \o BitPack(Z(P(e.values)), type, e.values[1])
        /\ B(f).byte_cache = f.byte_cache \o BitPack(Z(P(f.values)), type, f.values[1])
    BY <1>3, <1>5, Zenon
  <2> QED BY <1>2, <1>5, <2>1, Zenon
<1>7. B(e).lost = B(f).lost
  <2>1. /\ B(e).lost = (e.lost \/ L(P(e.values)))
        /\ B(f).lost = (f.lost \/ L(P(f.values)))
    BY <1>3, <1>5, Zenon
  <2> QED BY <1>2, <1>5, <2>1, Zenon
<1>8. /\ B(e).values = B(f).values /\ B(e).is_first_cached = B(f).is_first_cached
      /\ B(e).group_num = B(f).group_num /\ B(e).out = B(f).out
  <2>1. ASSUME NEW x, Shaped(x, SprintzFields)
        PROVE  /\ B(x).values = <<>> /\ B(x).is_first_cached = FALSE
               /\ B(x).group_num = x.group_num + 1 /\ B(x).out = x.out
    BY <1>3, <2>1, Zenon
  <2> QED BY <1>2, <1>5, <2>1, Zenon
<1>9. Alike(B(e), B(f))
  BY <1>4, <1>6, <1>7, <1>8, AlikeByField, Zenon
<1> QED BY <1>1, <1>9, Zenon

LEMMA CachesLeaveAlike ==
    ASSUME NEW e, NEW f, Alike(e, f)
    PROVE  Alike(FlushInternal(e), FlushInternal(f))
<1> DEFINE Left(x) == FlushInternal(x)
<1>1. /\ Shaped(e, SprintzFields) /\ Shaped(f, SprintzFields)
      /\ e.values = f.values /\ e.byte_cache = f.byte_cache
      /\ e.is_first_cached = f.is_first_cached /\ e.lost = f.lost /\ e.out = f.out
  BY AlikeByField, Zenon DEF Alike
<1>2. ASSUME NEW x, Shaped(x, SprintzFields)
      PROVE  /\ Shaped(Left(x), SprintzFields) /\ Left(x).out = x.out \o x.byte_cache
             /\ Left(x).byte_cache = <<>> /\ Left(x).group_num = 0
             /\ Left(x).values = x.values /\ Left(x).is_first_cached = x.is_first_cached
             /\ Left(x).lost = x.lost
  BY <1>2 DEF FlushInternal, Shaped, SprintzFields
<1> HIDE DEF Left
<1>3. /\ Shaped(Left(e), SprintzFields) /\ Shaped(Left(f), SprintzFields)
      /\ Left(e).values = Left(f).values /\ Left(e).byte_cache = Left(f).byte_cache
      /\ Left(e).group_num = Left(f).group_num
      /\ Left(e).is_first_cached = Left(f).is_first_cached
      /\ Left(e).lost = Left(f).lost /\ Left(e).out = Left(f).out
  BY <1>1, <1>2
<1> QED BY <1>3, AlikeByField, Zenon DEF Left

LEMMA EncodingIsAlike ==
    ASSUME NEW e, NEW f, Alike(e, f), NEW v, NEW type
    PROVE  Alike(SprintzEncode(e, v, type), SprintzEncode(f, v, type))
<1> DEFINE Pushed(x) == [x EXCEPT !.values = Append(@, v), !.is_first_cached = TRUE]
           Block(x) == IF Len(Pushed(x).values) = BLOCK_SIZE + 1
                       THEN EncodeBlock(Pushed(x), type) ELSE Pushed(x)
<1>1. ASSUME NEW x
      PROVE  SprintzEncode(x, v, type)
               = IF Block(x).group_num = GROUP_MAX THEN FlushInternal(Block(x))
                 ELSE Block(x)
  BY Zenon DEF SprintzEncode
<1>2. Shaped(e, SprintzFields) /\ Shaped(f, SprintzFields)
  BY DEF Alike
<1>3. ASSUME NEW x, Shaped(x, SprintzFields)
      PROVE  /\ Shaped(Pushed(x), SprintzFields)
             /\ Pushed(x).values = Append(x.values, v) /\ Pushed(x).is_first_cached = TRUE
             /\ Pushed(x).byte_cache = x.byte_cache /\ Pushed(x).group_num = x.group_num
             /\ Pushed(x).lost = x.lost /\ Pushed(x).out = x.out
  BY <1>3 DEF Shaped, SprintzFields
<1> HIDE DEF Pushed
<1>4. Alike(Pushed(e), Pushed(f))
  <2>1. /\ e.values = f.values /\ e.byte_cache = f.byte_cache
        /\ e.group_num = f.group_num /\ e.lost = f.lost /\ e.out = f.out
    BY <1>2, AlikeByField, Zenon
  <2>2. /\ Shaped(Pushed(e), SprintzFields) /\ Shaped(Pushed(f), SprintzFields)
        /\ Pushed(e).values = Pushed(f).values
        /\ Pushed(e).byte_cache = Pushed(f).byte_cache
        /\ Pushed(e).group_num = Pushed(f).group_num
        /\ Pushed(e).is_first_cached = Pushed(f).is_first_cached
        /\ Pushed(e).lost = Pushed(f).lost /\ Pushed(e).out = Pushed(f).out
    BY <1>2, <1>3, <2>1
  <2> QED BY <2>2, AlikeByField, Zenon
<1>5. Pushed(e).values = Pushed(f).values
  BY <1>4, AlikeByField, Zenon DEF Alike
<1>6. Alike(Block(e), Block(f))
  <2>1. Alike(EncodeBlock(Pushed(e), type), EncodeBlock(Pushed(f), type))
    BY <1>4, BlocksAlike, Zenon
  <2> QED BY <1>4, <1>5, <2>1, Zenon
<1> HIDE DEF Block
<1>7. Block(e).group_num = Block(f).group_num
  BY <1>6, AlikeByField, Zenon DEF Alike
<1>8. Alike(FlushInternal(Block(e)), FlushInternal(Block(f)))
  BY <1>6, CachesLeaveAlike, Zenon
<1> QED BY <1>1, <1>6, <1>7, <1>8, Zenon

LEMMA DispatchIsAlike ==
    ASSUME NEW type \in SprintzTypes, NEW e, NEW f, Alike(e, f), NEW v
    PROVE  Alike(SprintzDispatch(e, v, type), SprintzDispatch(f, v, type))
<1>1. ASSUME NEW x PROVE SprintzDispatch(x, v, type) = SprintzEncode(x, v, type)
  BY DEF SprintzTypes, SprintzDispatch, Int32Encode, Int64Encode, FloatEncode, DoubleEncode
<1> QED BY <1>1, EncodingIsAlike, Zenon

(* What a flush leaves is, but for the predictor, a new encoder.               *)
LEMMA FlushIsAlike ==
    ASSUME NEW e, NEW f, Alike(e, f)
    PROVE  /\ SprintzFlush(e).out = SprintzFlush(f).out
           /\ Alike([[SprintzFlush(e) EXCEPT !.lost = FALSE] EXCEPT !.out = <<>>], SprintzNew)
<1> DEFINE Left(x) == FlushInternal(x)
           Out(x) == Left(x).out \o PartialBlock(x.values)
           Flushed(x) == [Left(x) EXCEPT !.out = Out(x), !.values = <<>>,
                                         !.is_first_cached = FALSE]
<1>1. Shaped(e, SprintzFields) /\ Shaped(f, SprintzFields) /\ e.values = f.values
  BY AlikeByField, Zenon DEF Alike
<1>2. Alike(Left(e), Left(f)) /\ Alike(Left(e), Left(e))
  <2>1. Alike(e, e)
    BY <1>1, AlikeByField, Zenon
  <2> QED BY <2>1, CachesLeaveAlike, Zenon
<1>3. ASSUME NEW x, Shaped(x, SprintzFields)
      PROVE  /\ SprintzFlush(x) = Flushed(x)
             /\ Shaped(Left(x), SprintzFields)
             /\ Left(x).byte_cache = <<>> /\ Left(x).group_num = 0
  <2>1. SprintzFlush(x) = Flushed(x)
    BY <1>3 DEF SprintzFlush, FlushInternal, Shaped, SprintzFields
  <2>2. /\ Shaped(Left(x), SprintzFields)
        /\ Left(x).byte_cache = <<>> /\ Left(x).group_num = 0
    BY <1>3 DEF FlushInternal, Shaped, SprintzFields
  <2> QED BY <2>1, <2>2, Zenon
<1>4. Left(e).out = Left(f).out
  BY <1>2, AlikeByField, Zenon DEF Alike
<1> HIDE DEF Left
<1>5. Out(e) = Out(f)
  BY <1>1, <1>4, Zenon
<1> HIDE DEF Out
<1>6. ASSUME NEW x, Shaped(x, SprintzFields)
      PROVE  /\ Shaped(Flushed(x), SprintzFields) /\ Flushed(x).out = Out(x)
             /\ Flushed(x).values = <<>> /\ Flushed(x).is_first_cached = FALSE
             /\ Flushed(x).byte_cache = <<>> /\ Flushed(x).group_num = 0
  BY <1>3, <1>6 DEF Shaped, SprintzFields
<1>7. SprintzFlush(e) = Flushed(e) /\ SprintzFlush(f) = Flushed(f)
  BY <1>1, <1>3, Zenon
<1>8. Flushed(e).out = Out(e) /\ Flushed(f).out = Out(f)
  BY <1>1, <1>6, Zenon
<1> DEFINE g == Flushed(e)
           h == [g EXCEPT !.lost = FALSE]
           r == [h EXCEPT !.out = <<>>]
<1>9. /\ Shaped(g, SprintzFields) /\ g.values = <<>> /\ g.is_first_cached = FALSE
      /\ g.byte_cache = <<>> /\ g.group_num = 0
  BY <1>1, <1>6, Zenon
<1> HIDE DEF g, Flushed
<1>10. /\ Shaped(h, SprintzFields) /\ h.values = <<>> /\ h.is_first_cached = FALSE
       /\ h.byte_cache = <<>> /\ h.group_num = 0 /\ h.lost = FALSE
  BY <1>9 DEF Shaped, SprintzFields
<1> HIDE DEF h
<1>11. /\ Shaped(r, SprintzFields) /\ r.values = <<>> /\ r.is_first_cached = FALSE
       /\ r.byte_cache = <<>> /\ r.group_num = 0 /\ r.lost = FALSE /\ r.out = <<>>
  BY <1>10 DEF Shaped, SprintzFields
<1> HIDE DEF r
<1>12. /\ Shaped(SprintzNew, SprintzFields)
       /\ SprintzNew.values = <<>> /\ SprintzNew.is_first_cached = FALSE
       /\ SprintzNew.byte_cache = <<>> /\ SprintzNew.group_num = 0
       /\ SprintzNew.lost = FALSE /\ SprintzNew.out = <<>>
  BY DEF SprintzNew, Shaped, SprintzFields
<1>13. Alike(r, SprintzNew)
  <2>1. /\ r.values = SprintzNew.values /\ r.is_first_cached = SprintzNew.is_first_cached
        /\ r.byte_cache = SprintzNew.byte_cache /\ r.group_num = SprintzNew.group_num
        /\ r.lost = SprintzNew.lost /\ r.out = SprintzNew.out
    BY <1>11, <1>12, Zenon
  <2> QED BY <1>11, <1>12, <2>1, AlikeByField, Zenon
<1>14. r = [[SprintzFlush(e) EXCEPT !.lost = FALSE] EXCEPT !.out = <<>>]
  BY <1>7, Zenon DEF r, h, g
<1>15. SprintzFlush(e).out = SprintzFlush(f).out
  BY <1>5, <1>7, <1>8, Zenon DEF g
<1> QED BY <1>13, <1>14, <1>15, Zenon

--------------------------------------------------------------------------------
(* What every encoder keeps, whatever it is given: its fields, what it was     *)
(* made for, and, of a half-width type, room in the bit buffer.                *)

CodecNames == {"Plain", "Dictionary", "Chimp128", "Simple8b", "Gorilla",
               "DeltaOfDelta", "Rle", "Zigzag", "Sprintz"} \cup Series
RleFields == {"previous_value", "run_length", "out"}

HasForm(codec, type, e) ==
    CASE codec \in {"Plain"} \cup Series -> Shaped(e, {"out"})
      [] codec = "Rle" -> /\ Shaped(e, RleFields)
                          /\ e.previous_value = <<>> => e.run_length = 0
      [] codec = "Gorilla" -> /\ IsGorilla(e, type)
                              /\ type \in HalfTypes => GorillaFits(e)
      [] codec = "Chimp128" -> /\ IsChimp(e, type)
                               /\ type \in HalfTypes => Clear(e)
                               /\ type = "Float" => ChimpFits(e)
      [] codec = "Simple8b" -> IsSimple8b(e)
      [] codec = "DeltaOfDelta" -> IsDelta(e)
      [] codec = "Sprintz" -> Shaped(e, SprintzFields)
      [] OTHER -> TRUE

LEMMA FactoryMakesCodec ==
    ASSUME NEW name
    PROVE  EncoderFor(name) \in CodecNames
<1>1. CASE name \in {"Quantized", "DictionaryRLE"}
  BY <1>1, Zenon DEF EncoderFor, CodecNames
<1>2. CASE name \notin {"Quantized", "DictionaryRLE"} /\ name \in CodecNames
  <2>1. EncoderFor(name) = name
    BY <1>2, Zenon DEF EncoderFor, CodecNames
  <2> QED BY <1>2, <2>1
<1>3. CASE name \notin {"Quantized", "DictionaryRLE"} /\ name \notin CodecNames
  <2>1. EncoderFor(name) = "Plain"
    BY <1>3, Zenon DEF EncoderFor, CodecNames
  <2> QED BY <2>1, Zenon DEF CodecNames
<1> QED BY <1>1, <1>2, <1>3, Zenon

(* Two records of the same fields are equal when their fields are.             *)
LEMMA SameFields ==
    ASSUME NEW fields, NEW e, NEW f, Shaped(e, fields), Shaped(f, fields),
           \A x \in fields : e[x] = f[x]
    PROVE  e = f
<1>1. [x \in fields |-> e[x]] = [x \in fields |-> f[x]]
  BY Zenon
<1> QED BY <1>1, Zenon DEF Shaped

LEMMA NewSimple8bIsSimple8b == IsSimple8b(Simple8bNew)
<1>1. Shaped(Simple8bNew, Simple8bFields) /\ Simple8bNew.pending \in Seq({})
  BY DEF Simple8bNew, Shaped, Simple8bFields
<1> QED BY <1>1 DEF IsSimple8b

LEMMA NewDeltaIsDelta == IsDelta(DeltaNew)
<1>1. Shaped(DeltaNew, DeltaFields) /\ DeltaNew.simple8b = Simple8bNew
  BY DEF DeltaNew, Shaped, DeltaFields
<1> QED BY <1>1, NewSimple8bIsSimple8b DEF IsDelta

LEMMA GorillaIsReset ==
    ASSUME NEW type, NEW e, IsGorilla(e, type)
    PROVE  [GorillaReset(e) EXCEPT !.out = <<>>] = GorillaNew(type)
<1> DEFINE f == GorillaReset(e)
           r == [f EXCEPT !.out = <<>>]
           g == GorillaNew(type)
<1>1. /\ Shaped(f, GorillaFields) /\ f.widths = GorillaWidths(type)
      /\ f.first_value = <<>> /\ f.previous_value = 0
      /\ f.previous_leading = NoRange /\ f.previous_trailing = 0
      /\ f.buffer = <<>> /\ f.bit_buffer = Zeros(BufferBits)
      /\ f.bits_in_buffer = 0 /\ f.spilled = FALSE
  BY DEF GorillaReset, IsGorilla, Shaped, GorillaFields, BitFields
<1> HIDE DEF f
<1>2. /\ Shaped(r, GorillaFields) /\ r.widths = GorillaWidths(type)
      /\ r.first_value = <<>> /\ r.previous_value = 0
      /\ r.previous_leading = NoRange /\ r.previous_trailing = 0
      /\ r.buffer = <<>> /\ r.bit_buffer = Zeros(BufferBits)
      /\ r.bits_in_buffer = 0 /\ r.spilled = FALSE /\ r.out = <<>>
  BY <1>1 DEF Shaped, GorillaFields, BitFields
<1>3. /\ Shaped(g, GorillaFields) /\ g.widths = GorillaWidths(type)
      /\ g.first_value = <<>> /\ g.previous_value = 0
      /\ g.previous_leading = NoRange /\ g.previous_trailing = 0
      /\ g.buffer = <<>> /\ g.bit_buffer = Zeros(BufferBits)
      /\ g.bits_in_buffer = 0 /\ g.spilled = FALSE /\ g.out = <<>>
  BY DEF GorillaNew, Shaped, GorillaFields, BitFields
<1> HIDE DEF r, g
<1>4. \A x \in GorillaFields : r[x] = g[x]
  BY <1>2, <1>3 DEF GorillaFields, BitFields
<1>5. r = g
  BY <1>2, <1>3, <1>4, SameFields
<1> QED BY <1>5, Zenon DEF r, f, g

LEMMA ChimpIsReset ==
    ASSUME NEW type, NEW e, IsChimp(e, type)
    PROVE  [ChimpReset(e) EXCEPT !.out = <<>>] = ChimpNew(type)
<1> DEFINE f == ChimpReset(e)
           r == [f EXCEPT !.out = <<>>]
           g == ChimpNew(type)
<1>1. /\ Shaped(f, ChimpFields) /\ f.bit_width = ChimpWidth(type)
      /\ f.prev_value = 0 /\ f.prev_leading = NoRange /\ f.prev_trailing = 0
      /\ f.count = 0 /\ f.buffer = <<>> /\ f.bit_buffer = Zeros(BufferBits)
      /\ f.bits_in_buffer = 0 /\ f.spilled = FALSE
  BY DEF ChimpReset, IsChimp, Shaped, ChimpFields, BitFields
<1> HIDE DEF f
<1>2. /\ Shaped(r, ChimpFields) /\ r.bit_width = ChimpWidth(type)
      /\ r.prev_value = 0 /\ r.prev_leading = NoRange /\ r.prev_trailing = 0
      /\ r.count = 0 /\ r.buffer = <<>> /\ r.bit_buffer = Zeros(BufferBits)
      /\ r.bits_in_buffer = 0 /\ r.spilled = FALSE /\ r.out = <<>>
  BY <1>1 DEF Shaped, ChimpFields, BitFields
<1>3. /\ Shaped(g, ChimpFields) /\ g.bit_width = ChimpWidth(type)
      /\ g.prev_value = 0 /\ g.prev_leading = NoRange /\ g.prev_trailing = 0
      /\ g.count = 0 /\ g.buffer = <<>> /\ g.bit_buffer = Zeros(BufferBits)
      /\ g.bits_in_buffer = 0 /\ g.spilled = FALSE /\ g.out = <<>>
  BY DEF ChimpNew, Shaped, ChimpFields, BitFields
<1> HIDE DEF r, g
<1>4. \A x \in ChimpFields : r[x] = g[x]
  BY <1>2, <1>3 DEF ChimpFields, BitFields
<1>5. r = g
  BY <1>2, <1>3, <1>4, SameFields
<1> QED BY <1>5, Zenon DEF r, f, g

(* A new encoder.                                                              *)
LEMMA NewHasForm ==
    ASSUME NEW codec \in CodecNames, NEW type
    PROVE  HasForm(codec, type, NewEncoder(codec, type))
<1>1. CASE codec \in {"Plain"} \cup Series
  <2>1. NewEncoder(codec, type) = [out |-> <<>>]
    BY <1>1 DEF NewEncoder, Series, PlainNew
  <2>2. Shaped([out |-> <<>>], {"out"})
    BY DEF Shaped
  <2> QED BY <1>1, <2>1, <2>2 DEF HasForm, Series
<1>2. CASE codec = "Rle"
  <2>1. NewEncoder(codec, type) = RleNew
    BY <1>2 DEF NewEncoder, Series
  <2>2. Shaped(RleNew, RleFields) /\ RleNew.run_length = 0
    BY DEF Shaped, RleNew, RleFields
  <2> QED BY <1>2, <2>1, <2>2 DEF HasForm, Series
<1>3. CASE codec = "Gorilla"
  <2> DEFINE e == GorillaNew(type)
  <2>1. NewEncoder(codec, type) = e
    BY <1>3 DEF NewEncoder, Series
  <2>2. /\ Shaped(e, GorillaFields) /\ e.widths = GorillaWidths(type)
        /\ e.bits_in_buffer = 0 /\ e.spilled = FALSE
        /\ e.previous_value = 0 /\ e.previous_leading = NoRange
    BY DEF GorillaNew, Shaped, GorillaFields, BitFields
  <2>3. 0 \in 0..(ByteBits - 1) /\ 0 \in HalfValues
    BY HalfWidths, PowerIsPositive DEF HalfValues
  <2> HIDE DEF e
  <2>4. IsGorilla(e, type) /\ GorillaFits(e)
    BY <2>2, <2>3 DEF IsGorilla, GorillaFits, Clear, RangeFits
  <2> QED BY <1>3, <2>1, <2>4 DEF HasForm, Series
<1>4. CASE codec = "Chimp128"
  <2> DEFINE e == ChimpNew(type)
  <2>1. NewEncoder(codec, type) = e
    BY <1>4 DEF NewEncoder, Series
  <2>2. /\ Shaped(e, ChimpFields) /\ e.bit_width = ChimpWidth(type)
        /\ e.bits_in_buffer = 0 /\ e.spilled = FALSE
        /\ e.prev_value = 0 /\ e.prev_leading = NoRange
    BY DEF ChimpNew, Shaped, ChimpFields, BitFields
  <2>3. 0 \in 0..(ByteBits - 1) /\ 0 \in HalfValues
    BY HalfWidths, PowerIsPositive DEF HalfValues
  <2> HIDE DEF e
  <2>4. IsChimp(e, type) /\ ChimpFits(e) /\ Clear(e)
    BY <2>2, <2>3 DEF IsChimp, ChimpFits, Clear, RangeFits
  <2> QED BY <1>4, <2>1, <2>4 DEF HasForm, Series
<1>5. CASE codec = "DeltaOfDelta"
  <2>1. NewEncoder(codec, type) = DeltaNew
    BY <1>5 DEF NewEncoder, Series
  <2>2. IsDelta(DeltaNew)
    BY NewDeltaIsDelta
  <2> QED BY <1>5, <2>1, <2>2 DEF HasForm, Series
<1>6. CASE codec = "Sprintz"
  <2>1. NewEncoder(codec, type) = SprintzNew
    BY <1>6 DEF NewEncoder, Series
  <2>2. Shaped(SprintzNew, SprintzFields)
    BY DEF SprintzNew, Shaped, SprintzFields
  <2> QED BY <1>6, <2>1, <2>2 DEF HasForm, Series
<1>7. CASE codec \in {"Dictionary", "Zigzag"}
  BY <1>7 DEF HasForm, Series
<1>8. CASE codec = "Simple8b"
  <2>1. NewEncoder(codec, type) = Simple8bNew
    BY <1>8 DEF NewEncoder, Series
  <2>2. IsSimple8b(Simple8bNew)
    BY NewSimple8bIsSimple8b
  <2> QED BY <1>8, <2>1, <2>2 DEF HasForm, Series
<1> QED BY <1>1, <1>2, <1>3, <1>4, <1>5, <1>6, <1>7, <1>8, Zenon DEF CodecNames

(* A reset encoder.                                                            *)
LEMMA ResetHasForm ==
    ASSUME NEW codec \in CodecNames, NEW type, NEW e, HasForm(codec, type, e)
    PROVE  HasForm(codec, type, ResetEncoder(codec, e))
<1> DEFINE r == ResetEncoder(codec, e)
<1>1. CASE codec \in {"Plain"} \cup Series
  <2>1. r = [e EXCEPT !.out = <<>>] /\ Shaped(e, {"out"})
    BY <1>1 DEF ResetEncoder, Series, HasForm
  <2>2. Shaped(r, {"out"})
    BY <2>1 DEF Shaped
  <2> QED BY <1>1, <2>2 DEF HasForm, Series
<1>2. CASE codec = "Rle"
  <2>1. /\ r = [e EXCEPT !.out = <<>>]
        /\ Shaped(e, RleFields) /\ (e.previous_value = <<>> => e.run_length = 0)
    BY <1>2 DEF ResetEncoder, Series, HasForm
  <2>2. Shaped(r, RleFields) /\ (r.previous_value = <<>> => r.run_length = 0)
    BY <2>1 DEF Shaped, RleFields
  <2> QED BY <1>2, <2>2 DEF HasForm, Series
<1>3. CASE codec = "Gorilla"
  <2>1. r = [GorillaReset(e) EXCEPT !.out = <<>>] /\ IsGorilla(e, type)
    BY <1>3 DEF ResetEncoder, Series, HasForm
  <2>2. r = GorillaNew(type)
    BY <2>1, GorillaIsReset
  <2> QED BY <1>3, <2>2, NewHasForm DEF NewEncoder, Series
<1>4. CASE codec = "Chimp128"
  <2>1. r = [ChimpReset(e) EXCEPT !.out = <<>>] /\ IsChimp(e, type)
    BY <1>4 DEF ResetEncoder, Series, HasForm
  <2>2. r = ChimpNew(type)
    BY <2>1, ChimpIsReset
  <2> QED BY <1>4, <2>2, NewHasForm DEF NewEncoder, Series
<1>5. CASE codec = "DeltaOfDelta"
  <2>1. r = [DeltaNew EXCEPT !.out = <<>>]
    BY <1>5 DEF ResetEncoder, Series
  <2>2. r = DeltaNew
    BY <2>1 DEF DeltaNew
  <2> QED BY <1>5, <2>2, NewHasForm DEF NewEncoder, Series
<1>6. CASE codec = "Sprintz"
  <2>1. r = [[e EXCEPT !.lost = FALSE] EXCEPT !.out = <<>>] /\ Shaped(e, SprintzFields)
    BY <1>6 DEF ResetEncoder, Series, HasForm
  <2>2. Shaped([e EXCEPT !.lost = FALSE], SprintzFields)
    BY <2>1 DEF Shaped, SprintzFields
  <2>3. Shaped(r, SprintzFields)
    BY <2>1, <2>2 DEF Shaped, SprintzFields
  <2> QED BY <1>6, <2>3 DEF HasForm, Series
<1>7. CASE codec \in {"Dictionary", "Zigzag"}
  BY <1>7 DEF HasForm, Series
<1>8. CASE codec = "Simple8b"
  <2>1. r = [e EXCEPT !.out = <<>>] /\ IsSimple8b(e)
    BY <1>8 DEF ResetEncoder, Series, HasForm
  <2>2. Shaped(r, Simple8bFields) /\ r.pending = e.pending
    BY <2>1 DEF IsSimple8b, Shaped, Simple8bFields
  <2> HIDE DEF r
  <2>3. IsSimple8b(r)
    BY <2>1, <2>2 DEF IsSimple8b
  <2> QED BY <1>8, <2>3 DEF HasForm, Series, r
<1> QED BY <1>1, <1>2, <1>3, <1>4, <1>5, <1>6, <1>7, <1>8, Zenon DEF CodecNames

(* A value more.                                                               *)
LEMMA CastFits ==
    ASSUME NEW v \in Int, NEW w \in Nat
    PROVE  Unsigned(v, w) \in 0..(2^w - 1)
<1> DEFINE p == 2^w
<1>1. p \in Nat \ {0}
  BY PowerIsPositive
<1> HIDE DEF p
<1>2. v % p \in 0..(p - 1)
  BY <1>1
<1> QED BY <1>2 DEF Unsigned, p

LEMMA EncodedHasForm ==
    ASSUME NEW codec \in CodecNames, NEW type, NEW e, HasForm(codec, type, e),
           Accepts(codec, type), NEW v, type \notin Strings => v \in Int,
           type = "Float" => v \in HalfValues
    PROVE  HasForm(codec, type, EncodeValue(codec, type, e, v))
<1> DEFINE r == EncodeValue(codec, type, e, v)
<1>1. CASE codec = "Plain"
  <2>1. r = PlainEncode(e, v) /\ Shaped(e, {"out"})
    BY <1>1 DEF EncodeValue, Series, HasForm
  <2>2. Shaped(r, {"out"})
    BY <2>1 DEF PlainEncode, Shaped
  <2> QED BY <1>1, <2>2 DEF HasForm, Series
<1>2. CASE codec = "Rle"
  <2>1. r = RleEncode(e, v)
    BY <1>2 DEF EncodeValue, Series
  <2>2. Shaped(e, RleFields) /\ (e.previous_value = <<>> => e.run_length = 0)
    BY <1>2 DEF Series, HasForm
  <2>3. CASE e.previous_value = <<v>>
    <3> DEFINE n == e.run_length + 1
    <3>1. r = [e EXCEPT !.run_length = n]
      BY <2>1, <2>3, Zenon DEF RleEncode
    <3> HIDE DEF n, r
    <3>2. Shaped(r, RleFields) /\ r.previous_value = e.previous_value
      BY <2>2, <3>1 DEF Shaped, RleFields
    <3> QED BY <1>2, <2>3, <3>2, <<v>> # <<>> DEF HasForm, Series, r
  <2>4. CASE e.previous_value # <<v>>
    <3> DEFINE bytes == IF e.previous_value = <<>> THEN e.out ELSE e.out \o Run(e)
    <3>1. r = [previous_value |-> <<v>>, run_length |-> 1, out |-> bytes]
      BY <2>1, <2>4, Zenon DEF RleEncode
    <3> HIDE DEF bytes, r
    <3>2. Shaped(r, RleFields) /\ r.previous_value = <<v>>
      BY <3>1 DEF Shaped, RleFields
    <3> QED BY <1>2, <3>2, <<v>> # <<>> DEF HasForm, Series, r
  <2> QED BY <2>3, <2>4
<1>3. CASE codec = "Gorilla"
  <2> DEFINE bits == Unsigned(v, NativeBits(type))
  <2>1. r = GorillaEncode(e, bits, type)
    BY <1>3 DEF EncodeValue, Series
  <2>2. IsGorilla(e, type) /\ (type \in HalfTypes => GorillaFits(e))
    BY <1>3 DEF HasForm, Series
  <2>3. v \in Int
    BY <1>3 DEF Accepts, GorillaAccepts, Series
  <2>4. NativeBits(type) \in Nat
    BY HalfWidths DEF NativeBits
  <2>5. bits \in 0..(2^NativeBits(type) - 1)
    BY <2>3, <2>4, CastFits
  <2>6. ASSUME type \in HalfTypes PROVE bits \in HalfValues
    <3>1. NativeBits(type) = HalfBits
      BY <2>6, HalfWidths
    <3> QED BY <2>5, <3>1 DEF HalfValues
  <2>7. bits \in Int
    BY <2>5
  <2> HIDE DEF bits
  <2>8. IsGorilla(r, type) /\ (type \in HalfTypes => GorillaFits(r))
    BY <2>1, <2>2, <2>6, <2>7, GorillaEncodes
  <2> QED BY <1>3, <2>8 DEF HasForm, Series
<1>4. CASE codec = "Chimp128"
  <2>1. r = ChimpEncode(e, v)
    BY <1>4 DEF EncodeValue, Series
  <2>2. IsChimp(e, type) /\ (type = "Float" => ChimpFits(e))
    BY <1>4 DEF HasForm, Series
  <2>3. type \in {"Float", "Double"}
    BY <1>4 DEF Accepts, ChimpAccepts, Series
  <2>4. v \in Int
    BY <2>3 DEF Strings
  <2>5. IsChimp(r, type) /\ (type = "Float" => ChimpFits(r))
    BY <2>1, <2>2, <2>4, ChimpEncodes
  <2>6. type \in HalfTypes => Clear(r)
    BY <2>3, <2>5 DEF HalfTypes, ChimpFits
  <2> QED BY <1>4, <2>5, <2>6 DEF HasForm, Series
<1>5. CASE codec = "DeltaOfDelta"
  <2>1. r = DeltaEncode(e, LongOf(v)) /\ IsDelta(e)
    BY <1>5 DEF EncodeValue, Series, HasForm
  <2>2. IsDelta(r)
    BY <2>1, DeltaEncodes
  <2> QED BY <1>5, <2>2 DEF HasForm, Series
<1>6. CASE codec = "Sprintz"
  <2>1. r = SprintzDispatch(e, v, type) /\ Shaped(e, SprintzFields)
    BY <1>6 DEF EncodeValue, Series, HasForm
  <2>2. type \in SprintzTypes
    BY <1>6 DEF Accepts, SprintzAccepts, Series
  <2>3. Alike(e, e)
    BY <2>1 DEF Alike
  <2>4. Shaped(r, SprintzFields)
    BY <2>1, <2>2, <2>3, DispatchIsAlike DEF Alike
  <2> QED BY <1>6, <2>4 DEF HasForm, Series
<1>7. CASE codec \in Series
  <2>1. r = e
    BY <1>7 DEF EncodeValue, Series
  <2> QED BY <2>1, Zenon
<1>8. CASE codec \in {"Dictionary", "Zigzag"}
  BY <1>8 DEF HasForm, Series
<1>9. CASE codec = "Simple8b"
  <2>1. r = Simple8bEncode(e, v, Width(type)) /\ IsSimple8b(e)
    BY <1>9 DEF EncodeValue, Series, HasForm
  <2>2. IsSimple8b(r)
    BY <2>1, Simple8bEncodes
  <2> QED BY <1>9, <2>2 DEF HasForm, Series
<1> QED BY <1>1, <1>2, <1>3, <1>4, <1>5, <1>6, <1>7, <1>8, <1>9, Zenon DEF CodecNames

(* A word less.  Only delta of delta and Simple8b have words to pack.          *)
LEMMA OthersHoldNothing ==
    ASSUME NEW codec, codec \notin {"DeltaOfDelta", "Simple8b"}, NEW e
    PROVE  Pending(codec, e) = <<>>
BY Zenon DEF Pending

LEMMA PackedDelta ==
    ASSUME NEW e, IsDelta(e), Pending("DeltaOfDelta", e) # <<>>
    PROVE  /\ IsDelta(PackOne("DeltaOfDelta", e))
           /\ Len(PackOne("DeltaOfDelta", e).simple8b.pending) < Len(e.simple8b.pending)
<1> DEFINE r == PackOne("DeltaOfDelta", e)
<1>1. r = [e EXCEPT !.simple8b = FinishWord(@)]
  BY Zenon DEF PackOne
<1>2. Pending("DeltaOfDelta", e) = e.simple8b.pending
  BY Zenon DEF Pending
<1>3. Shaped(r, DeltaFields) /\ r.simple8b = FinishWord(e.simple8b)
  BY <1>1 DEF IsDelta, Shaped, DeltaFields
<1> HIDE DEF r
<1>4. /\ IsSimple8b(FinishWord(e.simple8b))
      /\ Len(FinishWord(e.simple8b).pending) < Len(e.simple8b.pending)
  BY <1>2, FinishedWordTakes DEF IsDelta
<1>5. IsDelta(r) /\ Len(r.simple8b.pending) < Len(e.simple8b.pending)
  BY <1>3, <1>4 DEF IsDelta
<1> QED BY <1>5, Zenon DEF r

LEMMA PackedHasForm ==
    ASSUME NEW codec \in CodecNames, NEW type, NEW e, HasForm(codec, type, e),
           Pending(codec, e) # <<>>
    PROVE  HasForm(codec, type, PackOne(codec, e))
<1>1. CASE codec = "DeltaOfDelta"
  <2>1. IsDelta(e)
    BY <1>1 DEF HasForm, Series
  <2>2. IsDelta(PackOne(codec, e))
    BY <1>1, <2>1, PackedDelta
  <2> QED BY <1>1, <2>2 DEF HasForm, Series
<1>2. CASE codec = "Simple8b"
  <2>1. IsSimple8b(e) /\ e.pending # <<>> /\ PackOne(codec, e) = FinishWord(e)
    BY <1>2 DEF HasForm, Series, Pending, PackOne
  <2>2. IsSimple8b(FinishWord(e))
    BY <2>1, FinishedWordTakes
  <2> QED BY <1>2, <2>1, <2>2 DEF HasForm, Series
<1> QED BY <1>1, <1>2, OthersHoldNothing, Zenon

(* A flush.                                                                    *)
LEMMA FlushedHasForm ==
    ASSUME NEW codec \in CodecNames, NEW type, NEW e, HasForm(codec, type, e), NEW values
    PROVE  HasForm(codec, type, FlushEncoder(codec, e, values))
<1> DEFINE r == FlushEncoder(codec, e, values)
<1>1. CASE codec = "Plain"
  <2>1. r = e
    BY <1>1 DEF FlushEncoder
  <2> QED BY <2>1, Zenon
<1>2. CASE codec = "Rle"
  <2>1. r = RleFlush(e)
    BY <1>2 DEF FlushEncoder
  <2>2. Shaped(e, RleFields) /\ (e.previous_value = <<>> => e.run_length = 0)
    BY <1>2 DEF Series, HasForm
  <2>3. Shaped(r, RleFields) /\ (r.previous_value = <<>> => r.run_length = 0)
    BY <2>1, <2>2 DEF RleFlush, Shaped, RleFields
  <2> QED BY <1>2, <2>3 DEF HasForm, Series
<1>3. CASE codec = "Gorilla"
  <2>1. r = TakeBuffer(FlushBits(e))
    BY <1>3 DEF FlushEncoder, GorillaFlush
  <2>2. IsGorilla(e, type) /\ (type \in HalfTypes => GorillaFits(e))
    BY <1>3 DEF HasForm, Series
  <2>3. BitFields \cup {"out"} \subseteq GorillaFields /\ Shaped(e, GorillaFields)
    BY <2>2 DEF GorillaFields, IsGorilla
  <2>4. /\ Clear(e) => Clear(r)
        /\ Shaped(r, GorillaFields)
        /\ \A x \in GorillaFields \ (BitFields \cup {"out"}) : r[x] = e[x]
    BY <2>1, <2>3, FlushingFits, Zenon
  <2> HIDE DEF r
  <2>5. /\ r.widths = e.widths /\ r.previous_value = e.previous_value
        /\ r.previous_leading = e.previous_leading
        /\ r.previous_trailing = e.previous_trailing
    BY <2>4 DEF GorillaFields, BitFields
  <2>6. IsGorilla(r, type) /\ (type \in HalfTypes => GorillaFits(r))
    BY <2>2, <2>4, <2>5 DEF IsGorilla, GorillaFits
  <2> QED BY <1>3, <2>6 DEF HasForm, Series, r
<1>4. CASE codec = "Chimp128"
  <2>1. r = TakeBuffer(FlushBits(e))
    BY <1>4 DEF FlushEncoder, ChimpFlush
  <2>2. /\ IsChimp(e, type) /\ (type \in HalfTypes => Clear(e))
        /\ type = "Float" => ChimpFits(e)
    BY <1>4 DEF HasForm, Series
  <2>3. BitFields \cup {"out"} \subseteq ChimpFields /\ Shaped(e, ChimpFields)
    BY <2>2 DEF ChimpFields, IsChimp
  <2>4. /\ Clear(e) => Clear(r)
        /\ Shaped(r, ChimpFields)
        /\ \A x \in ChimpFields \ (BitFields \cup {"out"}) : r[x] = e[x]
    BY <2>1, <2>3, FlushingFits, Zenon
  <2> HIDE DEF r
  <2>5. /\ r.bit_width = e.bit_width /\ r.prev_value = e.prev_value
        /\ r.prev_leading = e.prev_leading /\ r.prev_trailing = e.prev_trailing
    BY <2>4 DEF ChimpFields, BitFields
  <2>6. /\ IsChimp(r, type) /\ (type \in HalfTypes => Clear(r))
        /\ type = "Float" => ChimpFits(r)
    BY <2>2, <2>4, <2>5 DEF IsChimp, ChimpFits
  <2> QED BY <1>4, <2>6 DEF HasForm, Series, r
<1>5. CASE codec = "DeltaOfDelta"
  <2> DEFINE words == e.out \o Simple8bFlush([e.simple8b EXCEPT !.out = <<>>]).out
  <2>1. r = [e EXCEPT !.out = words] /\ IsDelta(e)
    BY <1>5 DEF FlushEncoder, DeltaFlush, Series, HasForm, IsDelta, Shaped, DeltaFields
  <2> HIDE DEF words
  <2>2. Shaped(r, DeltaFields) /\ r.simple8b = e.simple8b
    BY <2>1 DEF IsDelta, Shaped, DeltaFields
  <2>3. IsDelta(r)
    BY <2>1, <2>2 DEF IsDelta
  <2> QED BY <1>5, <2>3 DEF HasForm, Series
<1>6. CASE codec = "Sprintz"
  <2> DEFINE f == FlushInternal(e)
             bytes == f.out \o PartialBlock(e.values)
  <2>1. Shaped(e, SprintzFields)
    BY <1>6 DEF HasForm, Series
  <2>2. Shaped(f, SprintzFields)
    BY <2>1 DEF FlushInternal, Shaped, SprintzFields
  <2> HIDE DEF f
  <2>3. r = [f EXCEPT !.out = bytes, !.values = <<>>, !.is_first_cached = FALSE]
    BY <1>6, <2>2 DEF FlushEncoder, SprintzFlush, f, Shaped, SprintzFields
  <2> HIDE DEF bytes
  <2>4. Shaped(r, SprintzFields)
    BY <2>2, <2>3 DEF Shaped, SprintzFields
  <2> QED BY <1>6, <2>4 DEF HasForm, Series
<1>7. CASE codec \in Series
  <2>1. PICK bytes : r = [out |-> bytes]
    BY <1>7 DEF FlushEncoder, Series
  <2>2. Shaped([out |-> bytes], {"out"})
    BY DEF Shaped
  <2>3. Shaped(r, {"out"})
    BY <2>1, <2>2, Zenon
  <2> QED BY <1>7, <2>3 DEF HasForm, Series
<1>8. CASE codec \in {"Dictionary", "Zigzag"}
  BY <1>8 DEF HasForm, Series
<1>9. CASE codec = "Simple8b"
  <2> DEFINE words == e.out \o [i \in DOMAIN e.output |-> Token("word", e.output[i])]
  <2>1. r = [e EXCEPT !.out = words] /\ IsSimple8b(e)
    BY <1>9 DEF FlushEncoder, Simple8bFlush, Series, HasForm, IsSimple8b, Shaped, Simple8bFields
  <2> HIDE DEF words
  <2>2. Shaped(r, Simple8bFields) /\ r.pending = e.pending
    BY <2>1 DEF IsSimple8b, Shaped, Simple8bFields
  <2> HIDE DEF r
  <2>3. IsSimple8b(r)
    BY <2>1, <2>2 DEF IsSimple8b
  <2> QED BY <1>9, <2>3 DEF HasForm, Series, r
<1> QED BY <1>1, <1>2, <1>3, <1>4, <1>5, <1>6, <1>7, <1>8, <1>9, Zenon DEF CodecNames

--------------------------------------------------------------------------------
(* A reset encoder is a new one: some resets clear everything, the others      *)
(* rely on the flush before them to have done it.                              *)

Same(codec, e, f) == IF codec = "Sprintz" THEN Alike(e, f) ELSE e = f

LEMMA ResetIsNew ==
    ASSUME NEW codec \in {"Plain", "Gorilla", "Chimp128", "DeltaOfDelta"} \cup Series,
           NEW type, NEW e, HasForm(codec, type, e)
    PROVE  ResetEncoder(codec, e) = NewEncoder(codec, type)
<1> DEFINE r == ResetEncoder(codec, e)
<1>1. CASE codec \in {"Plain"} \cup Series
  <2>1. r = [e EXCEPT !.out = <<>>] /\ Shaped(e, {"out"})
    BY <1>1 DEF ResetEncoder, Series, HasForm
  <2>2. Shaped(r, {"out"}) /\ r.out = <<>>
    BY <2>1 DEF Shaped
  <2> HIDE DEF r
  <2>3. r = [out |-> <<>>]
    BY <2>2 DEF Shaped
  <2> QED BY <1>1, <2>3 DEF NewEncoder, PlainNew, Series, r
<1>2. CASE codec = "Gorilla"
  <2>1. r = [GorillaReset(e) EXCEPT !.out = <<>>] /\ IsGorilla(e, type)
    BY <1>2 DEF ResetEncoder, Series, HasForm
  <2>2. r = GorillaNew(type)
    BY <2>1, GorillaIsReset
  <2> QED BY <1>2, <2>2 DEF NewEncoder, Series
<1>3. CASE codec = "Chimp128"
  <2>1. r = [ChimpReset(e) EXCEPT !.out = <<>>] /\ IsChimp(e, type)
    BY <1>3 DEF ResetEncoder, Series, HasForm
  <2>2. r = ChimpNew(type)
    BY <2>1, ChimpIsReset
  <2> QED BY <1>3, <2>2 DEF NewEncoder, Series
<1>4. CASE codec = "DeltaOfDelta"
  <2>1. r = [DeltaNew EXCEPT !.out = <<>>]
    BY <1>4 DEF ResetEncoder, Series
  <2>2. r = DeltaNew
    BY <2>1 DEF DeltaNew
  <2> QED BY <1>4, <2>2 DEF NewEncoder, Series
<1> QED BY <1>1, <1>2, <1>3, <1>4, Zenon

LEMMA NewStaysNew ==
    ASSUME NEW codec \in CodecNames \ {"Simple8b"}, NEW type
    PROVE  Same(codec, ResetEncoder(codec, NewEncoder(codec, type)), NewEncoder(codec, type))
<1> DEFINE e == NewEncoder(codec, type)
           r == ResetEncoder(codec, e)
<1>1. CASE codec \in {"Plain", "Gorilla", "Chimp128", "DeltaOfDelta"} \cup Series
  <2>1. r = e
    BY <1>1, NewHasForm, ResetIsNew DEF CodecNames
  <2> QED BY <1>1, <2>1 DEF Same, Series
<1>2. CASE codec = "Rle"
  <2>1. e = RleNew /\ r = [e EXCEPT !.out = <<>>]
    BY <1>2 DEF NewEncoder, ResetEncoder, Series
  <2>2. r = e
    BY <2>1 DEF RleNew
  <2> QED BY <1>2, <2>2 DEF Same
<1>3. CASE codec = "Dictionary"
  <2>1. e = DictionaryNew /\ r = [e EXCEPT !.out = <<>>]
    BY <1>3 DEF NewEncoder, ResetEncoder, Series
  <2>2. r = e
    BY <2>1 DEF DictionaryNew
  <2> QED BY <1>3, <2>2 DEF Same
<1>4. CASE codec = "Zigzag"
  <2>1. e = ZigzagNew /\ r = [e EXCEPT !.out = <<>>]
    BY <1>4 DEF NewEncoder, ResetEncoder, Series
  <2>2. r = e
    BY <2>1 DEF ZigzagNew
  <2> QED BY <1>4, <2>2 DEF Same
<1>5. CASE codec = "Sprintz"
  <2>1. e = SprintzNew /\ r = [[e EXCEPT !.lost = FALSE] EXCEPT !.out = <<>>]
    BY <1>5 DEF NewEncoder, ResetEncoder, Series
  <2>2. Shaped(SprintzNew, SprintzFields) /\ SprintzNew.lost = FALSE /\ SprintzNew.out = <<>>
    BY DEF SprintzNew, Shaped, SprintzFields
  <2> DEFINE h == [e EXCEPT !.lost = FALSE]
  <2>3. Shaped(h, SprintzFields) /\ \A x \in SprintzFields : h[x] = e[x]
    BY <2>1, <2>2 DEF Shaped, SprintzFields
  <2> HIDE DEF h, e
  <2>4. r = [h EXCEPT !.out = <<>>] /\ h.out = <<>>
    BY <2>1, <2>2, <2>3 DEF h, SprintzFields
  <2> HIDE DEF r
  <2>5. Shaped(r, SprintzFields) /\ \A x \in SprintzFields : r[x] = h[x]
    BY <2>3, <2>4 DEF Shaped, SprintzFields
  <2>6. Alike(r, e)
    BY <2>1, <2>2, <2>3, <2>5 DEF Alike
  <2> QED BY <1>5, <2>6 DEF Same, r, e
<1> QED BY <1>1, <1>2, <1>3, <1>4, <1>5, Zenon DEF CodecNames

LEMMA FlushedIsNew ==
    ASSUME NEW codec \in CodecNames \ {"Simple8b"}, NEW type, NEW e,
           HasForm(codec, type, e), NEW values
    PROVE  Same(codec, ResetEncoder(codec, FlushEncoder(codec, e, values)),
                NewEncoder(codec, type))
<1> DEFINE f == FlushEncoder(codec, e, values)
           r == ResetEncoder(codec, f)
           n == NewEncoder(codec, type)
<1>1. CASE codec \in {"Plain", "Gorilla", "Chimp128", "DeltaOfDelta"} \cup Series
  <2>1. HasForm(codec, type, f)
    BY FlushedHasForm
  <2> HIDE DEF f
  <2>2. r = n
    BY <1>1, <2>1, ResetIsNew
  <2> QED BY <1>1, <2>2 DEF Same, Series, f
<1>2. CASE codec = "Rle"
  <2>1. f = RleFlush(e) /\ r = [f EXCEPT !.out = <<>>] /\ n = RleNew
    BY <1>2 DEF FlushEncoder, ResetEncoder, NewEncoder, Series
  <2>2. Shaped(e, RleFields) /\ (e.previous_value = <<>> => e.run_length = 0)
    BY <1>2 DEF Series, HasForm
  <2> DEFINE bytes == e.out \o Run(e)
  <2>3. f = IF e.previous_value = <<>> THEN e
            ELSE [previous_value |-> <<>>, run_length |-> 0, out |-> bytes]
    BY <2>1, Zenon DEF RleFlush
  <2> HIDE DEF bytes, f
  <2>4. Shaped(f, RleFields) /\ f.previous_value = <<>> /\ f.run_length = 0
    BY <2>2, <2>3 DEF Shaped, RleFields
  <2>5. r = n
    BY <2>1, <2>4 DEF RleNew, Shaped, RleFields, f
  <2> QED BY <1>2, <2>5 DEF Same, f
<1>3. CASE codec = "Dictionary"
  <2> DEFINE bytes == e.out \o WriteDictionary(e) \o WriteEncodedIds(e.encoded_ids)
  <2>1. f = [DictionaryNew EXCEPT !.out = bytes]
        /\ r = [f EXCEPT !.out = <<>>] /\ n = DictionaryNew
    BY <1>3 DEF FlushEncoder, ResetEncoder, NewEncoder, DictionaryFlush, Series
  <2> HIDE DEF bytes
  <2>2. r = n
    BY <2>1 DEF DictionaryNew
  <2> QED BY <1>3, <2>2 DEF Same
<1>4. CASE codec = "Zigzag"
  <2> DEFINE bytes == e.out \o Varint(Len(e.encoded_bytes), GroupBits)
                            \o Varint(e.value_count, GroupBits) \o e.encoded_bytes
  <2>1. f = [encoded_bytes |-> <<>>, value_count |-> 0, out |-> bytes]
        /\ r = [f EXCEPT !.out = <<>>] /\ n = ZigzagNew
    BY <1>4 DEF FlushEncoder, ResetEncoder, NewEncoder, ZigzagFlush, Series
  <2> HIDE DEF bytes
  <2>2. r = n
    BY <2>1 DEF ZigzagNew
  <2> QED BY <1>4, <2>2 DEF Same
<1>5. CASE codec = "Sprintz"
  <2>1. f = SprintzFlush(e) /\ n = SprintzNew
        /\ r = [[f EXCEPT !.lost = FALSE] EXCEPT !.out = <<>>]
    BY <1>5 DEF FlushEncoder, ResetEncoder, NewEncoder, Series
  <2>2. Alike(e, e)
    BY <1>5 DEF HasForm, Series, Alike
  <2>3. Alike([[SprintzFlush(e) EXCEPT !.lost = FALSE] EXCEPT !.out = <<>>], SprintzNew)
    BY <2>2, FlushIsAlike, Zenon
  <2>4. Alike(r, n)
    BY <2>1, <2>3, Zenon
  <2> QED BY <1>5, <2>4 DEF Same
<1> QED BY <1>1, <1>2, <1>3, <1>4, <1>5, Zenon DEF CodecNames

(* Encoders that are the same stay so, and write the same.                     *)
LEMMA SameEncodes ==
    ASSUME NEW codec \in CodecNames, NEW type, NEW e, NEW f, Same(codec, e, f), NEW v,
           Accepts(codec, type)
    PROVE  Same(codec, EncodeValue(codec, type, e, v), EncodeValue(codec, type, f, v))
<1>1. CASE codec = "Sprintz"
  <2>1. \A x : EncodeValue(codec, type, x, v) = SprintzDispatch(x, v, type)
    BY <1>1, Zenon DEF EncodeValue, Series
  <2>2. type \in SprintzTypes
    BY <1>1 DEF Accepts, SprintzAccepts, Series
  <2>3. Alike(e, f)
    BY <1>1 DEF Same
  <2>4. Alike(SprintzDispatch(e, v, type), SprintzDispatch(f, v, type))
    BY <2>2, <2>3, DispatchIsAlike
  <2> QED BY <1>1, <2>1, <2>4, Zenon DEF Same
<1>2. CASE codec # "Sprintz"
  BY <1>2, Zenon DEF Same
<1> QED BY <1>1, <1>2

LEMMA SameFlushes ==
    ASSUME NEW codec \in CodecNames, NEW e, NEW f, Same(codec, e, f), NEW values
    PROVE  FlushEncoder(codec, e, values).out = FlushEncoder(codec, f, values).out
<1>1. CASE codec = "Sprintz"
  <2>1. \A x : FlushEncoder(codec, x, values) = SprintzFlush(x)
    BY <1>1 DEF FlushEncoder
  <2>2. Alike(e, f)
    BY <1>1 DEF Same
  <2>3. SprintzFlush(e).out = SprintzFlush(f).out
    BY <2>2, FlushIsAlike, Zenon
  <2>4. /\ FlushEncoder(codec, e, values) = SprintzFlush(e)
        /\ FlushEncoder(codec, f, values) = SprintzFlush(f)
    BY <2>1, Zenon
  <2> QED BY <2>3, <2>4
<1>2. CASE codec # "Sprintz"
  BY <1>2, Zenon DEF Same
<1> QED BY <1>1, <1>2

(* One round more.                                                             *)
LEMMA DrainedNext ==
    ASSUME NEW codec, NEW e, NEW k \in Nat
    PROVE  /\ Drained(codec, e, 0) = e
           /\ Drained(codec, e, k + 1) = Packed(codec, Drained(codec, e, k))
<1>1. PICK f : IsDrain(f, codec, e, k + 1)
  BY DrainExists
<1>2. \A i \in 0..(k + 1) : f[i] = IF i = 0 THEN e ELSE Packed(codec, f[i - 1])
  BY <1>1, Zenon DEF IsDrain
<1>3. ASSUME NEW m \in 0..(k + 1) PROVE Drained(codec, e, m) = f[m]
  <2> DEFINE g == [i \in 0..m |-> f[i]]
  <2>1. \A i \in 0..m : g[i] = IF i = 0 THEN e ELSE Packed(codec, g[i - 1])
    <3> SUFFICES ASSUME NEW i \in 0..m
                 PROVE  g[i] = IF i = 0 THEN e ELSE Packed(codec, g[i - 1])
      OBVIOUS
    <3>1. i \in 0..(k + 1) /\ (i # 0 => i - 1 \in 0..m)
      OBVIOUS
    <3>2. f[i] = IF i = 0 THEN e ELSE Packed(codec, f[i - 1])
      BY <1>2, <3>1, Zenon
    <3>3. g[i] = f[i] /\ (i # 0 => g[i - 1] = f[i - 1])
      BY <3>1
    <3> QED BY <3>2, <3>3, Zenon
  <2>2. IsDrain(g, codec, e, m)
    BY <2>1, Zenon DEF IsDrain
  <2>3. m \in Nat /\ m \in 0..m
    OBVIOUS
  <2>4. Drained(codec, e, m) = g[m]
    BY <2>2, <2>3, DrainedIs, Zenon
  <2> QED BY <2>3, <2>4, Zenon
<1>4. /\ 0 \in 0..(k + 1) /\ k \in 0..(k + 1) /\ k + 1 \in 0..(k + 1)
      /\ k + 1 # 0 /\ (k + 1) - 1 = k
  OBVIOUS
<1> QED BY <1>2, <1>3, <1>4, Zenon

(* Once nothing is pending, the rounds that are left change nothing.           *)
LEMMA DrainedStays ==
    ASSUME NEW codec, NEW e, NEW n \in Nat, NEW k \in 0..n,
           Pending(codec, Drained(codec, e, k)) = <<>>
    PROVE  Drained(codec, e, n) = Drained(codec, e, k)
<1> DEFINE T == {m \in Nat : Drained(codec, e, k + m) = Drained(codec, e, k)}
<1>1. 0 \in T
  BY k + 0 = k
<1>2. ASSUME NEW m \in Nat, m \in T PROVE m + 1 \in T
  <2>1. Drained(codec, e, (k + m) + 1) = Packed(codec, Drained(codec, e, k + m))
    BY DrainedNext, k + m \in Nat, Zenon
  <2>2. Drained(codec, e, k + m) = Drained(codec, e, k)
    BY <1>2
  <2>3. Packed(codec, Drained(codec, e, k)) = Drained(codec, e, k)
    BY Zenon DEF Packed
  <2>4. Drained(codec, e, (k + m) + 1) = Drained(codec, e, k)
    BY <2>1, <2>2, <2>3, Zenon
  <2>5. (k + m) + 1 = k + (m + 1)
    OBVIOUS
  <2> QED BY <2>4, <2>5
<1>3. Nat \subseteq T
  <2> HIDE DEF T
  <2> QED BY <1>1, <1>2, InductiveSet
<1>4. n - k \in T /\ k + (n - k) = n
  BY <1>3
<1> QED BY <1>4

--------------------------------------------------------------------------------
(* The inductive invariant.                                                    *)

TypesInv ==
    /\ <<encoding, dtype>> \in COLUMNS
    /\ block \in Seq(SampleOf(encoding, dtype))
    /\ blocks \in 0..MaxBlocks
    /\ phase \in {"idle", "encoding", "finishing", "flushed", "refused", "panicked"}
    /\ blocks = 0 <=> phase = "idle"
    /\ phase = "panicked" => checked /\ block # <<>>

FormInv == HasForm(Codec, dtype, enc)

(* The encoder is what its values alone make of a new one: while it encodes    *)
(* the whole of it, in the loop of a flush after as many rounds as have been;  *)
(* and once flushed its next reset makes it new.                               *)
Written == EncodeBatch(Codec, dtype, NewEncoder(Codec, dtype), block)
Draining ==
    \E k \in 0..Len(block) :
        /\ enc = Drained(Codec, Written, k)
        /\ Len(enc.simple8b.pending) <= Len(block) - k
CleanInv ==
    Codec # "Simple8b" =>
    /\ phase \in {"idle", "flushed"}
          => Same(Codec, ResetEncoder(Codec, enc), NewEncoder(Codec, dtype))
    /\ phase = "encoding"
          => /\ Same(Codec, enc, Written)
             /\ Codec = "DeltaOfDelta" => Len(enc.simple8b.pending) <= Len(block)
    /\ phase = "finishing"
          => IF Codec = "DeltaOfDelta" THEN Draining ELSE Same(Codec, enc, Written)
    /\ ReuseIsClean

CodecsInv == TypesInv /\ FormInv /\ CleanInv

LEMMA CodecIsKnown == Codec \in CodecNames
BY FactoryMakesCodec DEF Codec

(* The values of a column, as its encoder is given them.                       *)
LEMMA SamplesAreValues ==
    ASSUME TypesInv, NEW v \in SampleOf(encoding, dtype)
    PROVE  /\ dtype \notin Strings => v \in Int
           /\ dtype = "Float" => v \in HalfValues
<1> DEFINE c == <<encoding, dtype>>
<1>1. c \in COLUMNS /\ c[1] = encoding /\ c[2] = dtype
  BY DEF TypesInv
<1>2. /\ c[2] \notin Strings => SampleOf(c[1], c[2]) \subseteq Int
      /\ c[2] = "Float" => SampleOf(c[1], c[2]) \subseteq 0..(2^HalfBits - 1)
  BY <1>1, CodecsAssumption, Zenon
<1> HIDE DEF c
<1> QED BY <1>1, <1>2 DEF HalfValues

LEMMA CodecsInit ==
    ASSUME Init
    PROVE  CodecsInv
<1>1. PICK c \in COLUMNS : /\ encoding = c[1] /\ dtype = c[2]
                           /\ enc = NewEncoder(EncoderFor(c[1]), c[2])
  BY DEF Init
<1>2. block = <<>> /\ phase = "idle" /\ blocks = 0
  BY DEF Init
<1>3. <<encoding, dtype>> \in COLUMNS
  BY <1>1, CodecsAssumption
<1>4. enc = NewEncoder(Codec, dtype)
  BY <1>1, Zenon DEF Codec
<1>5. TypesInv
  BY <1>2, <1>3, CodecsAssumption DEF TypesInv
<1>6. FormInv
  BY <1>4, CodecIsKnown, NewHasForm, Zenon DEF FormInv
<1>7. ASSUME Codec # "Simple8b"
      PROVE  Same(Codec, ResetEncoder(Codec, enc), NewEncoder(Codec, dtype))
  BY <1>4, <1>7, CodecIsKnown, NewStaysNew
<1>8. CleanInv
  BY <1>2, <1>7 DEF CleanInv, ReuseIsClean
<1> QED BY <1>5, <1>6, <1>8 DEF CodecsInv

LEMMA StartBlockKeeps ==
    ASSUME CodecsInv, StartBlock
    PROVE  CodecsInv'
<1>1. /\ phase \in {"idle", "flushed"} /\ blocks < MaxBlocks
      /\ enc' = ResetEncoder(Codec, enc) /\ block' = <<>>
      /\ phase' = "encoding" /\ blocks' = blocks + 1
      /\ encoding' = encoding /\ dtype' = dtype /\ checked' = checked
  BY DEF StartBlock
<1>2. Codec' = Codec
  BY <1>1 DEF Codec
<1>3. TypesInv'
  BY <1>1, CodecsAssumption DEF CodecsInv, TypesInv
<1>4. FormInv'
  <2>1. HasForm(Codec, dtype, ResetEncoder(Codec, enc))
    BY CodecIsKnown, ResetHasForm, Zenon DEF CodecsInv, FormInv
  <2> QED BY <1>1, <1>2, <2>1, Zenon DEF FormInv
<1>5. ASSUME Codec # "Simple8b"
      PROVE  /\ Same(Codec, ResetEncoder(Codec, enc), NewEncoder(Codec, dtype))
             /\ Written' = NewEncoder(Codec, dtype)
             /\ Codec = "DeltaOfDelta" => Len(enc'.simple8b.pending) <= 0
  <2>1. Same(Codec, ResetEncoder(Codec, enc), NewEncoder(Codec, dtype))
    BY <1>1, <1>5 DEF CodecsInv, CleanInv
  <2>2. Written' = NewEncoder(Codec, dtype)
    <3>1. Written' = EncodeBatch(Codec, dtype, NewEncoder(Codec, dtype), <<>>)
      BY <1>1, <1>2, Zenon DEF Written
    <3> QED BY <3>1, BatchOfNone, Zenon
  <2>3. ASSUME Codec = "DeltaOfDelta" PROVE Len(enc'.simple8b.pending) <= 0
    <3>1. enc' = DeltaNew
      BY <1>1, <2>1, <2>3 DEF Same, NewEncoder, Series
    <3>2. DeltaNew.simple8b.pending = <<>>
      BY DEF DeltaNew, Simple8bNew
    <3> QED BY <3>1, <3>2
  <2> QED BY <2>1, <2>2, <2>3
<1>6. CleanInv'
  <2> SUFFICES ASSUME (Codec # "Simple8b")'
               PROVE  /\ Same(Codec, enc, Written)'
                      /\ (Codec = "DeltaOfDelta" => Len(enc.simple8b.pending) <= Len(block))'
    BY <1>1 DEF CleanInv, ReuseIsClean
  <2>1. Same(Codec, enc', Written')
    BY <1>1, <1>2, <1>5
  <2>2. Len(block') = 0
    BY <1>1
  <2> QED BY <1>2, <1>5, <2>1, <2>2
<1> QED BY <1>3, <1>4, <1>6 DEF CodecsInv

LEMMA EncodeKeeps ==
    ASSUME CodecsInv, NEW v \in SampleOf(encoding, dtype), Encode(v)
    PROVE  CodecsInv'
<1>1. /\ phase = "encoding" /\ Accepts(Codec, dtype)
      /\ enc' = EncodeValue(Codec, dtype, enc, v) /\ block' = Append(block, v)
      /\ encoding' = encoding /\ dtype' = dtype /\ checked' = checked
      /\ phase' = phase /\ blocks' = blocks
  BY DEF Encode, Room
<1>2. Codec' = Codec
  BY <1>1 DEF Codec
<1>3. block \in Seq(SampleOf(encoding, dtype))
  BY DEF CodecsInv, TypesInv
<1>4. /\ block' \in Seq(SampleOf(encoding, dtype))
      /\ Len(block') = Len(block) + 1 /\ Len(block) \in Nat
  BY <1>1, <1>3
<1>5. TypesInv'
  <2>1. SampleOf(encoding, dtype)' = SampleOf(encoding, dtype)
    BY <1>1
  <2> QED BY <1>1, <1>4, <2>1 DEF CodecsInv, TypesInv
<1>6. FormInv'
  <2>1. (dtype \notin Strings => v \in Int) /\ (dtype = "Float" => v \in HalfValues)
    BY SamplesAreValues DEF CodecsInv
  <2>2. HasForm(Codec, dtype, EncodeValue(Codec, dtype, enc, v))
    BY <1>1, <2>1, CodecIsKnown, EncodedHasForm, Zenon DEF CodecsInv, FormInv
  <2> QED BY <1>1, <1>2, <2>2, Zenon DEF FormInv
<1>7. ASSUME Codec # "Simple8b"
      PROVE  Same(Codec, enc', Written')
  <2>1. Same(Codec, enc, Written)
    BY <1>1, <1>7 DEF CodecsInv, CleanInv
  <2>2. Written' = EncodeValue(Codec, dtype, Written, v)
    <3>1. Written' = EncodeBatch(Codec, dtype, NewEncoder(Codec, dtype), Append(block, v))
      BY <1>1, <1>2, Zenon DEF Written
    <3>2. EncodeBatch(Codec, dtype, NewEncoder(Codec, dtype), Append(block, v))
            = EncodeValue(Codec, dtype,
                          EncodeBatch(Codec, dtype, NewEncoder(Codec, dtype), block), v)
      BY <1>3, BatchOfOneMore
    <3> QED BY <3>1, <3>2, Zenon DEF Written
  <2>3. Same(Codec, EncodeValue(Codec, dtype, enc, v), EncodeValue(Codec, dtype, Written, v))
    BY <1>1, <2>1, CodecIsKnown, SameEncodes, Zenon
  <2> QED BY <1>1, <2>2, <2>3, Zenon
<1>8. ASSUME Codec = "DeltaOfDelta"
      PROVE  Len(enc'.simple8b.pending) <= Len(block')
  <2>1. enc' = DeltaEncode(enc, LongOf(v))
    BY <1>1, <1>8 DEF EncodeValue, Series
  <2>2. IsDelta(enc)
    BY <1>8 DEF CodecsInv, FormInv, HasForm, Series
  <2>3. Len(enc.simple8b.pending) <= Len(block)
    BY <1>1, <1>8 DEF CodecsInv, CleanInv
  <2>4. /\ Len(DeltaEncode(enc, LongOf(v)).simple8b.pending) <= Len(enc.simple8b.pending) + 1
        /\ IsDelta(DeltaEncode(enc, LongOf(v)))
    BY <2>2, DeltaEncodes, Zenon
  <2>5. /\ Len(enc.simple8b.pending) \in Nat
        /\ Len(DeltaEncode(enc, LongOf(v)).simple8b.pending) \in Nat
    BY <2>2, <2>4 DEF IsDelta, IsSimple8b
  <2> QED BY <1>4, <2>1, <2>3, <2>4, <2>5
<1>9. CleanInv'
  <2> SUFFICES ASSUME (Codec # "Simple8b")'
               PROVE  /\ Same(Codec, enc, Written)'
                      /\ (Codec = "DeltaOfDelta" => Len(enc.simple8b.pending) <= Len(block))'
    BY <1>1 DEF CleanInv, ReuseIsClean
  <2> QED BY <1>2, <1>7, <1>8
<1> QED BY <1>5, <1>6, <1>9 DEF CodecsInv

LEMMA EncodeStopsKeeps ==
    ASSUME CodecsInv, NEW v, EncodeOverflows(v) \/ EncodeRefused(v)
    PROVE  CodecsInv'
<1>1. /\ phase = "encoding" /\ phase' \in {"panicked", "refused"}
      /\ phase' = "panicked" => Overflows(v)
      /\ encoding' = encoding /\ dtype' = dtype /\ checked' = checked
      /\ enc' = enc /\ block' = block /\ blocks' = blocks
  BY DEF EncodeOverflows, EncodeRefused, Room
<1>2. Codec' = Codec
  BY <1>1 DEF Codec
<1>3. ASSUME Overflows(v) PROVE checked /\ block # <<>>
  <2>1. checked /\ Codec = "DeltaOfDelta" /\ DeltaOverflows(enc, LongOf(v))
    BY <1>3 DEF Overflows
  <2>2. ASSUME block = <<>> PROVE FALSE
    <3>1. enc = Written
      BY <1>1, <2>1 DEF CodecsInv, CleanInv, Same
    <3>2. Written = NewEncoder(Codec, dtype)
      BY <2>2, BatchOfNone, Zenon DEF Written
    <3>3. NewEncoder(Codec, dtype) = DeltaNew
      BY <2>1 DEF NewEncoder, Series
    <3>4. DeltaNew.count = 0
      BY DEF DeltaNew
    <3> QED BY <2>1, <3>1, <3>2, <3>3, <3>4 DEF DeltaOverflows
  <2> QED BY <2>1, <2>2
<1>4. TypesInv'
  BY <1>1, <1>3 DEF CodecsInv, TypesInv
<1>5. FormInv'
  BY <1>1, <1>2, Zenon DEF CodecsInv, FormInv
<1>6. CleanInv'
  BY <1>1 DEF CleanInv, ReuseIsClean
<1> QED BY <1>4, <1>5, <1>6 DEF CodecsInv

LEMMA BeginFlushKeeps ==
    ASSUME CodecsInv, BeginFlush
    PROVE  CodecsInv'
<1>1. /\ phase = "encoding" /\ phase' \in {"refused", "finishing"}
      /\ encoding' = encoding /\ dtype' = dtype /\ checked' = checked
      /\ enc' = enc /\ block' = block /\ blocks' = blocks
  BY DEF BeginFlush
<1>2. Codec' = Codec /\ Written' = Written
  BY <1>1 DEF Codec, Written
<1>3. TypesInv'
  BY <1>1 DEF CodecsInv, TypesInv
<1>4. FormInv'
  BY <1>1, <1>2, Zenon DEF CodecsInv, FormInv
<1>5. ASSUME Codec # "Simple8b"
      PROVE  /\ Same(Codec, enc, Written)
             /\ Codec = "DeltaOfDelta" => Draining
  <2>1. /\ Same(Codec, enc, Written)
        /\ Codec = "DeltaOfDelta" => Len(enc.simple8b.pending) <= Len(block)
    BY <1>1, <1>5 DEF CodecsInv, CleanInv
  <2>2. ASSUME Codec = "DeltaOfDelta" PROVE Draining
    <3>1. enc = Written
      BY <2>1, <2>2 DEF Same
    <3>2. Drained(Codec, Written, 0) = Written
      BY DrainedNext, 0 \in Nat, Zenon
    <3>3. Len(block) \in Nat
      BY DEF CodecsInv, TypesInv
    <3>4. 0 \in 0..Len(block) /\ Len(block) - 0 = Len(block)
      BY <3>3
    <3>5. enc = Drained(Codec, Written, 0) /\ Len(enc.simple8b.pending) <= Len(block) - 0
      BY <2>1, <2>2, <3>1, <3>2, <3>4
    <3> QED BY <3>4, <3>5, Zenon DEF Draining
  <2> QED BY <2>1, <2>2
<1>6. Draining' = Draining
  BY <1>1, <1>2, Zenon DEF Draining
<1>7. CleanInv'
  <2> SUFFICES ASSUME (Codec # "Simple8b")'
               PROVE  (IF Codec = "DeltaOfDelta" THEN Draining
                       ELSE Same(Codec, enc, Written))'
    BY <1>1 DEF CleanInv, ReuseIsClean
  <2> QED BY <1>1, <1>2, <1>5, <1>6
<1> QED BY <1>3, <1>4, <1>7 DEF CodecsInv

LEMMA FinishOneWordKeeps ==
    ASSUME CodecsInv, FinishOneWord
    PROVE  CodecsInv'
<1>1. /\ phase = "finishing" /\ Pending(Codec, enc) # <<>>
      /\ enc' = PackOne(Codec, enc) /\ phase' = phase
      /\ encoding' = encoding /\ dtype' = dtype /\ checked' = checked
      /\ block' = block /\ blocks' = blocks
  BY DEF FinishOneWord
<1>2. Codec' = Codec /\ Written' = Written
  BY <1>1 DEF Codec, Written
<1>3. TypesInv'
  BY <1>1 DEF CodecsInv, TypesInv
<1>4. FormInv'
  <2>1. HasForm(Codec, dtype, PackOne(Codec, enc))
    BY <1>1, CodecIsKnown, PackedHasForm, Zenon DEF CodecsInv, FormInv
  <2> QED BY <1>1, <1>2, <2>1, Zenon DEF FormInv
<1>5. ASSUME Codec # "Simple8b" PROVE Codec = "DeltaOfDelta" /\ Draining'
  <2>1. Codec = "DeltaOfDelta"
    BY <1>1, <1>5, OthersHoldNothing
  <2>2. Draining
    BY <1>1, <1>5, <2>1 DEF CodecsInv, CleanInv
  <2>3. PICK k \in 0..Len(block) : /\ enc = Drained(Codec, Written, k)
                                   /\ Len(enc.simple8b.pending) <= Len(block) - k
    BY <2>2, Zenon DEF Draining
  <2>4. IsDelta(enc)
    BY <2>1 DEF CodecsInv, FormInv, HasForm, Series
  <2>5. IsDelta(enc') /\ Len(enc'.simple8b.pending) < Len(enc.simple8b.pending)
    BY <1>1, <2>1, <2>4, PackedDelta
  <2>6. /\ Len(enc'.simple8b.pending) \in Nat /\ Len(enc.simple8b.pending) \in Nat
        /\ Len(block) \in Nat
    BY <2>4, <2>5 DEF IsDelta, IsSimple8b, CodecsInv, TypesInv
  <2>7. /\ k + 1 \in 0..Len(block) /\ k \in Nat
        /\ Len(enc'.simple8b.pending) <= Len(block) - (k + 1)
    BY <2>3, <2>5, <2>6
  <2>8. enc' = Drained(Codec, Written, k + 1)
    <3>1. Packed(Codec, enc) = enc'
      BY <1>1, Zenon DEF Packed
    <3>2. Drained(Codec, Written, k + 1) = Packed(Codec, Drained(Codec, Written, k))
      BY <2>7, DrainedNext, Zenon
    <3> QED BY <2>3, <3>1, <3>2, Zenon
  <2>9. \E m \in 0..Len(block') : /\ enc' = Drained(Codec', Written', m)
                                  /\ Len(enc'.simple8b.pending) <= Len(block') - m
    BY <1>1, <1>2, <2>7, <2>8, Zenon
  <2> QED BY <2>1, <2>9, Zenon DEF Draining
<1>6. CleanInv'
  <2> SUFFICES ASSUME (Codec # "Simple8b")'
               PROVE  (IF Codec = "DeltaOfDelta" THEN Draining
                       ELSE Same(Codec, enc, Written))'
    BY <1>1 DEF CleanInv, ReuseIsClean
  <2> QED BY <1>2, <1>5
<1> QED BY <1>3, <1>4, <1>6 DEF CodecsInv

LEMMA EndFlushKeeps ==
    ASSUME CodecsInv, EndFlush
    PROVE  CodecsInv'
<1>1. /\ phase = "finishing" /\ Pending(Codec, enc) = <<>>
      /\ enc' = FlushEncoder(Codec, enc, block) /\ phase' = "flushed"
      /\ encoding' = encoding /\ dtype' = dtype /\ checked' = checked
      /\ block' = block /\ blocks' = blocks
  BY DEF EndFlush
<1>2. Codec' = Codec
  BY <1>1 DEF Codec
<1>3. TypesInv'
  BY <1>1 DEF CodecsInv, TypesInv
<1>4. FormInv'
  <2>1. HasForm(Codec, dtype, FlushEncoder(Codec, enc, block))
    BY CodecIsKnown, FlushedHasForm, Zenon DEF CodecsInv, FormInv
  <2> QED BY <1>1, <1>2, <2>1, Zenon DEF FormInv
<1>5. ASSUME Codec # "Simple8b"
      PROVE  Same(Codec, ResetEncoder(Codec, enc'), NewEncoder(Codec, dtype))
  BY <1>1, <1>5, CodecIsKnown, FlushedIsNew, Zenon DEF CodecsInv, FormInv
<1>6. ASSUME Codec # "Simple8b"
      PROVE  enc'.out = WrittenAlone
  <2> DEFINE drained == Drained(Codec, Written, Len(block))
  <2>1. Len(block) \in Nat
    BY DEF CodecsInv, TypesInv
  <2>2. Same(Codec, enc, drained)
    <3>1. CASE Codec = "DeltaOfDelta"
      <4>1. PICK k \in 0..Len(block) : enc = Drained(Codec, Written, k)
        BY <1>1, <1>6, <3>1 DEF CodecsInv, CleanInv, Draining
      <4>2. drained = enc
        BY <1>1, <2>1, <4>1, DrainedStays, Zenon
      <4> QED BY <3>1, <4>2 DEF Same
    <3>2. CASE Codec # "DeltaOfDelta"
      <4>1. Same(Codec, enc, Written)
        BY <1>1, <1>6, <3>2 DEF CodecsInv, CleanInv
      <4>2. Drained(Codec, Written, 0) = Written
        BY DrainedNext, 0 \in Nat, Zenon
      <4>3. Pending(Codec, Drained(Codec, Written, 0)) = <<>>
        BY <1>6, <3>2, OthersHoldNothing
      <4>4. 0 \in 0..Len(block)
        BY <2>1
      <4>5. drained = Drained(Codec, Written, 0)
        BY <2>1, <4>3, <4>4, DrainedStays, Zenon
      <4> QED BY <4>1, <4>2, <4>5, Zenon
    <3> QED BY <3>1, <3>2
  <2>3. FlushEncoder(Codec, enc, block).out = FlushEncoder(Codec, drained, block).out
    BY <2>2, CodecIsKnown, SameFlushes, Zenon
  <2>4. WrittenAlone = FlushEncoder(Codec, drained, block).out
    BY Zenon DEF WrittenAlone, Written
  <2> QED BY <1>1, <2>3, <2>4, Zenon
<1>7. WrittenAlone' = WrittenAlone
  BY <1>1, <1>2, Zenon DEF WrittenAlone
<1>8. CleanInv'
  <2> SUFFICES ASSUME (Codec # "Simple8b")'
               PROVE  /\ Same(Codec, ResetEncoder(Codec, enc), NewEncoder(Codec, dtype))'
                      /\ (enc.out = WrittenAlone)'
    BY <1>1 DEF CleanInv, ReuseIsClean
  <2> QED BY <1>1, <1>2, <1>5, <1>6, <1>7
<1> QED BY <1>3, <1>4, <1>8 DEF CodecsInv

LEMMA CodecsNext ==
    ASSUME CodecsInv, [Next]_vars
    PROVE  CodecsInv'
<1>1. CASE StartBlock
  BY <1>1, StartBlockKeeps
<1>2. CASE BeginFlush
  BY <1>2, BeginFlushKeeps
<1>3. CASE FinishOneWord
  BY <1>3, FinishOneWordKeeps
<1>4. CASE EndFlush
  BY <1>4, EndFlushKeeps
<1>5. ASSUME NEW v \in SampleOf(encoding, dtype), Encode(v) PROVE CodecsInv'
  BY <1>5, EncodeKeeps
<1>6. ASSUME NEW v \in SampleOf(encoding, dtype), EncodeOverflows(v) \/ EncodeRefused(v)
      PROVE  CodecsInv'
  BY <1>6, EncodeStopsKeeps
<1>7. CASE UNCHANGED vars
  BY <1>7 DEF vars, CodecsInv, TypesInv, FormInv, CleanInv, Codec, Written, Draining,
              ReuseIsClean, WrittenAlone
<1> QED BY <1>1, <1>2, <1>3, <1>4, <1>5, <1>6, <1>7, Zenon DEF Next

--------------------------------------------------------------------------------
(* The invariant holds in every state.                                         *)
THEOREM SpecCodecsInv == Spec => []CodecsInv
<1>1. Init => CodecsInv
  BY CodecsInit
<1>2. CodecsInv /\ [Next]_vars => CodecsInv'
  BY CodecsNext
<1> QED BY <1>1, <1>2, PTL DEF Spec

(* A block holds values of its column, the encoder counts its mini-blocks, and *)
(* only a build that checks for overflow panics, never on the first value.     *)
THEOREM SpecCodecsTypeOK == Spec => []TypeOK
<1>1. CodecsInv => TypeOK
  <2> SUFFICES ASSUME CodecsInv PROVE TypeOK
    OBVIOUS
  <2>1. block \in Seq(SampleOf(encoding, dtype))
    BY DEF CodecsInv, TypesInv
  <2>2. Range(block) \subseteq SampleOf(encoding, dtype)
    BY <2>1 DEF Range
  <2>3. block # <<>> => Len(block) > 0
    BY <2>1
  <2> QED BY <2>2, <2>3 DEF CodecsInv, TypesInv, TypeOK
<1> QED BY <1>1, SpecCodecsInv, PTL

(* Whatever floats or 32-bit integers are written, in whatever order, and by   *)
(* whichever of the two encoders: what is left of a byte and the longest field *)
(* of such a value fit in the bit buffer, for every width of the buffer.       *)
THEOREM SpecFloatsNeverSpill == Spec => []FloatsNeverSpill
<1>1. CodecsInv => FloatsNeverSpill
  <2> SUFFICES ASSUME CodecsInv, Codec \in {"Gorilla", "Chimp128"}, dtype \in {"Float", "Int32"}
               PROVE  ~enc.spilled /\ enc.bits_in_buffer < ByteBits
    BY DEF FloatsNeverSpill
  <2>1. dtype \in HalfTypes
    BY DEF HalfTypes
  <2>2. Clear(enc)
    BY <2>1 DEF CodecsInv, FormInv, HasForm, GorillaFits, Series
  <2>3. ByteBits \in Nat
    BY HalfWidths
  <2> QED BY <2>2, <2>3 DEF Clear
<1> QED BY <1>1, SpecCodecsInv, PTL

(* A mini-block is written as a new encoder would write it, whatever the       *)
(* encoder has written before, for every encoder but Simple8b: resets clear    *)
(* what a flush leaves, and what Sprintz has learned is forgotten by each of   *)
(* its blocks.                                                                 *)
THEOREM SpecReuseIsClean == Spec => []ReuseIsClean
<1>1. CodecsInv => ReuseIsClean
  BY DEF CodecsInv, CleanInv, ReuseIsClean
<1> QED BY <1>1, SpecCodecsInv, PTL

(* Every round of the packing loop of a flush takes a pending value, also when *)
(* none fits a selector: the loop ends for every column, every selector table  *)
(* and every length of a block.                                                *)
RoundsShorten ==
    FinishOneWord => Len(Pending(Codec, enc)') < Len(Pending(Codec, enc))
THEOREM SpecRoundsShorten == Spec => [][RoundsShorten]_vars
<1>1. CodecsInv /\ [Next]_vars => [RoundsShorten]_vars
  <2> SUFFICES ASSUME CodecsInv, FinishOneWord
               PROVE  Len(Pending(Codec, enc)') < Len(Pending(Codec, enc))
    BY DEF RoundsShorten
  <2>1. /\ Pending(Codec, enc) # <<>> /\ enc' = PackOne(Codec, enc)
        /\ Codec' = Codec
    BY DEF FinishOneWord, Codec
  <2>2. Pending(Codec, enc)' = Pending(Codec, PackOne(Codec, enc))
    BY <2>1, Zenon
  <2>3. HasForm(Codec, dtype, enc)
    BY DEF CodecsInv, FormInv
  <2> HIDE DEF Codec
  <2>4. CASE Codec = "DeltaOfDelta"
    <3>1. IsDelta(enc)
      BY <2>3, <2>4 DEF HasForm, Series
    <3>2. Len(PackOne(Codec, enc).simple8b.pending) < Len(enc.simple8b.pending)
      BY <2>1, <2>4, <3>1, PackedDelta
    <3>3. \A x : Pending(Codec, x) = x.simple8b.pending
      BY <2>4, Zenon DEF Pending
    <3> QED BY <2>2, <3>2, <3>3, Zenon
  <2>5. CASE Codec = "Simple8b"
    <3>1. IsSimple8b(enc) /\ PackOne(Codec, enc) = FinishWord(enc)
      BY <2>3, <2>5 DEF HasForm, Series, PackOne
    <3>2. \A x : Pending(Codec, x) = x.pending
      BY <2>5, Zenon DEF Pending
    <3>3. Len(FinishWord(enc).pending) < Len(enc.pending)
      BY <2>1, <3>1, <3>2, FinishedWordTakes
    <3> QED BY <2>2, <3>1, <3>2, <3>3, Zenon
  <2>6. CASE Codec \notin {"DeltaOfDelta", "Simple8b"}
    BY <2>1, <2>6, OthersHoldNothing
  <2> QED BY <2>4, <2>5, <2>6
<1> QED BY <1>1, SpecCodecsInv, PTL DEF Spec

================================================================================
