--------------------------- MODULE Indexes_proofs ---------------------------
(* The radix tree, for every capacity of its nodes and every set of keys: what *)
(* an insert does to its shape and to the map it stands for.  Then what the    *)
(* three indexes answer, for every hash, every set of keys and tags and every  *)
(* order of calls and reloads.                                                 *)
EXTENDS Indexes, Induction, FiniteSetTheorems, SequenceTheorems

(* In a finite set under a strict total order, each place is taken by exactly  *)
(* one member, the one with that many members below it.                        *)
LEMMA PlacesAreTaken ==
    ASSUME NEW S, IsFiniteSet(S), NEW below \in [S -> SUBSET S],
           \A x \in S : x \notin below[x],
           \A x, y \in S : x \in below[y] => below[x] \subseteq below[y],
           \A x, y \in S : x # y => x \in below[y] \/ y \in below[x]
    PROVE  /\ \A x \in S : Cardinality(below[x]) \in 0..(Cardinality(S) - 1)
           /\ \A x, y \in S : Cardinality(below[x]) = Cardinality(below[y]) => x = y
           /\ \A i \in 1..Cardinality(S) : \E x \in S : Cardinality(below[x]) = i - 1
<1> DEFINE n == Cardinality(S)
           rank == [x \in S |-> Cardinality(below[x]) + 1]
<1>1. n \in Nat
  BY FS_CardinalityType
<1>2. ASSUME NEW x \in S PROVE Cardinality(below[x]) \in 0..(n - 1) /\ IsFiniteSet(below[x])
  <2>1. below[x] \in SUBSET S /\ below[x] # S
    OBVIOUS
  <2>2. IsFiniteSet(below[x]) /\ Cardinality(below[x]) <= n /\ Cardinality(below[x]) # n
    BY <2>1, FS_Subset
  <2>3. Cardinality(below[x]) \in Nat
    BY <2>2, FS_CardinalityType
  <2> QED BY <1>1, <2>2, <2>3
<1>3. ASSUME NEW x \in S, NEW y \in S, x \in below[y]
      PROVE  Cardinality(below[x]) # Cardinality(below[y])
  <2>1. below[x] \in SUBSET below[y] /\ below[x] # below[y]
    BY <1>3
  <2> QED BY <1>2, <2>1, FS_Subset
<1>4. \A x, y \in S : Cardinality(below[x]) = Cardinality(below[y]) => x = y
  BY <1>3
<1>5. rank \in [S -> 1..n]
  BY <1>1, <1>2
<1>6. rank \in Injection(S, 1..n)
  <2>1. \A x, y \in S : rank[x] = rank[y] => x = y
    <3> SUFFICES ASSUME NEW x \in S, NEW y \in S, rank[x] = rank[y] PROVE x = y
      OBVIOUS
    <3>1. Cardinality(below[x]) + 1 = Cardinality(below[y]) + 1
      OBVIOUS
    <3>2. Cardinality(below[x]) \in Nat /\ Cardinality(below[y]) \in Nat
      BY <1>1, <1>2
    <3> QED BY <1>4, <3>1, <3>2
  <2> HIDE DEF rank, n
  <2>2. DOMAIN rank = S
    BY <1>5
  <2>3. IsInjective(rank)
    BY <2>1, <2>2 DEF IsInjective
  <2> QED BY <1>5, <2>3 DEF Injection
<1>7. IsFiniteSet(1..n) /\ Cardinality(1..n) = n
  <2> HIDE DEF n
  <2>1. IsFiniteSet(1..n) /\ Cardinality(1..n) = IF 1 > n THEN 0 ELSE n - 1 + 1
    BY <1>1, FS_Interval
  <2> QED BY <1>1, <2>1
<1>8. rank \in Surjection(S, 1..n)
  <2> HIDE DEF rank
  <2> QED BY <1>6, <1>7, FS_Injection
<1>9. ASSUME NEW i \in 1..n PROVE \E x \in S : Cardinality(below[x]) = i - 1
  <2>1. PICK x \in S : rank[x] = i
    <3> HIDE DEF rank, n
    <3> QED BY <1>8 DEF Surjection
  <2>2. Cardinality(below[x]) + 1 = i /\ Cardinality(below[x]) \in Nat
    BY <1>1, <1>2, <2>1
  <2>3. Cardinality(below[x]) = i - 1
    <3> HIDE DEF n
    <3> QED BY <2>2
  <2> QED BY <2>3
<1> QED BY <1>2, <1>4, <1>9
-------------------------------------------------------------------------------
(* Paths: the beginnings of a key.                                             *)
LEMMA PathFacts ==
    ASSUME NEW S, NEW key \in Seq(S), NEW d \in 0..Len(key)
    PROVE  /\ PathTo(key, d) \in Seq(S) /\ Len(PathTo(key, d)) = d
           /\ \A i \in 1..d : PathTo(key, d)[i] = key[i]
<1>1. Len(key) \in Nat /\ \A i \in 1..Len(key) : key[i] \in S
  BY LenProperties
<1>2. 1 \in Int /\ d \in Int /\ \A i \in 1..d : key[i] \in S
  BY <1>1
<1>3. /\ SubSeq(key, 1, d) \in Seq(S)
      /\ Len(SubSeq(key, 1, d)) = IF 1 <= d THEN d - 1 + 1 ELSE 0
      /\ \A i \in 1..(d - 1 + 1) : SubSeq(key, 1, d)[i] = key[1 + i - 1]
  BY <1>2, SubSeqProperties
<1>4. d \in Nat
  BY <1>1
<1>5. d - 1 + 1 = d /\ (IF 1 <= d THEN d - 1 + 1 ELSE 0) = d /\ \A i \in 1..d : 1 + i - 1 = i
  BY <1>4
<1> QED BY <1>3, <1>5 DEF PathTo

LEMMA SamePath ==
    ASSUME NEW S, NEW p \in Seq(S), NEW q \in Seq(S), Len(p) = Len(q),
           \A i \in 1..Len(p) : p[i] = q[i]
    PROVE  p = q
BY SeqEqual

LEMMA PathWhole ==
    ASSUME NEW S, NEW key \in Seq(S)
    PROVE  /\ PathTo(key, Len(key)) = key /\ PathTo(key, 0) = <<>>
           /\ Len(key) \in Nat /\ (Len(key) = 0 => key = <<>>)
<1>1. Len(key) \in Nat /\ (key # <<>> => Len(key) # 0)
  BY EmptySeq
<1> QED BY <1>1, SubSeqFull, SubSeqEmpty DEF PathTo

LEMMA PathOfPath ==
    ASSUME NEW S, NEW key \in Seq(S), NEW d \in 0..Len(key), NEW e \in 0..d
    PROVE  PathTo(PathTo(key, d), e) = PathTo(key, e)
<1>1. Len(key) \in Nat /\ d \in Nat /\ e \in 0..Len(key)
  BY PathWhole
<1>2. /\ PathTo(key, d) \in Seq(S) /\ Len(PathTo(key, d)) = d
      /\ \A i \in 1..d : PathTo(key, d)[i] = key[i]
  BY PathFacts
<1>3. /\ PathTo(key, e) \in Seq(S) /\ Len(PathTo(key, e)) = e
      /\ \A i \in 1..e : PathTo(key, e)[i] = key[i]
  BY <1>1, PathFacts
<1>4. /\ PathTo(PathTo(key, d), e) \in Seq(S) /\ Len(PathTo(PathTo(key, d), e)) = e
      /\ \A i \in 1..e : PathTo(PathTo(key, d), e)[i] = PathTo(key, d)[i]
  BY <1>2, PathFacts
<1>5. \A i \in 1..e : i \in 1..d
  BY <1>1
<1>6. \A i \in 1..e : PathTo(PathTo(key, d), e)[i] = PathTo(key, e)[i]
  BY <1>2, <1>3, <1>4, <1>5
<1> QED BY <1>3, <1>4, <1>6, SamePath

LEMMA AppendPath ==
    ASSUME NEW S, NEW p \in Seq(S), NEW b \in S
    PROVE  /\ Append(p, b) \in Seq(S) /\ Len(Append(p, b)) = Len(p) + 1
           /\ Append(p, b)[Len(p) + 1] = b /\ Append(p, b) # <<>>
           /\ \A d \in 0..Len(p) : PathTo(Append(p, b), d) = PathTo(p, d)
           /\ PathTo(Append(p, b), Len(p)) = p
<1>1. /\ Append(p, b) \in Seq(S) /\ Len(Append(p, b)) = Len(p) + 1
      /\ Append(p, b)[Len(p) + 1] = b /\ Append(p, b) # <<>>
      /\ \A i \in 1..Len(p) : Append(p, b)[i] = p[i]
  BY AppendProperties
<1>2. Len(p) \in Nat
  BY PathWhole
<1>3. ASSUME NEW d \in 0..Len(p) PROVE PathTo(Append(p, b), d) = PathTo(p, d)
  <2>1. d \in 0..Len(Append(p, b)) /\ \A i \in 1..d : i \in 1..Len(p)
    BY <1>1, <1>2
  <2>2. /\ PathTo(Append(p, b), d) \in Seq(S) /\ Len(PathTo(Append(p, b), d)) = d
        /\ \A i \in 1..d : PathTo(Append(p, b), d)[i] = Append(p, b)[i]
    BY <1>1, <2>1, PathFacts
  <2>3. /\ PathTo(p, d) \in Seq(S) /\ Len(PathTo(p, d)) = d
        /\ \A i \in 1..d : PathTo(p, d)[i] = p[i]
    BY PathFacts
  <2>4. \A i \in 1..d : PathTo(Append(p, b), d)[i] = PathTo(p, d)[i]
    BY <1>1, <2>1, <2>2, <2>3
  <2> QED BY <2>2, <2>3, <2>4, SamePath
<1>4. PathTo(Append(p, b), Len(p)) = p
  BY <1>2, <1>3, PathWhole
<1> QED BY <1>1, <1>3, <1>4

LEMMA PathStep ==
    ASSUME NEW S, NEW key \in Seq(S), NEW d \in 0..(Len(key) - 1)
    PROVE  key[d + 1] \in S /\ Append(PathTo(key, d), key[d + 1]) = PathTo(key, d + 1)
<1>1. Len(key) \in Nat /\ d \in Nat /\ d \in 0..Len(key) /\ d + 1 \in 0..Len(key) /\ d + 1 \in 1..Len(key)
  BY PathWhole
<1>2. key[d + 1] \in S
  BY <1>1, ElementOfSeq
<1>3. /\ PathTo(key, d) \in Seq(S) /\ Len(PathTo(key, d)) = d
      /\ \A i \in 1..d : PathTo(key, d)[i] = key[i]
  BY <1>1, PathFacts
<1>4. /\ PathTo(key, d + 1) \in Seq(S) /\ Len(PathTo(key, d + 1)) = d + 1
      /\ \A i \in 1..(d + 1) : PathTo(key, d + 1)[i] = key[i]
  BY <1>1, PathFacts
<1> DEFINE longer == Append(PathTo(key, d), key[d + 1])
<1>5. /\ longer \in Seq(S) /\ Len(longer) = d + 1 /\ longer[d + 1] = key[d + 1]
      /\ \A i \in 1..d : longer[i] = PathTo(key, d)[i]
  BY <1>2, <1>3, AppendProperties
<1> HIDE DEF longer
<1>6. \A i \in 1..(d + 1) : i \in 1..d \/ i = d + 1
  BY <1>1
<1>7. \A i \in 1..(d + 1) : longer[i] = PathTo(key, d + 1)[i]
  BY <1>1, <1>3, <1>4, <1>5, <1>6
<1>8. longer = PathTo(key, d + 1)
  BY <1>4, <1>5, <1>7, SamePath
<1> QED BY <1>2, <1>8 DEF longer

LEMMA LastStep ==
    ASSUME NEW S, NEW p \in Seq(S), p # <<>>
    PROVE  /\ Len(p) \in Nat \ {0} /\ Len(p) - 1 \in 0..Len(p)
           /\ p[Len(p)] \in S /\ p = Append(PathTo(p, Len(p) - 1), p[Len(p)])
<1>1. Len(p) \in Nat \ {0}
  BY PathWhole
<1>2. Len(p) - 1 \in 0..(Len(p) - 1) /\ (Len(p) - 1) + 1 = Len(p) /\ Len(p) - 1 \in 0..Len(p)
  BY <1>1
<1>3. p[Len(p)] \in S /\ Append(PathTo(p, Len(p) - 1), p[Len(p)]) = PathTo(p, Len(p))
  BY <1>2, PathStep
<1> QED BY <1>1, <1>2, <1>3, PathWhole

LEMMA PrefixIsPath ==
    ASSUME NEW S, NEW p \in Seq(S), NEW q \in Seq(S)
    PROVE  IsPrefix(p, q) <=> (Len(p) <= Len(q) /\ PathTo(q, Len(p)) = p)
<1>1. SubSeq(p, 1, Len(p)) = p
  BY SubSeqFull
<1> QED BY <1>1 DEF IsPrefix, PathTo
-------------------------------------------------------------------------------
(* The shape of the tree.  Node capacities cover every byte.                   *)
Byte == 0..(Capacity["Node256"] - 1)

IsNode(n) ==
    /\ n = [kind |-> n.kind, keys |-> n.keys, value |-> n.value]
    /\ n.kind \in InnerKinds \cup {"Leaf"} /\ n.keys \in Seq(Byte)
    /\ \A i, j \in 1..Len(n.keys) : n.keys[i] = n.keys[j] => i = j
    /\ n.kind = "Leaf" => n.keys = <<>>
    /\ n.kind # "Leaf" => Len(n.keys) <= Capacity[n.kind]

(* The nodes hang together: the paths of a path's beginnings are there, and    *)
(* those of its children.                                                      *)
Tree(nodes) ==
    /\ DOMAIN nodes \in SUBSET Seq(Byte) /\ IsFiniteSet(DOMAIN nodes) /\ <<>> \in DOMAIN nodes
    /\ \A p \in DOMAIN nodes : IsNode(nodes[p])
    /\ \A p \in DOMAIN nodes, d \in Nat : d <= Len(p) => PathTo(p, d) \in DOMAIN nodes
    /\ \A p \in DOMAIN nodes, b \in Byte :
          (Append(p, b) \in DOMAIN nodes) <=> Contains(nodes[p].keys, b)

(* Every inner node has a child; only the root of a fresh tree has none.       *)
Settled(nodes) == \A p \in DOMAIN nodes : nodes[p].kind # "Leaf" => nodes[p].keys # <<>>

Leaves(nodes) == {p \in DOMAIN nodes : nodes[p].kind = "Leaf"}

(* The walk of a key ends at its longest beginning that is a path.             *)
LEMMA StopIs ==
    ASSUME NEW nodes, Tree(nodes), NEW key \in Seq(Byte)
    PROVE  /\ Stop(nodes, key) \in 0..Len(key)
           /\ \A d \in 0..Len(key) : PathTo(key, d) \in DOMAIN nodes <=> d <= Stop(nodes, key)
<1> DEFINE n == Len(key)
           Past == {d \in 0..n : d = n \/ PathTo(key, d + 1) \notin DOMAIN nodes}
           Ends(d) ==
               /\ PathTo(key, d) \in DOMAIN nodes
               /\ \/ nodes[PathTo(key, d)].kind = "Leaf"
                  \/ d = Len(key)
                  \/ ~Contains(nodes[PathTo(key, d)].keys, key[d + 1])
           ends == {d \in 0..Len(key) : Ends(d)}
<1>1. n \in Nat /\ PathTo(key, 0) = <<>>
  BY PathWhole
<1>2. PICK s \in Past : \A d \in Past : s <= d
  <2>1. Past \in SUBSET Nat /\ n \in Past
    <3> HIDE DEF n
    <3> QED BY <1>1
  <2> HIDE DEF Past
  <2> QED BY <2>1, LeastNumber
<1>3. s \in 0..n /\ s \in Nat /\ (s = n \/ PathTo(key, s + 1) \notin DOMAIN nodes)
  <2> HIDE DEF n
  <2> QED BY <1>1
<1>4. \A d \in 0..n : d < s => d # n /\ PathTo(key, d + 1) \in DOMAIN nodes
  <2> HIDE DEF n
  <2>1. \A d \in 0..n : d < s => ~(s <= d)
    BY <1>1, <1>3
  <2> QED BY <1>2, <2>1
<1>5. \A d \in 0..n : d <= s => PathTo(key, d) \in DOMAIN nodes
  <2> SUFFICES ASSUME NEW d \in 0..n, d <= s PROVE PathTo(key, d) \in DOMAIN nodes
    OBVIOUS
  <2>1. CASE d = 0
    BY <1>1, <2>1 DEF Tree
  <2>2. CASE d # 0
    <3> HIDE DEF n
    <3>1. d - 1 \in 0..n /\ d - 1 < s /\ (d - 1) + 1 = d
      BY <1>1, <1>3, <2>2
    <3> QED BY <1>4, <3>1
  <2> QED BY <2>1, <2>2
<1>6. \A d \in 0..n : PathTo(key, d) \in DOMAIN nodes => d <= s
  <2> SUFFICES ASSUME NEW d \in 0..n, PathTo(key, d) \in DOMAIN nodes, ~(d <= s) PROVE FALSE
    OBVIOUS
  <2>1. s + 1 \in 0..d /\ s # n /\ d \in 0..Len(key) /\ s + 1 \in Nat /\ s + 1 <= d
    BY <1>1, <1>3
  <2>2. PathTo(PathTo(key, d), s + 1) = PathTo(key, s + 1) /\ Len(PathTo(key, d)) = d
    BY <2>1, PathOfPath, PathFacts
  <2>3. PathTo(key, s + 1) \in DOMAIN nodes
    BY <2>1, <2>2 DEF Tree
  <2> QED BY <1>3, <2>1, <2>3
<1>7. \A d \in 0..n : d < n => Append(PathTo(key, d), key[d + 1]) = PathTo(key, d + 1) /\ key[d + 1] \in Byte
  <2>1. \A d \in 0..n : d < n => d \in 0..(Len(key) - 1)
    BY <1>1
  <2> QED BY <2>1, PathStep
<1>8. Ends(s)
  <2>1. PathTo(key, s) \in DOMAIN nodes
    BY <1>3, <1>5
  <2>2. CASE s = n
    BY <2>1, <2>2
  <2>3. CASE s # n
    <3>1. s < n
      BY <1>1, <1>3, <2>3
    <3>2. ~Contains(nodes[PathTo(key, s)].keys, key[s + 1])
      BY <1>3, <1>7, <2>1, <2>3, <3>1 DEF Tree
    <3> QED BY <2>1, <3>2
  <2> QED BY <2>2, <2>3
<1>9. \A d \in 0..n : Ends(d) => ~(d < s)
  <2> SUFFICES ASSUME NEW d \in 0..n, d < s PROVE ~Ends(d)
    OBVIOUS
  <2>1. /\ d < n /\ PathTo(key, d + 1) \in DOMAIN nodes /\ PathTo(key, d) \in DOMAIN nodes
    BY <1>1, <1>3, <1>4, <1>5
  <2>2. Contains(nodes[PathTo(key, d)].keys, key[d + 1])
    BY <1>7, <2>1 DEF Tree
  <2>3. nodes[PathTo(key, d)].kind # "Leaf"
    <3>1. IsNode(nodes[PathTo(key, d)]) /\ ~Contains(<<>>, key[d + 1])
      BY <2>1 DEF Tree, Contains
    <3> QED BY <2>2, <3>1 DEF IsNode
  <2>4. d # Len(key)
    BY <1>1, <2>1
  <2> QED BY <2>2, <2>3, <2>4
<1>10. Stop(nodes, key) = s
  <2>1. s \in ends
    BY <1>3, <1>8
  <2>2. \A d \in ends : s <= d
    <3>1. \A d \in ends : d \in 0..n /\ ~(d < s)
      BY <1>9
    <3> HIDE DEF ends, n
    <3> QED BY <1>1, <1>3, <3>1
  <2>3. \A d \in ends : (\A e \in ends : d <= e) => d = s
    <3>1. \A d \in ends : d \in 0..n
      OBVIOUS
    <3>2. \A a, b \in 0..n : a <= b /\ b <= a => a = b
      <4> HIDE DEF n
      <4> QED BY <1>1
    <3> HIDE DEF ends, n
    <3> QED BY <1>3, <2>1, <2>2, <3>1, <3>2
  <2>4. Stop(nodes, key) = CHOOSE d \in ends : \A e \in ends : d <= e
    BY DEF Stop
  <2> HIDE DEF ends
  <2> QED BY <2>1, <2>2, <2>3, <2>4
<1> QED BY <1>3, <1>5, <1>6, <1>10
(* Above a path there are only inner nodes.                                    *)
LEMMA InnerAbove ==
    ASSUME NEW nodes, Tree(nodes), NEW p \in DOMAIN nodes, NEW d \in 0..(Len(p) - 1)
    PROVE  /\ PathTo(p, d) \in DOMAIN nodes /\ nodes[PathTo(p, d)].kind # "Leaf"
           /\ p[d + 1] \in Byte /\ Contains(nodes[PathTo(p, d)].keys, p[d + 1])
<1>1. p \in Seq(Byte)
  BY DEF Tree
<1>2. Len(p) \in Nat
  BY <1>1, PathWhole
<1>3. d \in Nat /\ d + 1 \in Nat /\ d <= Len(p) /\ d + 1 <= Len(p)
  BY <1>2
<1>4. PathTo(p, d) \in DOMAIN nodes /\ PathTo(p, d + 1) \in DOMAIN nodes
  BY <1>3 DEF Tree
<1>5. p[d + 1] \in Byte /\ Append(PathTo(p, d), p[d + 1]) = PathTo(p, d + 1)
  BY <1>1, PathStep
<1>6. Contains(nodes[PathTo(p, d)].keys, p[d + 1])
  BY <1>4, <1>5 DEF Tree
<1>7. nodes[PathTo(p, d)].kind # "Leaf"
  <2>1. IsNode(nodes[PathTo(p, d)]) /\ ~Contains(<<>>, p[d + 1])
    BY <1>4 DEF Tree, Contains
  <2> QED BY <1>6, <2>1 DEF IsNode
<1> QED BY <1>4, <1>5, <1>6, <1>7

(* A node without a child for some byte has fewer children than bytes, and the *)
(* node it grows into has room for it.                                         *)
LEMMA GrowMakesRoom ==
    ASSUME NEW n, IsNode(n), n.kind # "Leaf", NEW b \in Byte, ~Contains(n.keys, b),
           NEW r, r = [Grow(n) EXCEPT !.keys = Append(@, b)]
    PROVE  /\ IsNode(r) /\ r.kind # "Leaf" /\ r.keys # <<>>
           /\ \A c : Contains(r.keys, c) <=> (Contains(n.keys, c) \/ c = b)
<1> DEFINE keys == n.keys
           len == Len(n.keys)
           more == Append(keys, b)
           All == Capacity["Node256"]
<1>1. /\ keys \in Seq(Byte) /\ n.kind \in InnerKinds /\ len <= Capacity[n.kind] /\ len \in Nat
      /\ \A i, j \in 1..len : keys[i] = keys[j] => i = j
      /\ n = [kind |-> n.kind, keys |-> keys, value |-> n.value]
  BY LenProperties DEF IsNode
<1>2. len < All
  <2>1. \A i \in 1..len : keys[i] \in Byte \ {b}
    BY <1>1, ElementOfSeq DEF Contains
  <2>2. keys \in Injection(1..len, Byte \ {b})
    <3>1. keys \in [1..len -> Byte] /\ DOMAIN keys = 1..len
      BY <1>1, LenProperties
    <3> HIDE DEF len, keys
    <3>2. keys \in [1..len -> Byte \ {b}]
      BY <2>1, <3>1
    <3>3. IsInjective(keys)
      BY <1>1, <3>1 DEF IsInjective
    <3> QED BY <3>2, <3>3 DEF Injection
  <2>3. All \in Nat \ {0}
    BY RadixTreeAssumption DEF InnerKinds
  <2>4. IsFiniteSet(Byte) /\ Cardinality(Byte) = All
    <3>1. IsFiniteSet(0..(All - 1)) /\ Cardinality(0..(All - 1)) = IF 0 > All - 1 THEN 0 ELSE (All - 1) - 0 + 1
      <4> HIDE DEF All
      <4>1. 0 \in Int /\ All - 1 \in Int
        BY <2>3
      <4> QED BY <4>1, FS_Interval
    <3>2. (IF 0 > All - 1 THEN 0 ELSE (All - 1) - 0 + 1) = All
      <4> HIDE DEF All
      <4> QED BY <2>3
    <3> QED BY <3>1, <3>2 DEF Byte
  <2>5. IsFiniteSet(Byte \ {b}) /\ Cardinality(Byte \ {b}) = All - 1
    <3> HIDE DEF All
    <3> QED BY <2>4, FS_RemoveElement
  <2>6. Cardinality(1..len) <= Cardinality(Byte \ {b})
    <3> HIDE DEF len, keys
    <3> QED BY <2>2, <2>5, FS_Injection
  <2>7. Cardinality(1..len) = len
    <3> HIDE DEF len
    <3>1. 1 \in Int /\ len \in Int
      BY <1>1
    <3>2. Cardinality(1..len) = IF 1 > len THEN 0 ELSE len - 1 + 1
      BY <3>1, FS_Interval
    <3> QED BY <1>1, <3>2
  <2> HIDE DEF len, All
  <2> QED BY <1>1, <2>3, <2>5, <2>6, <2>7
<1>3. Grow(n) = [n EXCEPT !.kind = Grow(n).kind] /\ Grow(n).kind \in InnerKinds
      /\ len + 1 <= Capacity[Grow(n).kind]
  <2>1. CASE len < Capacity[n.kind]
    <3>1. Grow(n) = n
      BY <2>1 DEF Grow
    <3>2. Capacity[n.kind] \in Nat
      BY <1>1, RadixTreeAssumption
    <3> HIDE DEF len, keys
    <3> QED BY <1>1, <2>1, <3>1, <3>2
  <2>2. CASE ~(len < Capacity[n.kind])
    <3> DEFINE next == CASE n.kind = "Node4" -> "Node16"
                         [] n.kind = "Node16" -> "Node48"
                         [] n.kind = "Node48" -> "Node256"
    <3>1. Grow(n) = [n EXCEPT !.kind = next]
      BY <2>2 DEF Grow
    <3>2. n.kind # "Node256" /\ Capacity[n.kind] = len
      <4>1. Capacity[n.kind] \in Nat
        BY <1>1, RadixTreeAssumption
      <4> HIDE DEF len
      <4> QED BY <1>1, <1>2, <2>2, <4>1
    <3>3. next \in InnerKinds /\ Capacity[n.kind] < Capacity[next]
      BY <1>1, <3>2, RadixTreeAssumption DEF InnerKinds
    <3>4. Capacity[next] \in Nat
      BY <3>3, RadixTreeAssumption
    <3> HIDE DEF next, len, keys
    <3>5. Grow(n).kind = next
      BY <1>1, <3>1
    <3> QED BY <1>1, <3>1, <3>2, <3>3, <3>4, <3>5
  <2> QED BY <2>1, <2>2
<1>4. r = [kind |-> Grow(n).kind, keys |-> more, value |-> n.value]
  <2> HIDE DEF len
  <2> DEFINE g == Grow(n)
  <2>1. g = [kind |-> g.kind, keys |-> keys, value |-> n.value]
    BY <1>1, <1>3
  <2>2. r = [g EXCEPT !.keys = Append(g.keys, b)]
    OBVIOUS
  <2> HIDE DEF g, keys
  <2>3. g.keys = keys /\ g.value = n.value /\ DOMAIN g = {"kind", "keys", "value"}
    BY <2>1
  <2>4. r = [kind |-> g.kind, keys |-> Append(g.keys, b), value |-> n.value]
    BY <2>1, <2>2, <2>3
  <2> QED BY <2>3, <2>4 DEF g
<1>5. /\ more \in Seq(Byte) /\ Len(more) = len + 1 /\ more # <<>> /\ more[len + 1] = b
      /\ \A i \in 1..len : more[i] = keys[i]
  BY <1>1, AppendProperties
<1>6. \A c : Contains(more, c) <=> (Contains(keys, c) \/ c = b)
  <2>3. len = Len(keys)
    OBVIOUS
  <2> HIDE DEF more, len, keys
  <2>1. \A i \in 1..(len + 1) : i \in 1..len \/ i = len + 1
    BY <1>1
  <2>2. len + 1 \in 1..(len + 1) /\ \A i \in 1..len : i \in 1..(len + 1)
    BY <1>1
  <2> QED BY <1>5, <2>1, <2>2, <2>3 DEF Contains
<1>7. \A i, j \in 1..Len(more) : more[i] = more[j] => i = j
  <2>1. \A i \in 1..len : keys[i] # b
    BY DEF Contains
  <2> HIDE DEF more, len, keys
  <2>2. \A i \in 1..(len + 1) : i \in 1..len \/ i = len + 1
    BY <1>1
  <2> QED BY <1>1, <1>5, <2>1, <2>2
<1>8. r.kind # "Leaf" /\ r.kind \in InnerKinds /\ r.keys = more
  BY <1>3, <1>4 DEF InnerKinds
<1>9. IsNode(r)
  <2> HIDE DEF more, len, keys
  <2> QED BY <1>3, <1>4, <1>5, <1>7, <1>8 DEF IsNode
<1> HIDE DEF more
<1> QED BY <1>5, <1>6, <1>8, <1>9

(* A node made a leaf: what was below it is gone and the rest hangs together.  *)
LEMMA ReplaceKeepsTree ==
    ASSUME NEW nodes, Tree(nodes), Settled(nodes) \/ DOMAIN nodes = {<<>>},
           NEW path \in DOMAIN nodes, NEW value, NEW m, m = ReplaceByLeaf(nodes, path, value)
    PROVE  Tree(m) /\ Settled(m)
<1> DEFINE Below(p) == IsStrictPrefix(path, p)
<1>1. /\ DOMAIN m = {p \in DOMAIN nodes : ~Below(p)}
      /\ \A p \in DOMAIN m : m[p] = IF p = path THEN LeafOf(value) ELSE nodes[p]
  BY DEF ReplaceByLeaf
<1>2. path \in Seq(Byte) /\ Len(path) \in Nat /\ ~Below(path) /\ path \in DOMAIN m
  BY <1>1, PathWhole DEF Tree, IsStrictPrefix
<1>3. \A p \in DOMAIN nodes : p \in Seq(Byte) /\ Len(p) \in Nat
  BY PathWhole DEF Tree
<1>4. \A p \in DOMAIN nodes : Below(p) <=> (Len(path) <= Len(p) /\ PathTo(p, Len(path)) = path /\ path # p)
  BY <1>2, <1>3, PrefixIsPath DEF IsStrictPrefix
<1> HIDE DEF Below
<1>5. DOMAIN m \in SUBSET Seq(Byte) /\ IsFiniteSet(DOMAIN m) /\ <<>> \in DOMAIN m
  <2>1. IsFiniteSet(DOMAIN m) /\ DOMAIN m \in SUBSET Seq(Byte)
    BY <1>1, FS_Subset DEF Tree
  <2>2. <<>> \in DOMAIN nodes /\ Len(<<>>) = 0
    BY DEF Tree
  <2>3. ~Below(<<>>)
    <3> SUFFICES ASSUME Len(path) <= 0, path # <<>> PROVE FALSE
      BY <1>4, <2>2
    <3> QED BY <1>2, PathWhole
  <2> QED BY <1>1, <2>1, <2>2, <2>3
<1>6. \A p \in DOMAIN m : IsNode(m[p])
  <2>1. IsNode(LeafOf(value))
    BY DEF IsNode, LeafOf
  <2> QED BY <1>1, <2>1 DEF Tree
<1>7. ASSUME NEW p \in DOMAIN m, NEW d \in Nat, d <= Len(p) PROVE PathTo(p, d) \in DOMAIN m
  <2>1. p \in DOMAIN nodes /\ ~Below(p) /\ PathTo(p, d) \in DOMAIN nodes /\ d \in 0..Len(p)
    BY <1>1, <1>3, <1>7 DEF Tree
  <2>2. p \in Seq(Byte) /\ Len(PathTo(p, d)) = d
    BY <1>3, <2>1, PathFacts
  <2>3. ASSUME Below(PathTo(p, d)) PROVE FALSE
    <3>1. Len(path) <= d /\ PathTo(PathTo(p, d), Len(path)) = path /\ path # PathTo(p, d)
      BY <1>4, <2>1, <2>2, <2>3
    <3>2. Len(path) \in 0..d /\ Len(path) <= Len(p)
      BY <1>2, <1>3, <1>7, <2>1, <3>1
    <3>3. PathTo(p, Len(path)) = path
      BY <2>1, <2>2, <3>1, <3>2, PathOfPath
    <3>4. path = p
      BY <1>4, <2>1, <3>2, <3>3
    <3>5. d = Len(p)
      BY <1>2, <1>3, <1>7, <2>1, <3>1, <3>4
    <3>6. PathTo(p, d) = p
      BY <2>2, <3>5, PathWhole
    <3> QED BY <3>1, <3>4, <3>6
  <2> QED BY <1>1, <2>1, <2>3
<1>8. ASSUME NEW p \in DOMAIN m, NEW b \in Byte
      PROVE  (Append(p, b) \in DOMAIN m) <=> Contains(m[p].keys, b)
  <2>1. p \in DOMAIN nodes /\ ~Below(p) /\ p \in Seq(Byte) /\ Len(p) \in Nat
    BY <1>1, <1>3
  <2> DEFINE q == Append(p, b)
  <2>2. /\ q \in Seq(Byte) /\ Len(q) = Len(p) + 1 /\ PathTo(q, Len(p)) = p
        /\ \A d \in 0..Len(p) : PathTo(q, d) = PathTo(p, d)
    BY <2>1, AppendPath
  <2>3. q \in DOMAIN nodes <=> Contains(nodes[p].keys, b)
    BY <2>1 DEF Tree
  <2> HIDE DEF q
  <2>4. CASE p = path
    <3>1. m[p].keys = <<>>
      BY <1>1, <2>4 DEF LeafOf
    <3>2. ~Contains(m[p].keys, b)
      BY <3>1 DEF Contains
    <3>3. q \notin DOMAIN m
      <4>1. Len(path) <= Len(q) /\ PathTo(q, Len(path)) = path /\ path # q
        BY <2>1, <2>2, <2>4
      <4> QED BY <1>1, <1>4, <4>1
    <3> QED BY <3>2, <3>3 DEF q
  <2>5. CASE p # path
    <3>1. m[p] = nodes[p]
      BY <1>1, <2>5
    <3>2. ASSUME q \in DOMAIN nodes, Below(q) PROVE FALSE
      <4>1. Len(path) <= Len(q) /\ PathTo(q, Len(path)) = path /\ path # q
        BY <1>4, <3>2
      <4>2. CASE Len(path) = Len(q)
        BY <2>2, <4>1, <4>2, PathWhole
      <4>3. CASE Len(path) # Len(q)
        <5>1. Len(path) <= Len(p) /\ Len(path) \in 0..Len(p)
          BY <1>2, <2>1, <2>2, <4>1, <4>3
        <5>2. PathTo(p, Len(path)) = path
          BY <2>2, <4>1, <5>1
        <5> QED BY <1>4, <2>1, <2>5, <5>1, <5>2
      <4> QED BY <4>2, <4>3
    <3>3. q \in DOMAIN m <=> q \in DOMAIN nodes
      BY <1>1, <3>2
    <3> QED BY <2>3, <3>1, <3>3 DEF q
  <2> QED BY <2>4, <2>5
<1>9. Settled(m)
  <2> SUFFICES ASSUME NEW p \in DOMAIN m, m[p].kind # "Leaf" PROVE m[p].keys # <<>>
    BY DEF Settled
  <2>1. p # path /\ p \in DOMAIN nodes /\ m[p] = nodes[p]
    BY <1>1 DEF LeafOf
  <2>2. DOMAIN nodes # {<<>>}
    BY <2>1
  <2> QED BY <2>1, <2>2 DEF Settled
<1> QED BY <1>5, <1>6, <1>7, <1>8, <1>9 DEF Tree

(* The nodes m after the end of a key was added below the one at depth s.      *)
Extended(nodes, key, s, value, m) ==
    /\ DOMAIN m = DOMAIN nodes \cup {PathTo(key, d) : d \in (s + 1)..Len(key)}
    /\ \A p \in DOMAIN nodes : /\ m[p].kind = "Leaf" <=> nodes[p].kind = "Leaf"
                               /\ m[p].value = nodes[p].value
    /\ \A d \in (s + 1)..Len(key) :
          IF d = Len(key) THEN m[PathTo(key, d)] = LeafOf(value)
          ELSE m[PathTo(key, d)].kind # "Leaf"

(* A new child with the chain below it hangs on the node that was reached.     *)
LEMMA AddChildKeepsTree ==
    ASSUME NEW nodes, Tree(nodes), Settled(nodes) \/ DOMAIN nodes = {<<>>},
           NEW key \in Seq(Byte), NEW s, s = Stop(nodes, key), s # Len(key),
           nodes[PathTo(key, s)].kind # "Leaf",
           NEW value, NEW m, m = AddChild(nodes, key, s, value)
    PROVE  Tree(m) /\ Settled(m) /\ Extended(nodes, key, s, value, m)
<1> DEFINE n == Len(key)
           path == PathTo(key, s)
           b == key[s + 1]
           Chain == {PathTo(key, d) : d \in (s + 1)..Len(key)}
           grown == [Grow(nodes[path]) EXCEPT !.keys = Append(@, b)]
           NewAt(p) == IF p = key THEN LeafOf(value) ELSE NewNode(<<key[Len(p) + 1]>>)
<1>1. n \in Nat /\ s \in 0..n /\ s < n /\ s \in Nat
  <2>1. n \in Nat /\ s \in 0..Len(key)
    BY StopIs, PathWhole
  <2> HIDE DEF n
  <2>2. s \in 0..n
    BY <2>1 DEF n
  <2> QED BY <2>1, <2>2 DEF n
<1>2. \A d \in 0..n : PathTo(key, d) \in DOMAIN nodes <=> d <= s
  BY StopIs
<1>3. \A d \in 0..n : /\ PathTo(key, d) \in Seq(Byte) /\ Len(PathTo(key, d)) = d
  BY PathFacts
<1>4. \A d \in 0..n, e \in Nat : e <= d => PathTo(PathTo(key, d), e) = PathTo(key, e)
  <2>1. \A d \in 0..n, e \in Nat : e <= d => d \in 0..Len(key) /\ e \in 0..d
    BY <1>1
  <2> QED BY <2>1, PathOfPath
<1>5. \A d \in 0..n : d < n => key[d + 1] \in Byte /\ Append(PathTo(key, d), key[d + 1]) = PathTo(key, d + 1)
  <2>1. \A d \in 0..n : d < n => d \in 0..(Len(key) - 1)
    BY <1>1
  <2> QED BY <2>1, PathStep
<1>6. PathTo(key, n) = key
  BY PathWhole
<1>7. path \in DOMAIN nodes /\ b \in Byte /\ Append(path, b) \notin DOMAIN nodes
  <2> HIDE DEF n
  <2>1. s + 1 \in 0..n /\ ~(s + 1 <= s) /\ s <= s
    BY <1>1
  <2> QED BY <1>1, <1>2, <1>5, <2>1
<1>8. \A p \in Chain : \E d \in 0..n : s + 1 <= d /\ p = PathTo(key, d)
  <2>1. \A d \in (s + 1)..n : d \in 0..n /\ s + 1 <= d
    BY <1>1
  <2> QED BY <2>1
<1>9. \A d \in 0..n : s + 1 <= d => PathTo(key, d) \in Chain /\ ~(d <= s)
  <2>1. \A d \in 0..n : s + 1 <= d => d \in (s + 1)..n /\ ~(d <= s)
    BY <1>1
  <2> QED BY <2>1
<1>10. \A p \in Chain : p \notin DOMAIN nodes
  <2> HIDE DEF Chain, n
  <2> QED BY <1>2, <1>8, <1>9
<1>11. /\ DOMAIN m = DOMAIN nodes \cup Chain
       /\ \A p \in Chain : m[p] = NewAt(p)
       /\ m[path] = grown
       /\ \A p \in DOMAIN nodes : p # path => m[p] = nodes[p]
  <2>1. m = [p \in DOMAIN nodes \cup Chain |->
               IF p \in Chain THEN NewAt(p)
               ELSE IF p = path THEN grown
               ELSE nodes[p]]
    BY DEF AddChild
  <2> HIDE DEF Chain, NewAt, grown, path
  <2> QED BY <1>7, <1>10, <2>1
<1>12. /\ IsNode(grown) /\ grown.kind # "Leaf" /\ grown.keys # <<>>
       /\ \A c : Contains(grown.keys, c) <=> (Contains(nodes[path].keys, c) \/ c = b)
  <2>1. IsNode(nodes[path]) /\ ~Contains(nodes[path].keys, b)
    BY <1>7 DEF Tree
  <2> HIDE DEF path, b
  <2>2. nodes[path].kind # "Leaf"
    BY DEF path
  <2> QED BY <1>7, <2>1, <2>2, GrowMakesRoom
<1>13. \A d \in 0..n : s + 1 <= d =>
          IF d = n THEN m[PathTo(key, d)] = LeafOf(value)
          ELSE m[PathTo(key, d)] = NewNode(<<key[d + 1]>>)
  <2> SUFFICES ASSUME NEW d \in 0..n, s + 1 <= d
               PROVE  IF d = n THEN m[PathTo(key, d)] = LeafOf(value)
                      ELSE m[PathTo(key, d)] = NewNode(<<key[d + 1]>>)
    OBVIOUS
  <2>1. m[PathTo(key, d)] = NewAt(PathTo(key, d)) /\ Len(PathTo(key, d)) = d
    <3> HIDE DEF Chain, NewAt
    <3> QED BY <1>3, <1>9, <1>11
  <2>2. PathTo(key, d) = key <=> d = n
    BY <1>3, <1>6
  <2> HIDE DEF n
  <2> QED BY <2>1, <2>2
<1>14. IsNode(LeafOf(value)) /\ \A c \in Byte : IsNode(NewNode(<<c>>))
  <2>1. IsNode(LeafOf(value))
    BY DEF IsNode, LeafOf
  <2>2. ASSUME NEW c \in Byte PROVE IsNode(NewNode(<<c>>))
    <3>1. <<c>> \in Seq(Byte) /\ Len(<<c>>) = 1
      OBVIOUS
    <3>2. \A i, j \in 1..1 : i = j
      OBVIOUS
    <3>3. Capacity["Node4"] \in Nat \ {0}
      BY RadixTreeAssumption DEF InnerKinds
    <3>4. 1 <= Capacity["Node4"]
      BY <3>3
    <3> DEFINE r == NewNode(<<c>>)
    <3>5. r = [kind |-> "Node4", keys |-> <<c>>, value |-> 0] /\ "Node4" \in InnerKinds
      BY DEF NewNode, InnerKinds
    <3>6. r.kind = "Node4" /\ r.keys = <<c>> /\ r.value = 0
      BY <3>5
    <3> HIDE DEF r
    <3>7. r = [kind |-> r.kind, keys |-> r.keys, value |-> r.value]
      BY <3>5, <3>6
    <3>8. "Node4" # "Leaf"
      OBVIOUS
    <3>9. IsNode(r)
      BY <3>1, <3>2, <3>4, <3>5, <3>6, <3>7, <3>8 DEF IsNode
    <3> QED BY <3>9 DEF r
  <2> QED BY <2>1, <2>2
<1> HIDE DEF Chain, NewAt, grown, n, path, b
<1>15. DOMAIN m \in SUBSET Seq(Byte) /\ IsFiniteSet(DOMAIN m) /\ <<>> \in DOMAIN m
  <2>1. Chain \in SUBSET Seq(Byte)
    BY <1>3, <1>8
  <2>2. IsFiniteSet(Chain)
    <3> DEFINE f == [d \in (s + 1)..n |-> PathTo(key, d)]
    <3>1. f \in Surjection((s + 1)..n, Chain)
      BY DEF Surjection, Chain, n
    <3>2. IsFiniteSet((s + 1)..n)
      <4>1. s + 1 \in Int /\ n \in Int
        BY <1>1
      <4> QED BY <4>1, FS_Interval
    <3> HIDE DEF f
    <3> QED BY <3>1, <3>2, FS_Surjection
  <2>3. IsFiniteSet(DOMAIN nodes \cup Chain)
    BY <2>2, FS_Union DEF Tree
  <2> QED BY <1>11, <2>1, <2>3 DEF Tree
<1>16. \A p \in DOMAIN m : IsNode(m[p])
  <2> SUFFICES ASSUME NEW p \in DOMAIN m PROVE IsNode(m[p])
    OBVIOUS
  <2>1. CASE p \in Chain
    <3>1. PICK d \in 0..n : s + 1 <= d /\ p = PathTo(key, d)
      BY <1>8, <2>1
    <3>2. d # n => d < n
      BY <1>1, <3>1
    <3> QED BY <1>5, <1>13, <1>14, <3>1, <3>2
  <2>2. CASE p \in DOMAIN nodes
    BY <1>11, <1>12, <2>2 DEF Tree
  <2> QED BY <1>11, <2>1, <2>2
<1>17. ASSUME NEW p \in DOMAIN m, NEW d \in Nat, d <= Len(p) PROVE PathTo(p, d) \in DOMAIN m
  <2>1. CASE p \in DOMAIN nodes
    BY <1>11, <1>17, <2>1 DEF Tree
  <2>2. CASE p \in Chain
    <3>1. PICK e \in 0..n : s + 1 <= e /\ p = PathTo(key, e)
      BY <1>8, <2>2
    <3>2. PathTo(p, d) = PathTo(key, d) /\ d \in 0..n
      BY <1>1, <1>3, <1>4, <1>17, <3>1
    <3>3. d <= s \/ s + 1 <= d
      BY <1>1
    <3> QED BY <1>2, <1>9, <1>11, <3>2, <3>3
  <2> QED BY <1>11, <2>1, <2>2
<1>18. \A p \in DOMAIN m : p \in Seq(Byte) /\ Len(p) \in Nat
  BY <1>15, PathWhole
<1>19. ASSUME NEW p \in DOMAIN m, NEW c \in Byte
       PROVE  (Append(p, c) \in DOMAIN m) <=> Contains(m[p].keys, c)
  <2> DEFINE q == Append(p, c)
  <2>1. /\ q \in Seq(Byte) /\ Len(q) = Len(p) + 1 /\ q[Len(p) + 1] = c /\ PathTo(q, Len(p)) = p
    BY <1>18, AppendPath
  <2>2. \A d \in 0..n : d < n => (q = PathTo(key, d + 1) <=> (p = PathTo(key, d) /\ c = key[d + 1]))
    <3> SUFFICES ASSUME NEW d \in 0..n, d < n
                 PROVE  q = PathTo(key, d + 1) <=> (p = PathTo(key, d) /\ c = key[d + 1])
      OBVIOUS
    <3>1. key[d + 1] \in Byte /\ Append(PathTo(key, d), key[d + 1]) = PathTo(key, d + 1) /\ PathTo(key, d) \in Seq(Byte)
      BY <1>3, <1>5
    <3> HIDE DEF q
    <3>2. PICK u \in Seq(Byte) : u = PathTo(key, d)
      BY <3>1
    <3>3. PICK step \in Byte : step = key[d + 1]
      BY <3>1
    <3>4. p \in Seq(Byte)
      BY <1>18
    <3>5. (Append(p, c) = Append(u, step)) <=> (p = u /\ c = step)
      BY <3>4, AppendInjective
    <3>6. q = Append(p, c) /\ PathTo(key, d + 1) = Append(u, step)
      BY <3>1, <3>2, <3>3 DEF q
    <3> QED BY <3>2, <3>3, <3>5, <3>6
  <2> HIDE DEF q
  <2>3. \A d \in 0..n : s + 1 <= d =>
           /\ d - 1 \in 0..n /\ d - 1 < n /\ (d - 1) + 1 = d /\ (d - 1 = s \/ s + 1 <= d - 1)
    BY <1>1
  <2>4. q \in Chain => \E d \in 0..n : /\ d < n /\ (d = s \/ s + 1 <= d)
                                       /\ p = PathTo(key, d) /\ c = key[d + 1]
    <3> SUFFICES ASSUME q \in Chain
                 PROVE  \E d \in 0..n : /\ d < n /\ (d = s \/ s + 1 <= d)
                                        /\ p = PathTo(key, d) /\ c = key[d + 1]
      OBVIOUS
    <3>1. PICK e \in 0..n : s + 1 <= e /\ q = PathTo(key, e)
      BY <1>8
    <3>2. e - 1 \in 0..n /\ e - 1 < n /\ (e - 1) + 1 = e /\ (e - 1 = s \/ s + 1 <= e - 1)
      BY <2>3, <3>1
    <3>3. p = PathTo(key, e - 1) /\ c = key[(e - 1) + 1]
      BY <2>2, <3>1, <3>2
    <3> QED BY <3>2, <3>3
  <2>5. CASE p \in Chain
    <3>1. PICK d \in 0..n : s + 1 <= d /\ p = PathTo(key, d)
      BY <1>8, <2>5
    <3>2. q \notin DOMAIN nodes
      <4> SUFFICES ASSUME q \in DOMAIN nodes PROVE FALSE
        OBVIOUS
      <4>1. Len(p) \in Nat /\ Len(p) <= Len(q)
        BY <1>18, <2>1
      <4>2. p \in DOMAIN nodes
        BY <2>1, <4>1 DEF Tree
      <4> QED BY <1>10, <2>5, <4>2
    <3>3. CASE d = n
      <4>1. q \notin Chain
        <5> SUFFICES ASSUME q \in Chain PROVE FALSE
          OBVIOUS
        <5>1. PICK e \in 0..n : e < n /\ p = PathTo(key, e)
          BY <2>4
        <5>2. Len(p) = e /\ Len(p) = n
          BY <1>3, <3>1, <3>3, <5>1
        <5> QED BY <1>1, <5>1, <5>2
      <4>2. m[p] = LeafOf(value)
        BY <1>13, <3>1, <3>3
      <4>3. ~Contains(m[p].keys, c)
        BY <4>2 DEF LeafOf, Contains
      <4> QED BY <1>11, <3>2, <4>1, <4>3 DEF q
    <3>4. CASE d # n
      <4>1. d < n /\ d + 1 \in 0..n /\ s + 1 <= d + 1
        BY <1>1, <3>1, <3>4
      <4>6. m[p] = NewNode(<<key[d + 1]>>)
        BY <1>13, <3>1, <3>4
      <4>2. m[p].keys = <<key[d + 1]>>
        BY <4>6 DEF NewNode
      <4>3. Contains(m[p].keys, c) <=> c = key[d + 1]
        BY <4>2 DEF Contains
      <4>4. c = key[d + 1] => q \in Chain
        BY <1>9, <2>2, <3>1, <4>1
      <4>5. q \in Chain => c = key[d + 1]
        <5> SUFFICES ASSUME q \in Chain PROVE c = key[d + 1]
          OBVIOUS
        <5>1. PICK e \in 0..n : e < n /\ p = PathTo(key, e) /\ c = key[e + 1]
          BY <2>4
        <5>2. e = d
          BY <1>3, <3>1, <5>1
        <5> QED BY <5>1, <5>2
      <4> QED BY <1>11, <3>2, <4>3, <4>4, <4>5 DEF q
    <3> QED BY <3>3, <3>4
  <2>6. CASE p \in DOMAIN nodes
    <3>1. q \in Chain => p = path /\ c = b
      <4> SUFFICES ASSUME q \in Chain PROVE p = path /\ c = b
        OBVIOUS
      <4>1. PICK d \in 0..n : /\ d < n /\ (d = s \/ s + 1 <= d)
                              /\ p = PathTo(key, d) /\ c = key[d + 1]
        BY <2>4
      <4>2. d = s
        BY <1>9, <1>10, <2>6, <4>1
      <4> QED BY <4>1, <4>2 DEF path, b
    <3>2. p = path /\ c = b => q \in Chain
      <4> SUFFICES ASSUME p = path, c = b PROVE q \in Chain
        OBVIOUS
      <4>1. q = PathTo(key, s + 1)
        BY <1>1, <2>2 DEF path, b
      <4>2. s + 1 \in 0..n /\ s + 1 <= s + 1
        BY <1>1
      <4> QED BY <1>9, <4>1, <4>2
    <3>3. q \in DOMAIN nodes <=> Contains(nodes[p].keys, c)
      BY <2>6 DEF Tree, q
    <3>4. CASE p = path
      BY <1>11, <1>12, <3>1, <3>2, <3>3, <3>4 DEF q
    <3>5. CASE p # path
      <4>1. m[p] = nodes[p]
        BY <1>11, <2>6, <3>5
      <4> QED BY <1>11, <3>1, <3>3, <3>5, <4>1 DEF q
    <3> QED BY <3>4, <3>5
  <2> QED BY <1>11, <2>5, <2>6
<1>20. Settled(m)
  <2> SUFFICES ASSUME NEW p \in DOMAIN m, m[p].kind # "Leaf" PROVE m[p].keys # <<>>
    BY DEF Settled
  <2>1. CASE p \in Chain
    <3>1. PICK d \in 0..n : s + 1 <= d /\ p = PathTo(key, d)
      BY <1>8, <2>1
    <3>2. m[p] = NewNode(<<key[d + 1]>>)
      BY <1>13, <3>1 DEF LeafOf
    <3> QED BY <3>2 DEF NewNode
  <2>2. CASE p = path
    BY <1>11, <1>12, <2>2
  <2>3. CASE p \in DOMAIN nodes /\ p # path
    <3>1. m[p] = nodes[p]
      BY <1>11, <2>3
    <3>2. DOMAIN nodes # {<<>>}
      BY <1>7, <2>3
    <3> QED BY <2>3, <3>1, <3>2 DEF Settled
  <2> QED BY <1>11, <2>1, <2>2, <2>3
<1>21. \A p \in DOMAIN nodes : /\ m[p].kind = "Leaf" <=> nodes[p].kind = "Leaf"
                               /\ m[p].value = nodes[p].value
  <2> SUFFICES ASSUME NEW p \in DOMAIN nodes
               PROVE  /\ m[p].kind = "Leaf" <=> nodes[p].kind = "Leaf"
                      /\ m[p].value = nodes[p].value
    OBVIOUS
  <2>1. CASE p # path
    BY <1>11, <2>1
  <2>2. CASE p = path
    <3>1. nodes[path].kind # "Leaf" /\ IsNode(nodes[path])
      BY <1>7 DEF path, Tree
    <3>2. grown.value = nodes[path].value
      <4>1. Grow(nodes[path]).value = nodes[path].value /\ "keys" \in DOMAIN Grow(nodes[path])
        BY <3>1 DEF Grow, IsNode
      <4> QED BY <4>1 DEF grown
    <3> QED BY <1>11, <1>12, <2>2, <3>1, <3>2
  <2> QED BY <2>1, <2>2
<1>22. \A d \in (s + 1)..n : d \in 0..n /\ s + 1 <= d
  BY <1>1
<1>23. \A d \in (s + 1)..n : IF d = n THEN m[PathTo(key, d)] = LeafOf(value)
                             ELSE m[PathTo(key, d)].kind # "Leaf"
  <2>1. \A c : NewNode(<<c>>).kind # "Leaf"
    BY DEF NewNode
  <2> SUFFICES ASSUME NEW d \in (s + 1)..n
               PROVE  IF d = n THEN m[PathTo(key, d)] = LeafOf(value)
                      ELSE m[PathTo(key, d)].kind # "Leaf"
    OBVIOUS
  <2>2. d \in 0..n /\ s + 1 <= d
    BY <1>22
  <2>3. CASE d = n
    BY <1>13, <2>2, <2>3
  <2>4. CASE d # n
    BY <1>13, <2>1, <2>2, <2>4
  <2> QED BY <2>3, <2>4
<1>24. Tree(m)
  BY <1>15, <1>16, <1>17, <1>19 DEF Tree
<1> QED BY <1>11, <1>20, <1>21, <1>23, <1>24 DEF Chain, n, Extended

(* A put of PrefixMap: a key that extends a present one changes its value, and *)
(* one that present keys extend takes their place.                             *)
PutInto(map, k, v) ==
    LET shorter == {p \in DOMAIN map : IsStrictPrefix(p, k)}
        unrelated == {p \in DOMAIN map : ~IsPrefix(k, p)}
    IN IF shorter # {}
       THEN [p \in DOMAIN map |-> IF p \in shorter THEN v ELSE map[p]]
       ELSE [p \in unrelated \cup {k} |-> IF p = k THEN v ELSE map[p]]

MapOf(nodes) == [p \in Leaves(nodes) |-> nodes[p].value]

(* The leaves that begin a key, and those that it begins.                      *)
LEMMA LeavesOnTheWay ==
    ASSUME NEW nodes, Tree(nodes), NEW key \in Seq(Byte), NEW s, s = Stop(nodes, key),
           NEW path, path = PathTo(key, s)
    PROVE  /\ s \in 0..Len(key) /\ path \in DOMAIN nodes /\ path \in Seq(Byte) /\ Len(path) = s
           /\ \A p \in Leaves(nodes) : IsPrefix(p, key) => p = path
           /\ \A p \in DOMAIN nodes : IsPrefix(key, p) => s = Len(key) /\ path = key
           /\ \A p \in DOMAIN nodes : IsStrictPrefix(path, p) => nodes[path].kind # "Leaf"
<1> DEFINE n == Len(key)
<1>1. n \in Nat /\ s \in 0..n /\ s \in Nat
  <2>1. n \in Nat /\ s \in 0..Len(key)
    BY StopIs, PathWhole
  <2> HIDE DEF n
  <2>2. s \in 0..n
    BY <2>1 DEF n
  <2> QED BY <2>1, <2>2
<1>2. \A d \in 0..n : PathTo(key, d) \in DOMAIN nodes <=> d <= s
  BY StopIs
<1>3. \A d \in 0..n : PathTo(key, d) \in Seq(Byte) /\ Len(PathTo(key, d)) = d
  BY PathFacts
<1>4. \A p \in DOMAIN nodes : p \in Seq(Byte) /\ Len(p) \in Nat
  BY PathWhole DEF Tree
<1>5. path \in DOMAIN nodes /\ path \in Seq(Byte) /\ Len(path) = s
  <2> HIDE DEF n
  <2>1. s <= s
    BY <1>1
  <2> QED BY <1>1, <1>2, <1>3, <2>1
<1>6. ASSUME NEW p \in Leaves(nodes), IsPrefix(p, key) PROVE p = path
  <2>1. p \in DOMAIN nodes /\ nodes[p].kind = "Leaf" /\ p \in Seq(Byte)
    BY <1>4 DEF Leaves
  <2>2. Len(p) <= n /\ PathTo(key, Len(p)) = p /\ Len(p) \in Nat
    BY <1>4, <1>6, <2>1, PrefixIsPath
  <2> DEFINE d == Len(p)
  <2>3. d \in 0..n /\ d <= s
    <3> HIDE DEF n
    <3>1. d \in 0..n
      BY <1>1, <2>2
    <3> QED BY <1>2, <2>1, <2>2, <3>1
  <2>4. CASE d = s
    BY <2>2, <2>4
  <2>5. CASE d # s
    <3>1. d \in 0..(Len(path) - 1)
      BY <1>1, <1>5, <2>3, <2>5
    <3>2. nodes[PathTo(path, d)].kind # "Leaf"
      BY <1>5, <3>1, InnerAbove
    <3>3. d \in 0..s /\ s \in 0..Len(key)
      BY <1>1, <2>3
    <3>4. PathTo(path, d) = PathTo(key, d)
      BY <3>3, PathOfPath
    <3> QED BY <2>1, <2>2, <3>2, <3>4
  <2> QED BY <2>4, <2>5
<1>7. ASSUME NEW p \in DOMAIN nodes, IsPrefix(key, p) PROVE s = Len(key) /\ path = key
  <2>1. n <= Len(p) /\ PathTo(p, n) = key
    BY <1>4, <1>7, PrefixIsPath
  <2>2. key \in DOMAIN nodes
    <3> HIDE DEF n
    <3> QED BY <1>1, <2>1 DEF Tree
  <2>3. PathTo(key, n) = key
    BY PathWhole
  <2>4. n <= s
    <3> HIDE DEF n
    <3>1. n \in 0..n
      BY <1>1
    <3> QED BY <1>2, <2>2, <2>3, <3>1
  <2>5. n = s
    <3> HIDE DEF n
    <3> QED BY <1>1, <2>4
  <2> QED BY <2>3, <2>5
<1>8. ASSUME NEW p \in DOMAIN nodes, IsStrictPrefix(path, p) PROVE nodes[path].kind # "Leaf"
  <2>1. Len(path) <= Len(p) /\ PathTo(p, Len(path)) = path /\ path # p
    BY <1>4, <1>5, <1>8, PrefixIsPath DEF IsStrictPrefix
  <2>2. Len(path) # Len(p)
    BY <1>4, <2>1, PathWhole
  <2>3. Len(path) \in 0..(Len(p) - 1)
    BY <1>1, <1>4, <1>5, <2>1, <2>2
  <2> QED BY <2>1, <2>3, InnerAbove
<1> QED BY <1>1, <1>5, <1>6, <1>7, <1>8

(* An insert keeps the shape and puts the key into the map.                    *)
LEMMA InsertRecursiveIs ==
    ASSUME NEW nodes, Tree(nodes), Settled(nodes) \/ DOMAIN nodes = {<<>>},
           NEW key \in Seq(Byte), NEW value, NEW m, m = InsertRecursive(nodes, key, value)
    PROVE  Tree(m) /\ Settled(m) /\ MapOf(m) = PutInto(MapOf(nodes), key, value)
<1> DEFINE s == Stop(nodes, key)
           path == PathTo(key, s)
           shorter == {p \in Leaves(nodes) : IsStrictPrefix(p, key)}
           unrelated == {p \in Leaves(nodes) : ~IsPrefix(key, p)}
<1>1. /\ s \in 0..Len(key) /\ path \in DOMAIN nodes /\ path \in Seq(Byte) /\ Len(path) = s
      /\ \A p \in Leaves(nodes) : IsPrefix(p, key) => p = path
      /\ \A p \in DOMAIN nodes : IsPrefix(key, p) => s = Len(key) /\ path = key
      /\ \A p \in DOMAIN nodes : IsStrictPrefix(path, p) => nodes[path].kind # "Leaf"
  BY LeavesOnTheWay
<1>2. PutInto(MapOf(nodes), key, value) =
        IF shorter # {}
        THEN [p \in Leaves(nodes) |-> IF p \in shorter THEN value ELSE MapOf(nodes)[p]]
        ELSE [p \in unrelated \cup {key} |-> IF p = key THEN value ELSE MapOf(nodes)[p]]
  <2>1. DOMAIN MapOf(nodes) = Leaves(nodes)
    BY DEF MapOf
  <2> QED BY <2>1, Zenon DEF PutInto
<1>3. \A p \in Leaves(nodes) : MapOf(nodes)[p] = nodes[p].value
  BY DEF MapOf
<1>4. PathTo(key, Len(key)) = key /\ Len(key) \in Nat
  BY PathWhole
<1>5. m = IF s = Len(key) \/ nodes[path].kind = "Leaf"
          THEN ReplaceByLeaf(nodes, path, value) ELSE AddChild(nodes, key, s, value)
  BY DEF InsertRecursive
<1>6. IsPrefix(path, key)
  <2>1. Len(path) <= Len(key)
    <3> HIDE DEF path, s
    <3> QED BY <1>1, <1>4
  <2> HIDE DEF s
  <2> QED BY <1>1, <2>1, PrefixIsPath
<1> HIDE DEF s, path
<1>7. CASE s = Len(key) \/ nodes[path].kind = "Leaf"
  <2>1. m = ReplaceByLeaf(nodes, path, value)
    BY <1>5, <1>7
  <2>2. Tree(m) /\ Settled(m)
    BY <1>1, <2>1, ReplaceKeepsTree
  <2>3. /\ DOMAIN m = {p \in DOMAIN nodes : ~IsStrictPrefix(path, p)}
        /\ \A p \in DOMAIN m : m[p] = IF p = path THEN LeafOf(value) ELSE nodes[p]
    BY <2>1 DEF ReplaceByLeaf
  <2>4. path \in DOMAIN m
    BY <1>1, <2>3 DEF IsStrictPrefix
  <2>5. Leaves(m) = {p \in Leaves(nodes) : ~IsStrictPrefix(path, p)} \cup {path}
    BY <2>3, <2>4 DEF Leaves, LeafOf
  <2>6. \A p \in Leaves(m) : m[p].value = IF p = path THEN value ELSE nodes[p].value
    BY <2>3 DEF Leaves, LeafOf
  <2>7. MapOf(m) = [p \in Leaves(m) |-> IF p = path THEN value ELSE nodes[p].value]
    BY <2>6 DEF MapOf
  <2>8. CASE s = Len(key)
    <3>1. path = key
      BY <1>4, <2>8 DEF path
    <3>2. shorter = {}
      BY <1>1, <3>1 DEF IsStrictPrefix
    <3>3. unrelated \cup {key} = Leaves(m)
      BY <2>5, <3>1 DEF IsStrictPrefix
    <3>4. PutInto(MapOf(nodes), key, value)
            = [p \in Leaves(m) |-> IF p = key THEN value ELSE MapOf(nodes)[p]]
      BY <1>2, <3>2, <3>3
    <3>5. \A p \in Leaves(m) : p # key => p \in Leaves(nodes)
      BY <2>5, <3>1
    <3> HIDE DEF shorter, unrelated
    <3> QED BY <1>3, <2>2, <2>7, <3>1, <3>4, <3>5
  <2>9. CASE s # Len(key)
    <3>1. nodes[path].kind = "Leaf" /\ path # key
      BY <1>1, <1>7, <2>9
    <3>2. path \in Leaves(nodes)
      BY <1>1, <3>1 DEF Leaves
    <3>3. Leaves(m) = Leaves(nodes)
      BY <1>1, <2>5, <3>1, <3>2 DEF Leaves
    <3>4. shorter = {path}
      BY <1>1, <1>6, <3>1, <3>2 DEF IsStrictPrefix
    <3>5. PutInto(MapOf(nodes), key, value)
            = [p \in Leaves(nodes) |-> IF p \in shorter THEN value ELSE MapOf(nodes)[p]]
      BY <1>2, <3>4
    <3> HIDE DEF shorter, unrelated
    <3> QED BY <1>3, <2>2, <2>7, <3>3, <3>4, <3>5
  <2> QED BY <2>8, <2>9
<1>8. CASE ~(s = Len(key) \/ nodes[path].kind = "Leaf")
  <2> DEFINE Chain == {PathTo(key, d) : d \in (s + 1)..Len(key)}
  <2>1. m = AddChild(nodes, key, s, value)
    BY <1>5, <1>8
  <2>2. /\ Tree(m) /\ Settled(m)
        /\ DOMAIN m = DOMAIN nodes \cup Chain
        /\ \A p \in DOMAIN nodes : /\ m[p].kind = "Leaf" <=> nodes[p].kind = "Leaf"
                                   /\ m[p].value = nodes[p].value
        /\ \A d \in (s + 1)..Len(key) :
              IF d = Len(key) THEN m[PathTo(key, d)] = LeafOf(value)
              ELSE m[PathTo(key, d)].kind # "Leaf"
    <3>1. s = Stop(nodes, key)
      BY DEF s
    <3>2. s # Len(key) /\ nodes[PathTo(key, s)].kind # "Leaf"
      BY <1>8 DEF path
    <3>3. Tree(m) /\ Settled(m) /\ Extended(nodes, key, s, value, m)
      BY <2>1, <3>1, <3>2, AddChildKeepsTree
    <3> QED BY <3>3 DEF Extended
  <2>3. s + 1 <= Len(key) /\ Len(key) \in (s + 1)..Len(key)
    BY <1>1, <1>4, <1>8
  <2>4. key \in DOMAIN m /\ m[key] = LeafOf(value)
    BY <1>4, <2>2, <2>3
  <2>5. Leaves(m) = Leaves(nodes) \cup {key}
    <3>1. \A p \in Chain : m[p].kind = "Leaf" => p = key
      BY <1>4, <2>2
    <3>2. m[key].kind = "Leaf"
      BY <2>4 DEF LeafOf
    <3> HIDE DEF Chain
    <3> QED BY <2>2, <2>4, <3>1, <3>2 DEF Leaves
  <2>6. shorter = {}
    <3>1. path \notin Leaves(nodes)
      BY <1>8 DEF Leaves
    <3> QED BY <1>1, <3>1 DEF IsStrictPrefix
  <2>7. unrelated = Leaves(nodes) /\ key \notin Leaves(nodes)
    <3>1. \A p \in DOMAIN nodes : ~IsPrefix(key, p)
      BY <1>1, <1>8
    <3>2. IsPrefix(key, key)
      BY <1>4 DEF IsPrefix
    <3> QED BY <3>1, <3>2 DEF Leaves
  <2>8. PutInto(MapOf(nodes), key, value)
          = [p \in Leaves(m) |-> IF p = key THEN value ELSE MapOf(nodes)[p]]
    BY <1>2, <2>5, <2>6, <2>7
  <2>9. \A p \in Leaves(m) : m[p].value = IF p = key THEN value ELSE MapOf(nodes)[p]
    <3> SUFFICES ASSUME NEW p \in Leaves(m)
                 PROVE  m[p].value = IF p = key THEN value ELSE MapOf(nodes)[p]
      OBVIOUS
    <3>1. CASE p = key
      BY <2>4, <3>1 DEF LeafOf
    <3>2. CASE p # key
      <4>1. p \in Leaves(nodes) /\ p \in DOMAIN nodes
        BY <2>5, <3>2 DEF Leaves
      <4> QED BY <1>3, <2>2, <3>2, <4>1
    <3> QED BY <3>1, <3>2
  <2> HIDE DEF Chain, shorter, unrelated
  <2>10. MapOf(m) = PutInto(MapOf(nodes), key, value)
    <3>1. MapOf(m) = [p \in Leaves(m) |-> m[p].value]
      BY DEF MapOf
    <3> QED BY <2>8, <2>9, <3>1
  <2> QED BY <2>2, <2>10
<1> QED BY <1>7, <1>8

(* An index: an empty one, or one whose tree hangs together.                   *)
Sound(tree) ==
    /\ tree = [nodes |-> tree.nodes, size |-> tree.size]
    /\ tree.size \in Nat /\ Cardinality(DOMAIN Contents(tree)) <= tree.size
    /\ IsFiniteSet(DOMAIN Contents(tree))
    /\ \A p \in DOMAIN Contents(tree) : p \in Seq(Byte) /\ ~(Len(p) > MAX_KEY_LEN)
    /\ tree.nodes = <<>> \/ (Tree(tree.nodes) /\ Settled(tree.nodes))

LEMMA NewTreeSound == Sound(NewTree) /\ Contents(NewTree) = <<>>
<1>1. NewTree = [nodes |-> <<>>, size |-> 0]
  BY DEF NewTree
<1>2. Contents(NewTree) = <<>>
  BY DEF Contents, NewTree
<1>3. Cardinality({}) = 0 /\ IsFiniteSet({}) /\ DOMAIN <<>> = {}
  BY FS_EmptySet
<1> DEFINE none == DOMAIN Contents(NewTree)
<1>4. IsFiniteSet(none) /\ Cardinality(none) = 0
  BY <1>2, <1>3
<1> HIDE DEF none
<1>5. NewTree.size \in Nat /\ Cardinality(none) <= NewTree.size /\ NewTree.nodes = <<>>
  BY <1>1, <1>4
<1>6. NewTree = [nodes |-> NewTree.nodes, size |-> NewTree.size]
  BY <1>1
<1>7. Sound(NewTree)
  BY <1>2, <1>3, <1>4, <1>5, <1>6 DEF Sound, none
<1> QED BY <1>2, <1>7

LEMMA InsertIs ==
    ASSUME NEW tree, Sound(tree), NEW key \in Seq(Byte), NEW value,
           NEW m, m = Insert(tree, key, value)
    PROVE  /\ Sound(m)
           /\ IF Len(key) > MAX_KEY_LEN THEN m = tree
              ELSE /\ Contents(m) = PutInto(Contents(tree), key, value)
                   /\ m.size = tree.size + 1
<1> DEFINE rooted == IF tree.nodes = <<>> THEN [root \in {<<>>} |-> NewNode(<<>>)]
                     ELSE tree.nodes
           grown == InsertRecursive(rooted, key, value)
<1>1. Contents(tree) = MapOf(tree.nodes)
  BY DEF Contents, MapOf, Leaves
<1>2. CASE Len(key) > MAX_KEY_LEN
  BY <1>2 DEF Insert
<1>3. CASE ~(Len(key) > MAX_KEY_LEN)
  <2>1. m = [nodes |-> grown, size |-> tree.size + 1]
    BY <1>3 DEF Insert
  <2> HIDE DEF grown
  <2>2. Contents(m) = MapOf(m.nodes) /\ m.nodes = grown /\ m.size = tree.size + 1
    BY <2>1 DEF Contents, MapOf, Leaves
  <2>3. Tree(rooted) /\ (Settled(rooted) \/ DOMAIN rooted = {<<>>})
        /\ MapOf(rooted) = Contents(tree)
    <3>1. CASE tree.nodes = <<>>
      <4> DEFINE fresh == [root \in {<<>>} |-> NewNode(<<>>)]
      <4>1. rooted = fresh /\ DOMAIN fresh = {<<>>} /\ fresh[<<>>] = NewNode(<<>>)
        BY <3>1
      <4>2. /\ <<>> \in Seq(Byte) /\ Len(<<>>) = 0 /\ IsFiniteSet({<<>>})
            /\ \A b \in Byte : Append(<<>>, b) # <<>> /\ ~Contains(<<>>, b)
        <5>1. \A b \in Byte : ~Contains(<<>>, b)
          BY DEF Contains
        <5>2. <<>> \in Seq(Byte) /\ Len(<<>>) = 0
          OBVIOUS
        <5>3. \A b \in Byte : Append(<<>>, b) # <<>>
          BY <5>2, AppendPath
        <5> QED BY <5>1, <5>2, <5>3, FS_Singleton
      <4>3. NewNode(<<>>) = [kind |-> "Node4", keys |-> <<>>, value |-> 0] /\ "Node4" \in InnerKinds
        BY DEF NewNode, InnerKinds
      <4>4. Capacity["Node4"] \in Nat
        BY <4>3, RadixTreeAssumption
      <4>5. IsNode(NewNode(<<>>))
        <5> DEFINE n == NewNode(<<>>)
        <5>1. n = [kind |-> "Node4", keys |-> <<>>, value |-> 0]
          BY <4>3
        <5> HIDE DEF n
        <5>2. n.kind = "Node4" /\ n.keys = <<>> /\ n.value = 0 /\ 0 <= Capacity["Node4"]
          BY <4>4, <5>1
        <5>3. \A i, j \in 1..Len(n.keys) : n.keys[i] = n.keys[j] => i = j
          BY <4>2, <5>2
        <5> QED BY <4>2, <4>3, <5>1, <5>2, <5>3 DEF IsNode, n
      <4>6. \A d \in Nat : d <= 0 => PathTo(<<>>, d) = <<>>
        <5>1. \A d \in Nat : d <= 0 => d = 0
          OBVIOUS
        <5> QED BY <4>2, <5>1, PathWhole
      <4> HIDE DEF fresh
      <4>7. Tree(fresh)
        <5>1. \A p \in DOMAIN fresh : p = <<>> /\ fresh[p] = NewNode(<<>>) /\ Len(p) = 0
          BY <4>1, <4>2
        <5>2. \A p \in DOMAIN fresh, d \in Nat : d <= Len(p) => PathTo(p, d) \in DOMAIN fresh
          BY <4>1, <4>6, <5>1
        <5>3. NewNode(<<>>).keys = <<>>
          BY <4>3
        <5>4. \A p \in DOMAIN fresh, b \in Byte :
                 (Append(p, b) \in DOMAIN fresh) <=> Contains(fresh[p].keys, b)
          BY <4>1, <4>2, <5>1, <5>3
        <5> QED BY <4>1, <4>2, <4>5, <5>1, <5>2, <5>4 DEF Tree
      <4>8. MapOf(fresh) = Contents(tree)
        <5>1. NewNode(<<>>).kind # "Leaf"
          BY <4>3
        <5>2. Leaves(fresh) = {}
          BY <4>1, <5>1 DEF Leaves
        <5>3. Leaves(tree.nodes) = {}
          BY <3>1 DEF Leaves
        <5> QED BY <1>1, <5>2, <5>3 DEF MapOf
      <4> HIDE DEF rooted
      <4> QED BY <4>1, <4>7, <4>8
    <3>2. CASE tree.nodes # <<>>
      BY <1>1, <3>2 DEF Sound
    <3> QED BY <3>1, <3>2
  <2> HIDE DEF rooted
  <2>4. Tree(grown) /\ Settled(grown) /\ MapOf(grown) = PutInto(Contents(tree), key, value)
    BY <2>3, InsertRecursiveIs DEF grown
  <2>5. IsFiniteSet(DOMAIN Contents(m)) /\ Cardinality(DOMAIN Contents(m)) <= tree.size + 1
    <3> DEFINE old == DOMAIN Contents(tree)
    <3>1. IsFiniteSet(old) /\ Cardinality(old) <= tree.size /\ tree.size \in Nat
      BY DEF Sound
    <3>2. DOMAIN Contents(m) \in SUBSET (old \cup {key})
      <4>1. Contents(m) = PutInto(Contents(tree), key, value)
        BY <2>2, <2>4
      <4> QED BY <4>1 DEF PutInto
    <3> HIDE DEF old
    <3>3. IsFiniteSet(old \cup {key}) /\ Cardinality(old \cup {key}) <= tree.size + 1
      <4>1. /\ IsFiniteSet(old \cup {key})
            /\ Cardinality(old \cup {key}) = IF key \in old THEN Cardinality(old) ELSE Cardinality(old) + 1
        BY <3>1, FS_AddElement
      <4>2. Cardinality(old) \in Nat
        BY <3>1, FS_CardinalityType
      <4> QED BY <3>1, <4>1, <4>2
    <3>4. IsFiniteSet(DOMAIN Contents(m)) /\ Cardinality(DOMAIN Contents(m)) <= Cardinality(old \cup {key})
      BY <3>2, <3>3, FS_Subset
    <3>5. Cardinality(DOMAIN Contents(m)) \in Nat /\ Cardinality(old \cup {key}) \in Nat
      BY <3>3, <3>4, FS_CardinalityType
    <3> QED BY <3>1, <3>3, <3>4, <3>5
  <2>6. m = [nodes |-> m.nodes, size |-> m.size] /\ m.size \in Nat
    BY <2>1, <2>2 DEF Sound
  <2>8. ASSUME NEW p \in DOMAIN Contents(m) PROVE p \in Seq(Byte) /\ ~(Len(p) > MAX_KEY_LEN)
    <3>1. Contents(m) = PutInto(Contents(tree), key, value)
      BY <2>2, <2>4
    <3>2. p \in DOMAIN Contents(tree) \/ p = key
      BY <3>1 DEF PutInto
    <3> QED BY <1>3, <3>2 DEF Sound
  <2>7. Sound(m)
    BY <2>2, <2>4, <2>5, <2>6, <2>8 DEF Sound
  <2> QED BY <1>3, <2>2, <2>4, <2>7
<1> QED BY <1>2, <1>3

(* A key finds the value it has in the map, and no other key finds anything.   *)
LEMMA GetIs ==
    ASSUME NEW tree, Sound(tree), NEW key \in Seq(Byte)
    PROVE  Get(tree, key) = IF key \in DOMAIN Contents(tree)
                            THEN <<Contents(tree)[key]>> ELSE <<>>
<1> DEFINE nodes == tree.nodes
           s == Stop(nodes, key)
           path == PathTo(key, s)
<1>1. DOMAIN Contents(tree) = Leaves(nodes) /\ \A p \in Leaves(nodes) : Contents(tree)[p] = nodes[p].value
  BY DEF Contents, Leaves
<1>2. CASE nodes = <<>>
  <2>1. Get(tree, key) = <<>>
    BY <1>2 DEF Get
  <2>2. Leaves(nodes) = {}
    BY <1>2 DEF Leaves
  <2> QED BY <1>1, <2>1, <2>2
<1>3. CASE nodes # <<>>
  <2>1. Tree(nodes)
    BY <1>3 DEF Sound
  <2>2. /\ s \in 0..Len(key) /\ path \in DOMAIN nodes /\ Len(path) = s
        /\ \A p \in Leaves(nodes) : IsPrefix(p, key) => p = path
    BY <2>1, LeavesOnTheWay
  <2>3. Get(tree, key) = IF nodes[path].kind = "Leaf" /\ s = Len(key)
                         THEN <<nodes[path].value>> ELSE <<>>
    BY <1>3 DEF Get
  <2>4. PathTo(key, Len(key)) = key /\ IsPrefix(key, key)
    BY PathWhole DEF IsPrefix
  <2> HIDE DEF nodes, s
  <2>5. s = Len(key) => path = key
    BY <2>4
  <2>6. path = key => s = Len(key)
    BY <2>2
  <2> HIDE DEF path
  <2>7. key \in Leaves(nodes) <=> (nodes[path].kind = "Leaf" /\ s = Len(key))
    BY <2>2, <2>4, <2>5, <2>6 DEF Leaves
  <2> QED BY <1>1, <2>3, <2>5, <2>7 DEF nodes
<1> QED BY <1>2, <1>3
-------------------------------------------------------------------------------
(* Written and read back.  Leaves are not prefixes of each other, so that any  *)
(* two part at one depth, where both have a child of the same node.            *)
LEMMA LeavesPart ==
    ASSUME NEW nodes, Tree(nodes), NEW p \in Leaves(nodes), NEW q \in Leaves(nodes), p # q
    PROVE  \E i \in Nat \ {0} :
              /\ i <= Len(p) /\ i <= Len(q) /\ p[i] # q[i]
              /\ \A d \in 0..(i - 1) : PathTo(p, d) = PathTo(q, d)
              /\ \A j \in 1..(i - 1) : p[j] = q[j]
              /\ PathTo(p, i - 1) \in DOMAIN nodes
              /\ nodes[PathTo(p, i - 1)].kind # "Leaf"
              /\ Contains(nodes[PathTo(p, i - 1)].keys, p[i]) /\ p[i] \in Byte
              /\ Contains(nodes[PathTo(p, i - 1)].keys, q[i]) /\ q[i] \in Byte
<1>1. /\ p \in DOMAIN nodes /\ q \in DOMAIN nodes /\ p \in Seq(Byte) /\ q \in Seq(Byte)
      /\ nodes[p].kind = "Leaf" /\ nodes[q].kind = "Leaf"
  BY DEF Leaves, Tree
<1>2. Len(p) \in Nat /\ Len(q) \in Nat /\ PathTo(p, Len(p)) = p /\ PathTo(q, Len(q)) = q
  BY <1>1, PathWhole
<1> DEFINE Apart == {d \in Nat : d <= Len(p) /\ d <= Len(q) /\ PathTo(p, d) # PathTo(q, d)}
<1>3. Apart # {}
  <2> SUFFICES ASSUME Apart = {} PROVE FALSE
    OBVIOUS
  <2>1. \A d \in Nat : d <= Len(p) /\ d <= Len(q) => PathTo(p, d) = PathTo(q, d)
    OBVIOUS
  <2>2. CASE Len(p) <= Len(q)
    <3>1. PathTo(q, Len(p)) = p /\ Len(p) # Len(q)
      BY <1>2, <2>1, <2>2
    <3>2. Len(p) \in 0..(Len(q) - 1)
      BY <1>2, <2>2, <3>1
    <3> QED BY <1>1, <3>1, <3>2, InnerAbove
  <2>3. CASE ~(Len(p) <= Len(q))
    <3>1. Len(q) <= Len(p) /\ Len(q) \in 0..(Len(p) - 1)
      BY <1>2, <2>3
    <3>2. PathTo(p, Len(q)) = q
      BY <1>2, <2>1, <3>1
    <3> QED BY <1>1, <3>1, <3>2, InnerAbove
  <2> QED BY <2>2, <2>3
<1>4. PICK i \in Apart : \A d \in Apart : i <= d
  <2>1. Apart \in SUBSET Nat
    OBVIOUS
  <2> HIDE DEF Apart
  <2> QED BY <1>3, <2>1, LeastNumber
<1>5. /\ i \in Nat /\ i <= Len(p) /\ i <= Len(q) /\ PathTo(p, i) # PathTo(q, i)
  OBVIOUS
<1>6. i # 0
  BY <1>1, <1>5, PathWhole
<1>7. \A d \in 0..(i - 1) : PathTo(p, d) = PathTo(q, d)
  <2>1. \A d \in 0..(i - 1) : d \in Nat /\ d <= Len(p) /\ d <= Len(q) /\ ~(i <= d)
    BY <1>2, <1>5
  <2> QED BY <1>4, <2>1
<1> HIDE DEF Apart
<1>8. i - 1 \in 0..(Len(p) - 1) /\ i - 1 \in 0..(Len(q) - 1) /\ (i - 1) + 1 = i /\ i - 1 \in 0..(i - 1)
  BY <1>2, <1>5, <1>6
<1>9. /\ p[i] \in Byte /\ Append(PathTo(p, i - 1), p[i]) = PathTo(p, i)
      /\ q[i] \in Byte /\ Append(PathTo(q, i - 1), q[i]) = PathTo(q, i)
  <2>1. p[(i - 1) + 1] \in Byte /\ Append(PathTo(p, i - 1), p[(i - 1) + 1]) = PathTo(p, (i - 1) + 1)
    BY <1>1, <1>8, PathStep
  <2>2. q[(i - 1) + 1] \in Byte /\ Append(PathTo(q, i - 1), q[(i - 1) + 1]) = PathTo(q, (i - 1) + 1)
    BY <1>1, <1>8, PathStep
  <2> QED BY <1>8, <2>1, <2>2
<1>10. p[i] # q[i]
  BY <1>5, <1>7, <1>8, <1>9
<1>11. /\ PathTo(p, i - 1) \in DOMAIN nodes /\ nodes[PathTo(p, i - 1)].kind # "Leaf"
       /\ Contains(nodes[PathTo(p, i - 1)].keys, p[i])
  <2>1. /\ PathTo(p, i - 1) \in DOMAIN nodes /\ nodes[PathTo(p, i - 1)].kind # "Leaf"
        /\ Contains(nodes[PathTo(p, i - 1)].keys, p[(i - 1) + 1])
    BY <1>1, <1>8, InnerAbove
  <2> QED BY <1>8, <2>1
<1>12. Contains(nodes[PathTo(p, i - 1)].keys, q[i])
  <2>1. Contains(nodes[PathTo(q, i - 1)].keys, q[(i - 1) + 1])
    BY <1>1, <1>8, InnerAbove
  <2> QED BY <1>7, <1>8, <2>1
<1>13. \A j \in 1..(i - 1) : p[j] = q[j]
  <2> SUFFICES ASSUME NEW j \in 1..(i - 1) PROVE p[j] = q[j]
    OBVIOUS
  <2>1. i - 1 \in 0..Len(p) /\ i - 1 \in 0..Len(q)
    BY <1>2, <1>8
  <2>2. PathTo(p, i - 1)[j] = p[j] /\ PathTo(q, i - 1)[j] = q[j]
    BY <1>1, <2>1, PathFacts
  <2> QED BY <1>7, <1>8, <2>2
<1> QED BY <1>5, <1>6, <1>7, <1>9, <1>10, <1>11, <1>12, <1>13

(* The children of a node are ranked without ties.                             *)
LEMMA RankDistinct ==
    ASSUME NEW n, IsNode(n), NEW b, Contains(n.keys, b), NEW c, Contains(n.keys, c), b # c
    PROVE  Rank(n, b) \in Int /\ Rank(n, c) \in Int /\ Rank(n, b) # Rank(n, c)
<1>1. n.keys \in Seq(Byte) /\ DOMAIN n.keys = 1..Len(n.keys)
  BY LenProperties DEF IsNode
<1>2. /\ b \in Byte /\ \E i \in DOMAIN n.keys : n.keys[i] = b
      /\ c \in Byte /\ \E i \in DOMAIN n.keys : n.keys[i] = c
  BY <1>1, ElementOfSeq DEF Contains
<1>3. CASE n.kind \in {"Node4", "Node16"}
  <2> DEFINE i == CHOOSE i \in DOMAIN n.keys : n.keys[i] = b
             j == CHOOSE j \in DOMAIN n.keys : n.keys[j] = c
  <2>1. i \in DOMAIN n.keys /\ n.keys[i] = b /\ j \in DOMAIN n.keys /\ n.keys[j] = c
    BY <1>2
  <2>2. Rank(n, b) = i /\ Rank(n, c) = j
    BY <1>3 DEF Rank
  <2> HIDE DEF i, j
  <2>3. Len(n.keys) \in Nat /\ i \in Int /\ j \in Int
    BY <1>1, <2>1, LenProperties
  <2> QED BY <2>1, <2>2, <2>3
<1>4. CASE n.kind \notin {"Node4", "Node16"}
  <2>1. Rank(n, b) = b /\ Rank(n, c) = c
    BY <1>4 DEF Rank
  <2>2. b \in Int /\ c \in Int
    BY <1>2 DEF Byte
  <2> QED BY <2>1, <2>2
<1> QED BY <1>3, <1>4

(* Before compares two leaves where they part.                                 *)
LEMMA BeforeIs ==
    ASSUME NEW nodes, NEW p, NEW q, NEW i \in Nat \ {0},
           Len(p) \in Nat, i <= Len(p), p[i] # q[i],
           PathTo(p, i - 1) = PathTo(q, i - 1), \A j \in 1..(i - 1) : p[j] = q[j],
           \A j \in Nat \ {0} : j <= Len(p) /\ PathTo(p, j - 1) = PathTo(q, j - 1) => ~(i < j)
    PROVE  LET node == nodes[PathTo(p, i - 1)]
           IN Before(nodes, p, q) = (Rank(node, p[i]) < Rank(node, q[i]))
<1> DEFINE P(j) == p[j] # q[j] /\ PathTo(p, j - 1) = PathTo(q, j - 1)
           at == CHOOSE j \in 1..Len(p) : P(j)
<1>1. i \in 1..Len(p) /\ P(i)
  OBVIOUS
<1>2. ASSUME NEW j \in 1..Len(p), P(j) PROVE j = i
  <2>1. j \in Nat \ {0} /\ j <= Len(p)
    OBVIOUS
  <2>2. ~(i < j)
    BY <1>2, <2>1
  <2>3. ~(j < i)
    <3> SUFFICES ASSUME j < i PROVE FALSE
      OBVIOUS
    <3>1. j \in 1..(i - 1)
      BY <2>1
    <3> QED BY <1>2, <3>1
  <2> QED BY <2>1, <2>2, <2>3
<1>3. at = i
  <2> HIDE DEF P
  <2> QED BY <1>1, <1>2
<1>4. Before(nodes, p, q) = (Rank(nodes[PathTo(p, at - 1)], p[at]) < Rank(nodes[PathTo(p, at - 1)], q[at]))
  BY DEF Before
<1> HIDE DEF at
<1> QED BY <1>3, <1>4

(* Leaves p and q part at byte i, and the children there decide their order.   *)
Parted(nodes, p, q, i) ==
    /\ i \in Nat \ {0} /\ p[i] # q[i]
    /\ \A d \in 0..(i - 1) : PathTo(p, d) = PathTo(q, d)
    /\ \A j \in 1..(i - 1) : p[j] = q[j]
    /\ Rank(nodes[PathTo(p, i - 1)], p[i]) \in Int
    /\ Rank(nodes[PathTo(p, i - 1)], q[i]) \in Int
    /\ Rank(nodes[PathTo(p, i - 1)], p[i]) # Rank(nodes[PathTo(p, i - 1)], q[i])
    /\ Before(nodes, p, q) <=>
          Rank(nodes[PathTo(p, i - 1)], p[i]) < Rank(nodes[PathTo(p, i - 1)], q[i])
    /\ Before(nodes, q, p) <=>
          Rank(nodes[PathTo(p, i - 1)], q[i]) < Rank(nodes[PathTo(p, i - 1)], p[i])

LEMMA PathByte ==
    ASSUME NEW s, NEW n \in Nat, NEW i \in 1..n
    PROVE  PathTo(s, n)[i] = s[i]
<1> DEFINE S == {s[k] : k \in 1..n}
<1>1. 1 \in Int /\ n \in Int /\ \A k \in 1..n : s[k] \in S
  OBVIOUS
<1> HIDE DEF S
<1>2. \A k \in 1..(n - 1 + 1) : SubSeq(s, 1, n)[k] = s[1 + k - 1]
  BY <1>1, SubSeqProperties
<1>3. n - 1 + 1 = n /\ 1 + i - 1 = i
  OBVIOUS
<1> QED BY <1>2, <1>3 DEF PathTo

LEMMA LeavesParted ==
    ASSUME NEW nodes, Tree(nodes), NEW p \in Leaves(nodes), NEW q \in Leaves(nodes), p # q
    PROVE  \E i : Parted(nodes, p, q, i)
<1>1. Len(p) \in Nat /\ Len(q) \in Nat
  <2>1. p \in Seq(Byte) /\ q \in Seq(Byte)
    BY DEF Leaves, Tree
  <2> QED BY <2>1, PathWhole
<1>2. PICK i \in Nat \ {0} :
         /\ i <= Len(p) /\ i <= Len(q) /\ p[i] # q[i]
         /\ \A d \in 0..(i - 1) : PathTo(p, d) = PathTo(q, d)
         /\ \A j \in 1..(i - 1) : p[j] = q[j]
         /\ PathTo(p, i - 1) \in DOMAIN nodes
         /\ nodes[PathTo(p, i - 1)].kind # "Leaf"
         /\ Contains(nodes[PathTo(p, i - 1)].keys, p[i]) /\ p[i] \in Byte
         /\ Contains(nodes[PathTo(p, i - 1)].keys, q[i]) /\ q[i] \in Byte
  BY LeavesPart
<1> DEFINE node == nodes[PathTo(p, i - 1)]
<1>3. i - 1 \in 0..(i - 1) /\ PathTo(p, i - 1) = PathTo(q, i - 1)
  BY <1>2
<1>4. IsNode(node)
  BY <1>2 DEF Tree
<1>5. Rank(node, p[i]) \in Int /\ Rank(node, q[i]) \in Int /\ Rank(node, p[i]) # Rank(node, q[i])
  <2> HIDE DEF node
  <2>1. Contains(node.keys, p[i]) /\ Contains(node.keys, q[i]) /\ p[i] # q[i]
    BY <1>2 DEF node
  <2> QED BY <1>4, <2>1, RankDistinct
<1>6. \A j \in Nat \ {0} : PathTo(p, j - 1) = PathTo(q, j - 1) => ~(i < j)
  <2> SUFFICES ASSUME NEW j \in Nat \ {0}, PathTo(p, j - 1) = PathTo(q, j - 1), i < j PROVE FALSE
    OBVIOUS
  <2>1. j - 1 \in Nat /\ i \in 1..(j - 1)
    BY <1>2
  <2>2. PathTo(p, j - 1)[i] = p[i] /\ PathTo(q, j - 1)[i] = q[i]
    BY <2>1, PathByte
  <2> QED BY <1>2, <2>2
<1>7. Before(nodes, p, q) = (Rank(node, p[i]) < Rank(node, q[i]))
  BY <1>1, <1>2, <1>3, <1>6, BeforeIs
<1>8. Before(nodes, q, p) = (Rank(node, q[i]) < Rank(node, p[i]))
  <2>1. /\ q[i] # p[i] /\ PathTo(q, i - 1) = PathTo(p, i - 1) /\ \A j \in 1..(i - 1) : q[j] = p[j]
        /\ \A j \in Nat \ {0} : j <= Len(q) /\ PathTo(q, j - 1) = PathTo(p, j - 1) => ~(i < j)
    BY <1>2, <1>3, <1>6
  <2>2. Before(nodes, q, p) = (Rank(nodes[PathTo(q, i - 1)], q[i]) < Rank(nodes[PathTo(q, i - 1)], p[i]))
    BY <1>1, <1>2, <2>1, BeforeIs
  <2> QED BY <1>3, <2>2
<1> QED BY <1>2, <1>5, <1>7, <1>8 DEF Parted

LEMMA BeforeTransitive ==
    ASSUME NEW nodes, Tree(nodes), NEW p \in Leaves(nodes), NEW q \in Leaves(nodes),
           NEW r \in Leaves(nodes), p # q, q # r, Before(nodes, p, q), Before(nodes, q, r)
    PROVE  p # r /\ Before(nodes, p, r)
<1>1. PICK i : Parted(nodes, p, q, i)
  BY LeavesParted
<1>2. PICK j : Parted(nodes, q, r, j)
  BY LeavesParted
<1>3. i \in Nat \ {0} /\ j \in Nat \ {0}
  BY <1>1, <1>2 DEF Parted
<1> DEFINE R(x, d) == Rank(nodes[PathTo(p, d - 1)], x)
<1>4. /\ R(p[i], i) \in Int /\ R(q[i], i) \in Int /\ R(p[i], i) < R(q[i], i)
      /\ p[i] # q[i] /\ \A d \in 1..(i - 1) : p[d] = q[d]
      /\ \A d \in 0..(i - 1) : PathTo(p, d) = PathTo(q, d)
      /\ ~Before(nodes, q, p)
  BY <1>1 DEF Parted
<1>5. p # r
  BY <1>4
<1>6. PICK k : Parted(nodes, p, r, k)
  BY <1>5, LeavesParted
<1>7. /\ k \in Nat \ {0} /\ p[k] # r[k] /\ \A d \in 1..(k - 1) : p[d] = r[d]
      /\ R(p[k], k) \in Int /\ R(r[k], k) \in Int
      /\ Before(nodes, p, r) <=> R(p[k], k) < R(r[k], k)
  BY <1>6 DEF Parted
<1>8. /\ q[j] # r[j] /\ \A d \in 1..(j - 1) : q[d] = r[d]
      /\ Rank(nodes[PathTo(q, j - 1)], q[j]) \in Int /\ Rank(nodes[PathTo(q, j - 1)], r[j]) \in Int
      /\ Rank(nodes[PathTo(q, j - 1)], q[j]) < Rank(nodes[PathTo(q, j - 1)], r[j])
  BY <1>2 DEF Parted
<1>9. j <= i => PathTo(p, j - 1) = PathTo(q, j - 1)
  <2> SUFFICES ASSUME j <= i PROVE PathTo(p, j - 1) = PathTo(q, j - 1)
    OBVIOUS
  <2>1. j - 1 \in 0..(i - 1)
    BY <1>3
  <2> QED BY <1>4, <2>1
<1>10. \A a, b \in Nat \ {0} : a < b => a \in 1..(b - 1)
  OBVIOUS
<1>11. \A a, b \in Nat \ {0} : a < b \/ b < a \/ a = b
  OBVIOUS
<1>12. ~(k < i /\ k < j)
  BY <1>3, <1>4, <1>7, <1>8, <1>10
<1>13. CASE i < j
  <2>1. q[i] = r[i]
    BY <1>3, <1>8, <1>10, <1>13
  <2>2. ~(i < k)
    BY <1>3, <1>4, <1>7, <1>10, <2>1
  <2>3. k = i
    <3>1. k < i => k < j
      BY <1>3, <1>7, <1>13
    <3> QED BY <1>3, <1>7, <1>11, <1>12, <2>2, <3>1
  <2> QED BY <1>4, <1>5, <1>7, <2>1, <2>3
<1>14. CASE j < i
  <2>1. p[j] = q[j]
    BY <1>3, <1>4, <1>10, <1>14
  <2>2. ~(j < k)
    BY <1>3, <1>7, <1>8, <1>10, <2>1
  <2>3. k = j
    <3>1. k < j => k < i
      BY <1>3, <1>7, <1>14
    <3> QED BY <1>3, <1>7, <1>11, <1>12, <2>2, <3>1
  <2>4. PathTo(p, j - 1) = PathTo(q, j - 1)
    <3>1. j <= i
      BY <1>3, <1>14
    <3> QED BY <1>9, <3>1
  <2>5. R(p[k], k) < R(r[k], k)
    BY <1>8, <2>1, <2>3, <2>4
  <2> QED BY <1>5, <1>7, <2>5
<1>15. CASE i = j
  <2>1. PathTo(p, i - 1) = PathTo(q, i - 1)
    <3>1. j <= i
      BY <1>3, <1>15
    <3> QED BY <1>9, <1>15, <3>1
  <2>2. R(q[i], i) < R(r[i], i) /\ R(r[i], i) \in Int
    BY <1>8, <1>15, <2>1
  <2>3. R(p[i], i) < R(r[i], i)
    <3> HIDE DEF R
    <3> QED BY <1>4, <2>2
  <2>4. p[i] # r[i]
    <3>1. R(p[i], i) # R(r[i], i)
      <4> HIDE DEF R
      <4> QED BY <1>4, <2>2, <2>3
    <3> QED BY <3>1
  <2>5. ~(i < k)
    BY <1>3, <1>7, <1>10, <2>4
  <2>6. k = i
    BY <1>3, <1>7, <1>11, <1>12, <1>15, <2>5
  <2> QED BY <1>5, <1>7, <2>3, <2>6
<1> QED BY <1>3, <1>11, <1>13, <1>14, <1>15

(* Written, every leaf of the tree is there once with its value.               *)
LEMMA CollectEntriesIs ==
    ASSUME NEW nodes, Tree(nodes), NEW e, e = CollectEntries(nodes)
    PROVE  LET n == Cardinality(Leaves(nodes))
           IN \E g \in [1..n -> Leaves(nodes)] :
                 /\ n \in Nat
                 /\ e = [i \in 1..n |-> <<g[i], nodes[g[i]].value>>]
                 /\ \A p \in Leaves(nodes) : \E i \in 1..n : g[i] = p
                 /\ \A i, j \in 1..n : g[i] = g[j] => i = j
<1> DEFINE L == {p \in DOMAIN nodes : nodes[p].kind = "Leaf"}
           n == Cardinality(L)
           below == [p \in L |-> {q \in L \ {p} : Before(nodes, q, p)}]
           Nth(i) == CHOOSE p \in L : Cardinality({q \in L \ {p} : Before(nodes, q, p)}) = i - 1
           g == [i \in 1..n |-> Nth(i)]
<1>1. Leaves(nodes) = L
  BY DEF Leaves
<1>2. IsFiniteSet(L) /\ n \in Nat
  <2>1. IsFiniteSet(L)
    BY FS_Subset DEF Tree
  <2> HIDE DEF L
  <2> QED BY <2>1, FS_CardinalityType
<1>3. e = [i \in 1..n |-> <<Nth(i), nodes[Nth(i)].value>>]
  BY DEF CollectEntries
<1>4. /\ below \in [L -> SUBSET L]
      /\ \A x \in L : x \notin below[x]
      /\ \A x, y \in L : x \in below[y] => below[x] \subseteq below[y]
      /\ \A x, y \in L : x # y => x \in below[y] \/ y \in below[x]
  <2> HIDE DEF L
  <2>1. \A x, y \in L : x \in below[y] <=> (x # y /\ Before(nodes, x, y))
    OBVIOUS
  <2>2. ASSUME NEW x \in L, NEW y \in L, x \in below[y] PROVE below[x] \subseteq below[y]
    <3> SUFFICES ASSUME NEW z \in below[x] PROVE z \in below[y]
      OBVIOUS
    <3>1. z \in L /\ z # x /\ Before(nodes, z, x) /\ x # y /\ Before(nodes, x, y)
      BY <2>1, <2>2
    <3>2. z # y /\ Before(nodes, z, y)
      BY <1>1, <3>1, BeforeTransitive
    <3> QED BY <2>1, <3>1, <3>2
  <2>3. ASSUME NEW x \in L, NEW y \in L, x # y PROVE x \in below[y] \/ y \in below[x]
    <3>1. PICK i : Parted(nodes, x, y, i)
      BY <1>1, <2>3, LeavesParted
    <3>2. Before(nodes, x, y) \/ Before(nodes, y, x)
      <4>1. \A a, b \in Int : a # b => a < b \/ b < a
        OBVIOUS
      <4> QED BY <3>1, <4>1 DEF Parted
    <3> QED BY <2>1, <2>3, <3>2
  <2>4. below \in [L -> SUBSET L] /\ \A x \in L : x \notin below[x]
    OBVIOUS
  <2> HIDE DEF below
  <2> QED BY <2>2, <2>3, <2>4
<1> HIDE DEF L
<1>5. /\ \A x \in L : Cardinality(below[x]) \in 0..(n - 1)
      /\ \A x, y \in L : Cardinality(below[x]) = Cardinality(below[y]) => x = y
      /\ \A i \in 1..n : \E x \in L : Cardinality(below[x]) = i - 1
  <2> HIDE DEF below
  <2> QED BY <1>2, <1>4, PlacesAreTaken
<1>6. \A i \in 1..n : g[i] \in L /\ Cardinality(below[g[i]]) = i - 1
  <2> SUFFICES ASSUME NEW i \in 1..n PROVE Nth(i) \in L /\ Cardinality(below[Nth(i)]) = i - 1
    OBVIOUS
  <2>1. \A x \in L : below[x] = {q \in L \ {x} : Before(nodes, q, x)}
    OBVIOUS
  <2>2. \E x \in L : Cardinality({q \in L \ {x} : Before(nodes, q, x)}) = i - 1
    <3> HIDE DEF below, n
    <3> QED BY <1>5, <2>1
  <2>3. Nth(i) \in L /\ Cardinality({q \in L \ {Nth(i)} : Before(nodes, q, Nth(i))}) = i - 1
    BY <2>2
  <2> HIDE DEF below, Nth
  <2> QED BY <2>1, <2>3
<1>7. e = [i \in 1..n |-> <<g[i], nodes[g[i]].value>>] /\ DOMAIN g = 1..n
  <2> HIDE DEF Nth, n
  <2>1. \A i \in 1..n : g[i] = Nth(i)
    OBVIOUS
  <2>2. DOMAIN g = 1..n
    OBVIOUS
  <2> HIDE DEF g
  <2> QED BY <1>3, <2>1, <2>2
<1>8. g \in [1..n -> L]
  <2>1. \A i \in 1..n : Nth(i) \in L
    <3> HIDE DEF below, Nth
    <3> QED BY <1>6
  <2> HIDE DEF Nth, n
  <2> QED BY <2>1
<1> HIDE DEF Nth, below, g
<1>9. \A p \in L : \E i \in 1..n : g[i] = p
  <2> SUFFICES ASSUME NEW p \in L PROVE \E i \in 1..n : g[i] = p
    OBVIOUS
  <2>1. PICK c \in 0..(n - 1) : c = Cardinality(below[p])
    BY <1>5
  <2>2. c + 1 \in 1..n /\ (c + 1) - 1 = c
    BY <1>2, <2>1
  <2>3. g[c + 1] \in L /\ Cardinality(below[g[c + 1]]) = c
    BY <1>6, <2>2
  <2>4. g[c + 1] = p
    BY <1>5, <2>1, <2>3
  <2> QED BY <2>2, <2>4
<1>10. \A i, j \in 1..n : g[i] = g[j] => i = j
  <2> SUFFICES ASSUME NEW i \in 1..n, NEW j \in 1..n, g[i] = g[j] PROVE i = j
    OBVIOUS
  <2>1. i - 1 = j - 1
    BY <1>6
  <2> QED BY <1>2, <2>1
<1> QED BY <1>1, <1>2, <1>7, <1>8, <1>9, <1>10

(* Deserialize follows its recursion: that such a function exists is an        *)
(* induction.                                                                  *)
Rebuilds(f, e) ==
    f = [i \in 0..Len(e) |-> IF i = 0 THEN NewTree ELSE Insert(f[i - 1], e[i][1], e[i][2])]

LEMMA DeserializeRecursion ==
    ASSUME NEW e, Len(e) \in Nat
    PROVE  \E f : Rebuilds(f, e) /\ Deserialize(e) = f[Len(e)]
<1> DEFINE N == Len(e)
           Step(t, i) == Insert(t, e[i][1], e[i][2])
           Fits(f, m) == f = [i \in 0..m |-> IF i = 0 THEN NewTree ELSE Step(f[i - 1], i)]
           T == {m \in Nat : \E f : Fits(f, m)}
           tree == CHOOSE f : Rebuilds(f, e)
<1>1. 0 \in T
  <2>1. Fits([i \in 0..0 |-> NewTree], 0)
    <3>1. \A i \in 0..0 : i = 0
      OBVIOUS
    <3> HIDE DEF Step
    <3> QED BY <3>1
  <2> QED BY <2>1
<1>2. ASSUME NEW m \in Nat, m \in T PROVE m + 1 \in T
  <2>1. PICK g : Fits(g, m)
    BY <1>2
  <2> HIDE DEF Step
  <2> DEFINE f == [i \in 0..(m + 1) |-> IF i = m + 1 THEN Step(g[m], m + 1) ELSE g[i]]
  <2>2. \A i \in 0..(m + 1) : f[i] = IF i = 0 THEN NewTree ELSE Step(f[i - 1], i)
    <3> SUFFICES ASSUME NEW i \in 0..(m + 1)
                 PROVE  f[i] = IF i = 0 THEN NewTree ELSE Step(f[i - 1], i)
      OBVIOUS
    <3>1. CASE i = m + 1
      <4>1. f[i] = Step(g[m], i) /\ i # 0 /\ i - 1 = m /\ m \in 0..(m + 1) /\ m # m + 1
        BY <3>1
      <4>2. f[i - 1] = g[m]
        BY <4>1
      <4> QED BY <4>1, <4>2
    <3>2. CASE i \in 0..m
      <4>1. g[i] = IF i = 0 THEN NewTree ELSE Step(g[i - 1], i)
        BY <2>1, <3>2
      <4>2. i # m + 1 /\ (i # 0 => i - 1 \in 0..(m + 1) /\ i - 1 # m + 1)
        BY <3>2
      <4>3. f[i] = g[i] /\ (i # 0 => f[i - 1] = g[i - 1])
        BY <4>2
      <4> HIDE DEF f
      <4> QED BY <4>1, <4>3
    <3> QED BY <3>1, <3>2
  <2>3. f = [i \in 0..(m + 1) |-> f[i]]
    OBVIOUS
  <2> HIDE DEF f
  <2>4. Fits(f, m + 1)
    BY <2>2, <2>3
  <2> HIDE DEF Fits
  <2> QED BY <2>4
<1>3. N \in T
  <2> HIDE DEF T
  <2> QED BY <1>1, <1>2, InductiveSet
<1>4. \E f : Rebuilds(f, e)
  BY <1>3 DEF Rebuilds
<1>5. Rebuilds(tree, e)
  BY <1>4
<1>6. Deserialize(e) = tree[Len(e)]
  BY DEF Deserialize, Rebuilds
<1> HIDE DEF tree
<1> QED BY <1>5, <1>6

(* The n entries of the keys g with their values, and the tree t they make.    *)
Entries(e, n, g, val) == e = [i \in 1..n |-> <<g[i], val[g[i]]>>]
Restored(t, n, g, val) ==
    Sound(t) /\ t.size = n /\ Contents(t) = [p \in {g[i] : i \in 1..n} |-> val[p]]

(* Entries whose keys are not prefixes of each other come back as they are.    *)
LEMMA RebuildIs ==
    ASSUME NEW n \in Nat, NEW K, NEW val, NEW g \in [1..n -> K],
           \A p \in K : p \in Seq(Byte) /\ ~(Len(p) > MAX_KEY_LEN),
           \A p, q \in K : IsPrefix(p, q) => p = q,
           \A i, j \in 1..n : g[i] = g[j] => i = j,
           NEW e, Entries(e, n, g, val), NEW t, t = Deserialize(e)
    PROVE  Restored(t, n, g, val)
<1> DEFINE Upto(i) == {g[j] : j \in 1..i}
           Done(r, i) == Sound(r) /\ r.size = i /\ Contents(r) = [p \in Upto(i) |-> val[p]]
<1>0. e = [i \in 1..n |-> <<g[i], val[g[i]]>>]
  BY DEF Entries
<1>1. Len(e) = n
  <2>1. e \in Seq({e[i] : i \in 1..n})
    BY <1>0
  <2>2. DOMAIN e = 1..n
    BY <1>0
  <2> QED BY <2>1, <2>2, LenProperties
<1>2. PICK f : Rebuilds(f, e) /\ t = f[n]
  BY <1>1, DeserializeRecursion
<1>3. \A i \in 0..n : f[i] = IF i = 0 THEN NewTree ELSE Insert(f[i - 1], e[i][1], e[i][2])
  <2>1. f = [i \in 0..n |-> IF i = 0 THEN NewTree ELSE Insert(f[i - 1], e[i][1], e[i][2])]
    BY <1>1, <1>2 DEF Rebuilds
  <2> DEFINE body(i) == IF i = 0 THEN NewTree ELSE Insert(f[i - 1], e[i][1], e[i][2])
  <2>2. f = [i \in 0..n |-> body(i)]
    BY <2>1
  <2> HIDE DEF body
  <2>3. \A i \in 0..n : f[i] = body(i)
    BY <2>2
  <2> QED BY <2>3 DEF body
<1> DEFINE T == {i \in Nat : i <= n => Done(f[i], i)}
<1>4. 0 \in T
  <2>1. f[0] = NewTree
    <3>1. 0 \in 0..n
      OBVIOUS
    <3> QED BY <1>3, <3>1
  <2>2. Upto(0) = {}
    OBVIOUS
  <2>3. Contents(NewTree) = [p \in Upto(0) |-> val[p]] /\ NewTree.size = 0
    <3>1. NewTree.nodes = <<>> /\ NewTree.size = 0
      BY DEF NewTree
    <3>2. {p \in DOMAIN NewTree.nodes : NewTree.nodes[p].kind = "Leaf"} = {}
      BY <3>1
    <3>3. DOMAIN Contents(NewTree) = {} /\ Contents(NewTree) = [p \in DOMAIN Contents(NewTree) |-> Contents(NewTree)[p]]
      BY <3>2 DEF Contents
    <3> HIDE DEF Upto
    <3> QED BY <2>2, <3>1, <3>3
  <2>4. Done(f[0], 0)
    BY <2>1, <2>3, NewTreeSound
  <2> HIDE DEF Done
  <2> QED BY <2>4
<1>5. ASSUME NEW i \in Nat, i \in T PROVE i + 1 \in T
  <2> SUFFICES ASSUME i + 1 <= n PROVE Done(f[i + 1], i + 1)
    OBVIOUS
  <2>1. Done(f[i], i) /\ i + 1 \in 1..n /\ i + 1 \in 0..n /\ i + 1 # 0 /\ (i + 1) - 1 = i
    BY <1>5
  <2> DEFINE k == g[i + 1]
             r == f[i + 1]
             old == Contents(f[i])
  <2>2. k \in K /\ e[i + 1][1] = k /\ e[i + 1][2] = val[k]
    BY <1>0, <2>1
  <2>3. r = Insert(f[i], k, val[k])
    BY <1>3, <2>1, <2>2
  <2>4. k \in Seq(Byte) /\ ~(Len(k) > MAX_KEY_LEN)
    BY <2>2
  <2>5. Sound(r) /\ Contents(r) = PutInto(old, k, val[k]) /\ r.size = i + 1
    <3> HIDE DEF k, r
    <3>1. Sound(f[i]) /\ f[i].size = i
      BY <2>1
    <3> QED BY <2>3, <2>4, <3>1, InsertIs
  <2>6. DOMAIN old = Upto(i) /\ \A p \in Upto(i) : old[p] = val[p]
    <3> HIDE DEF Upto
    <3> QED BY <2>1
  <2>7. \A p \in Upto(i) : p \in K /\ p # k
    <3> SUFFICES ASSUME NEW p \in Upto(i) PROVE p \in K /\ p # k
      OBVIOUS
    <3>1. PICK j \in 1..i : p = g[j]
      OBVIOUS
    <3>2. j \in 1..n /\ j # i + 1
      BY <2>1
    <3> QED BY <2>1, <3>1, <3>2
  <2>8. \A p \in Upto(i) : ~IsPrefix(p, k) /\ ~IsPrefix(k, p)
    <3> HIDE DEF Upto, k
    <3> QED BY <2>2, <2>7
  <2>9. Upto(i) \cup {k} = Upto(i + 1)
    <3>1. 1..(i + 1) = (1..i) \cup {i + 1}
      BY <1>5
    <3> QED BY <3>1
  <2> HIDE DEF k, r, old, Upto
  <2>10. PutInto(old, k, val[k]) = [p \in Upto(i) \cup {k} |-> IF p = k THEN val[k] ELSE old[p]]
    <3>1. {p \in DOMAIN old : IsStrictPrefix(p, k)} = {}
      BY <2>6, <2>8 DEF IsStrictPrefix
    <3>2. {p \in DOMAIN old : ~IsPrefix(k, p)} = Upto(i)
      BY <2>6, <2>8
    <3> QED BY <3>1, <3>2 DEF PutInto
  <2>11. PutInto(old, k, val[k]) = [p \in Upto(i + 1) |-> val[p]]
    <3>1. \A p \in Upto(i) \cup {k} : (IF p = k THEN val[k] ELSE old[p]) = val[p]
      BY <2>6
    <3> QED BY <2>9, <2>10, <3>1
  <2> QED BY <2>5, <2>11 DEF r
<1>6. n \in T
  <2> HIDE DEF T
  <2> QED BY <1>4, <1>5, InductiveSet
<1>7. Done(f[n], n)
  BY <1>6
<1> HIDE DEF T
<1> QED BY <1>2, <1>7 DEF Restored

(* Written and read back, a tree stands for the same map.                      *)
LEMMA ReloadKeepsContents ==
    ASSUME NEW tree, Sound(tree), NEW t, t = Deserialize(CollectEntries(tree.nodes))
    PROVE  Sound(t) /\ Contents(t) = Contents(tree) /\ t.size <= tree.size
<1> DEFINE nodes == tree.nodes
           K == Leaves(nodes)
           val == Contents(tree)
           n == Cardinality(K)
           e == CollectEntries(nodes)
<1>1. DOMAIN val = K /\ \A p \in K : val[p] = nodes[p].value
  BY DEF Contents, Leaves
<1>2. n \in Nat /\ n <= tree.size
  <2>1. IsFiniteSet(DOMAIN val) /\ Cardinality(DOMAIN val) <= tree.size
    BY DEF Sound
  <2> HIDE DEF val, K, nodes
  <2> QED BY <1>1, <2>1, FS_CardinalityType
<1>3. \A p \in K : p \in Seq(Byte) /\ ~(Len(p) > MAX_KEY_LEN)
  <2> HIDE DEF K, nodes
  <2> QED BY <1>1 DEF Sound
<1>4. \E g \in [1..n -> K] :
         /\ e = [i \in 1..n |-> <<g[i], val[g[i]]>>]
         /\ {g[i] : i \in 1..n} = K
         /\ \A i, j \in 1..n : g[i] = g[j] => i = j
  <2>1. CASE nodes = <<>>
    <3> DEFINE g == [i \in 1..0 |-> 0]
    <3>1. K = {} /\ n = 0
      BY <2>1, FS_EmptySet DEF Leaves
    <3>2. {p \in DOMAIN nodes : nodes[p].kind = "Leaf"} = {}
      BY <2>1
    <3>3. e = [i \in 1..0 |-> <<g[i], val[g[i]]>>]
      <4>1. Cardinality({}) = 0 /\ 1..0 = {}
        BY FS_EmptySet
      <4>4. /\ DOMAIN e = 1..Cardinality({p \in DOMAIN nodes : nodes[p].kind = "Leaf"})
            /\ e = [i \in DOMAIN e |-> e[i]]
        <5> DEFINE L == {p \in DOMAIN nodes : nodes[p].kind = "Leaf"}
                   Nth(i) == CHOOSE p \in L : Cardinality({q \in L \ {p} : Before(nodes, q, p)}) = i - 1
                   body(i) == <<Nth(i), nodes[Nth(i)].value>>
        <5>1. e = [i \in 1..Cardinality(L) |-> body(i)]
          BY DEF CollectEntries
        <5> HIDE DEF body, e
        <5>2. DOMAIN e = 1..Cardinality(L) /\ e = [i \in DOMAIN e |-> e[i]]
          BY <5>1
        <5> QED BY <5>2
      <4>2. DOMAIN e = 1..Cardinality({}) /\ e = [i \in DOMAIN e |-> e[i]]
        BY <3>2, <4>4
      <4> HIDE DEF e, g, val
      <4>3. DOMAIN e = {}
        BY <4>1, <4>2
      <4> QED BY <4>1, <4>2, <4>3
    <3>4. g \in [1..0 -> K]
      OBVIOUS
    <3> HIDE DEF e, val, K
    <3> QED BY <3>1, <3>3, <3>4
  <2>2. CASE nodes # <<>>
    <3>1. Tree(nodes)
      BY <2>2 DEF Sound
    <3>2. \E g \in [1..n -> K] :
             /\ n \in Nat
             /\ e = [i \in 1..n |-> <<g[i], nodes[g[i]].value>>]
             /\ \A p \in K : \E i \in 1..n : g[i] = p
             /\ \A i, j \in 1..n : g[i] = g[j] => i = j
      <4> HIDE DEF nodes
      <4> QED BY <3>1, CollectEntriesIs
    <3> HIDE DEF K, val, e, n, nodes
    <3>3. PICK g \in [1..n -> K] :
             /\ e = [i \in 1..n |-> <<g[i], nodes[g[i]].value>>]
             /\ \A p \in K : \E i \in 1..n : g[i] = p
             /\ \A i, j \in 1..n : g[i] = g[j] => i = j
      BY <3>2
    <3>4. e = [i \in 1..n |-> <<g[i], val[g[i]]>>]
      BY <1>1, <3>3
    <3>5. {g[i] : i \in 1..n} = K
      BY <3>3
    <3> QED BY <3>3, <3>4, <3>5
  <2> QED BY <2>1, <2>2
<1>5. \A p, q \in K : IsPrefix(p, q) => p = q
  <2> SUFFICES ASSUME NEW p \in K, NEW q \in K, IsPrefix(p, q), p # q PROVE FALSE
    OBVIOUS
  <2>1. Tree(nodes)
    <3>1. nodes # <<>>
      BY DEF Leaves
    <3> QED BY <3>1 DEF Sound
  <2>2. p \in Seq(Byte) /\ q \in Seq(Byte) /\ q \in DOMAIN nodes /\ nodes[p].kind = "Leaf"
    BY <1>3 DEF Leaves
  <2>3. Len(p) <= Len(q) /\ PathTo(q, Len(p)) = p /\ Len(p) \in Nat /\ Len(q) \in Nat
    BY <2>2, PrefixIsPath, PathWhole
  <2>4. Len(p) # Len(q)
    BY <2>2, <2>3, PathWhole
  <2>5. Len(p) \in 0..(Len(q) - 1)
    BY <2>3, <2>4
  <2> HIDE DEF nodes, K
  <2> QED BY <2>1, <2>2, <2>3, <2>5, InnerAbove
<1> HIDE DEF K, val, e, n
<1>6. PICK g \in [1..n -> K] :
         /\ e = [i \in 1..n |-> <<g[i], val[g[i]]>>]
         /\ {g[i] : i \in 1..n} = K
         /\ \A i, j \in 1..n : g[i] = g[j] => i = j
  BY <1>4
<1>7. t = Deserialize(e)
  BY DEF e
<1>8. Sound(t) /\ t.size = n /\ Contents(t) = [p \in {g[i] : i \in 1..n} |-> val[p]]
  <2> HIDE DEF nodes
  <2>1. n \in Nat
    BY <1>2
  <2>2. Entries(e, n, g, val)
    BY <1>6 DEF Entries
  <2>3. Restored(t, n, g, val)
    BY <1>3, <1>5, <1>6, <1>7, <2>1, <2>2, RebuildIs
  <2> QED BY <2>3 DEF Restored
<1>9. Contents(t) = Contents(tree)
  <2>1. Contents(tree) = [p \in DOMAIN Contents(tree) |-> Contents(tree)[p]]
    BY DEF Contents
  <2>2. val = [p \in K |-> val[p]]
    BY <1>1, <2>1 DEF val
  <2> QED BY <1>6, <1>8, <2>2 DEF val
<1> QED BY <1>2, <1>8, <1>9
-------------------------------------------------------------------------------
(* The filters.  A page filter keeps its geometry, the items of the page have  *)
(* all their bits set, and a chunk knows the pages finalized into it until the *)
(* levels are read back.                                                       *)
Sized(size) == [bits : SUBSET (0..(size.bits - 1)), length : {n \in Nat : size.bits <= n},
                num_bits : {size.bits}, num_hash_functions : {size.hashes}, num_items : Nat]
Sizes == {Chosen, Default}
Filter == UNION {Sized(size) : size \in Sizes}

Levels == [size : Sizes, page_filters : UNION {[D -> Filter] : D \in SUBSET PAGES},
           chunk_filters : [{} -> Filter], file_filter : Filter,
           chunk_to_pages : UNION {[D -> Seq(PAGES)] : D \in SUBSET CHUNKS}]

Holds(f, item) == IndexesOf(f, item) \subseteq f.bits

Covers(filters) ==
    \A page \in PAGES, item \in ITEMS : <<page, item>> \in added =>
        page \in DOMAIN filters /\ Holds(filters[page], item)

FiltersInv ==
    /\ added \subseteq PAGES \X ITEMS
    /\ levels \in Levels
    /\ Covers(levels.page_filters)
    /\ ~reloaded => \A page \in PAGES, chunk \in CHUNKS : <<chunk, page>> \in assigned =>
          /\ chunk \in DOMAIN levels.chunk_to_pages
          /\ page \in Range(levels.chunk_to_pages[chunk])

(* The bits of an item are bits of the filter.                                 *)
LEMMA IndexesFit ==
    ASSUME NEW size \in Sizes, NEW f \in Sized(size), NEW item \in ITEMS
    PROVE  IndexesOf(f, item) \subseteq 0..(size.bits - 1)
<1>1. f.num_bits = size.bits /\ f.num_hash_functions = size.hashes
  BY DEF Sized
<1>2. \A h \in Nat : h % size.bits \in 0..(size.bits - 1)
  <2>1. size.bits \in Nat \ {0}
    BY BloomAssumption DEF Sizes
  <2> QED BY <2>1
<1>3. \A seed \in 0..(size.hashes - 1) : HashOf(item, seed) \in Nat
  BY IndexesAssumption DEF Sizes
<1> QED BY <1>1, <1>2, <1>3 DEF IndexesOf

(* A filter that holds an item answers yes, ...                                *)
LEMMA HeldIsFound ==
    ASSUME NEW f \in Filter, NEW item \in ITEMS, Holds(f, item)
    PROVE  MightContain(f, item)
<1>1. PICK size \in Sizes : f \in Sized(size)
  BY DEF Filter
<1>2. \A i \in 0..(size.bits - 1) : i < f.length
  <2>1. f.length \in Nat /\ size.bits <= f.length /\ size.bits \in Nat
    BY <1>1, BloomAssumption DEF Sized, Sizes
  <2> QED BY <2>1
<1> QED BY <1>1, <1>2, IndexesFit DEF MightContain, Holds

(* ... an insertion makes it hold the item and loses none, ...                 *)
LEMMA InsertItemHolds ==
    ASSUME NEW f \in Filter, NEW item \in ITEMS, NEW r, r = InsertItem(f, item)
    PROVE  /\ r \in Filter /\ Holds(r, item)
           /\ \A x \in ITEMS : Holds(f, x) => Holds(r, x)
<1>0. PICK size \in Sizes : f \in Sized(size)
  BY DEF Filter
<1>1. f.num_bits = size.bits /\ f.num_hash_functions = size.hashes
  BY <1>0 DEF Sized
<1>2. /\ r.bits = f.bits \cup IndexesOf(f, item) /\ r.num_bits = size.bits
      /\ r.num_hash_functions = size.hashes
  BY <1>0, <1>1 DEF InsertItem, Sized
<1>3. r \in Filter
  <2>1. f.bits \cup IndexesOf(f, item) \in SUBSET (0..(size.bits - 1))
    BY <1>0, IndexesFit DEF Sized
  <2>2. f.num_items + 1 \in Nat
    BY <1>0 DEF Sized
  <2> HIDE DEF IndexesOf
  <2>3. r \in Sized(size)
    BY <1>0, <2>1, <2>2 DEF InsertItem, Sized
  <2> QED BY <2>3 DEF Filter
<1>4. \A x \in ITEMS : IndexesOf(r, x) = IndexesOf(f, x)
  BY <1>1, <1>2 DEF IndexesOf
<1> QED BY <1>2, <1>3, <1>4 DEF Holds

(* ... and so does writing and reading it back, whose bit vector may be longer.*)
LEMMA ReloadHolds ==
    ASSUME NEW f \in Filter, NEW r, r = DeserializeFilter(SerializeFilter(f))
    PROVE  r \in Filter /\ \A x \in ITEMS : Holds(f, x) => Holds(r, x)
<1>0. PICK size \in Sizes : f \in Sized(size)
  BY DEF Filter
<1>1. f.num_bits = size.bits /\ f.num_hash_functions = size.hashes
  BY <1>0 DEF Sized
<1> DEFINE n == 8 * ((size.bits + 7) \div 8)
<1>2. n \in Nat /\ size.bits <= n
  <2>1. size.bits \in Nat
    BY BloomAssumption DEF Sizes
  <2> QED BY <2>1
<1>3. r = [bits |-> f.bits, length |-> n, num_bits |-> size.bits,
           num_hash_functions |-> size.hashes, num_items |-> f.num_items]
  BY <1>1 DEF DeserializeFilter, SerializeFilter
<1>4. r \in Filter
  <2>1. r \in Sized(size)
    BY <1>0, <1>2, <1>3 DEF Sized
  <2> QED BY <2>1 DEF Filter
<1>5. \A x \in ITEMS : IndexesOf(r, x) = IndexesOf(f, x)
  BY <1>1, <1>3 DEF IndexesOf
<1> QED BY <1>3, <1>4, <1>5 DEF Holds

LEMMA NewFilterIs ==
    ASSUME NEW size \in Sizes
    PROVE  NewFilter(size) \in Filter
<1>1. size.bits \in Nat \ {0}
  BY BloomAssumption DEF Sizes
<1>2. NewFilter(size) \in Sized(size)
  BY <1>1 DEF NewFilter, Sized
<1> QED BY <1>2 DEF Filter

(* Items of other pages are not disturbed by one added to a page.              *)
LEMMA AddToPageCovers ==
    ASSUME levels \in Levels, NEW page \in PAGES, NEW item \in ITEMS, Covers(levels.page_filters),
           NEW m, m = AddToPage(levels, page, item)
    PROVE  /\ m \in Levels /\ m.chunk_to_pages = levels.chunk_to_pages
           /\ \A p \in PAGES, x \in ITEMS :
                <<p, x>> \in added \cup {<<page, item>>} =>
                    p \in DOMAIN m.page_filters /\ Holds(m.page_filters[p], x)
<1> DEFINE old == levels.page_filters
           f == IF page \in DOMAIN old THEN old[page] ELSE NewFilter(levels.size)
           g == InsertItem(f, item)
<1>1. PICK D \in SUBSET PAGES : old \in [D -> Filter]
  BY DEF Levels
<1>2. f \in Filter
  <2>1. levels.size \in Sizes
    BY DEF Levels
  <2> QED BY <1>1, <2>1, NewFilterIs
<1> HIDE DEF f
<1>3. g \in Filter /\ Holds(g, item) /\ \A x \in ITEMS : Holds(f, x) => Holds(g, x)
  BY <1>2, InsertItemHolds
<1> HIDE DEF g
<1>4. m = [levels EXCEPT !.page_filters = With(old, page, g)]
  BY DEF AddToPage, f, g
<1>5. With(old, page, g) \in [D \cup {page} -> Filter]
  BY <1>1, <1>3 DEF With
<1>6. m \in Levels /\ m.chunk_to_pages = levels.chunk_to_pages
      /\ m.page_filters = With(old, page, g)
  BY <1>4, <1>5 DEF Levels
<1>8. /\ DOMAIN m.page_filters = DOMAIN old \cup {page} /\ m.page_filters[page] = g
      /\ \A p \in DOMAIN old : p # page => m.page_filters[p] = old[p]
  BY <1>6 DEF With
<1>7. ASSUME NEW p \in PAGES, NEW x \in ITEMS, <<p, x>> \in added \cup {<<page, item>>}
      PROVE  p \in DOMAIN m.page_filters /\ Holds(m.page_filters[p], x)
  <2>1. CASE p = page /\ x = item
    BY <1>3, <1>8, <2>1
  <2>2. CASE <<p, x>> \in added
    <3>1. p \in DOMAIN old /\ Holds(old[p], x)
      BY <2>2 DEF Covers
    <3>2. CASE p # page
      BY <1>8, <3>1, <3>2
    <3>3. CASE p = page
      <4>1. f = old[p]
        BY <3>1, <3>3 DEF f
      <4> QED BY <1>3, <1>8, <3>1, <3>3, <4>1
    <3> QED BY <3>2, <3>3
  <2> QED BY <1>7, <2>1, <2>2
<1> QED BY <1>6, <1>7

(* A finalized page is known to its chunk.                                     *)
LEMMA FinalizePageKnows ==
    ASSUME levels \in Levels, NEW page \in PAGES, NEW chunk \in CHUNKS,
           NEW m, m = FinalizePage(levels, page, chunk)
    PROVE  /\ m \in Levels /\ m.page_filters = levels.page_filters
           /\ \A c \in DOMAIN levels.chunk_to_pages :
                 /\ c \in DOMAIN m.chunk_to_pages
                 /\ Range(levels.chunk_to_pages[c]) \subseteq Range(m.chunk_to_pages[c])
           /\ page \in DOMAIN levels.page_filters =>
                 /\ chunk \in DOMAIN m.chunk_to_pages
                 /\ page \in Range(m.chunk_to_pages[chunk])
<1> DEFINE old == levels.chunk_to_pages
           pages == IF chunk \in DOMAIN old THEN old[chunk] ELSE <<>>
           longer == Append(pages, page)
<1>1. CASE page \notin DOMAIN levels.page_filters
  BY <1>1 DEF FinalizePage
<1>2. CASE page \in DOMAIN levels.page_filters
  <2>1. PICK D \in SUBSET CHUNKS : old \in [D -> Seq(PAGES)]
    BY DEF Levels
  <2>2. pages \in Seq(PAGES)
    <3>1. <<>> \in Seq(PAGES)
      OBVIOUS
    <3> QED BY <2>1, <3>1
  <2>3. chunk \in DOMAIN old => pages = old[chunk]
    OBVIOUS
  <2> HIDE DEF pages
  <2>4. longer \in Seq(PAGES) /\ page \in Range(longer) /\ Range(pages) \subseteq Range(longer)
    <3>1. /\ longer \in Seq(PAGES) /\ Len(longer) = Len(pages) + 1
          /\ longer[Len(pages) + 1] = page /\ \A i \in 1..Len(pages) : longer[i] = pages[i]
      BY <2>2, AppendProperties
    <3>2. DOMAIN longer = 1..(Len(pages) + 1) /\ DOMAIN pages = 1..Len(pages) /\ Len(pages) \in Nat
      BY <2>2, <3>1
    <3> QED BY <3>1, <3>2 DEF Range
  <2> HIDE DEF longer
  <2>5. m = [levels EXCEPT !.chunk_to_pages = With(old, chunk, longer)]
    BY <1>2 DEF FinalizePage, pages, longer
  <2>6. With(old, chunk, longer) \in [D \cup {chunk} -> Seq(PAGES)]
    BY <2>1, <2>4 DEF With
  <2>7. m \in Levels /\ m.page_filters = levels.page_filters
        /\ m.chunk_to_pages = With(old, chunk, longer)
    BY <2>5, <2>6 DEF Levels
  <2>10. /\ DOMAIN m.chunk_to_pages = DOMAIN old \cup {chunk} /\ m.chunk_to_pages[chunk] = longer
         /\ \A c \in DOMAIN old : c # chunk => m.chunk_to_pages[c] = old[c]
    BY <2>7 DEF With
  <2>8. ASSUME NEW c \in DOMAIN old
        PROVE  /\ c \in DOMAIN m.chunk_to_pages
               /\ Range(old[c]) \subseteq Range(m.chunk_to_pages[c])
    <3>1. CASE c # chunk
      BY <2>10, <3>1
    <3>2. CASE c = chunk
      BY <2>3, <2>4, <2>10, <3>2
    <3> QED BY <3>1, <3>2
  <2>9. chunk \in DOMAIN m.chunk_to_pages /\ page \in Range(m.chunk_to_pages[chunk])
    BY <2>4, <2>10
  <2> QED BY <2>7, <2>8, <2>9
<1> QED BY <1>1, <1>2

(* Read back, the page filters hold what they held.                            *)
LEMMA ReloadedCovers ==
    ASSUME levels \in Levels, Covers(levels.page_filters),
           NEW m, m = DeserializeLevels(SerializeLevels(levels))
    PROVE  m \in Levels /\ Covers(m.page_filters)
<1> DEFINE Again(f) == DeserializeFilter(SerializeFilter(f))
           old == levels.page_filters
<1>1. PICK D \in SUBSET PAGES : old \in [D -> Filter]
  BY DEF Levels
<1>2. \A f \in Filter : Again(f) \in Filter /\ \A x \in ITEMS : Holds(f, x) => Holds(Again(f), x)
  BY ReloadHolds
<1>3. /\ m.page_filters = [p \in DOMAIN old |-> Again(old[p])]
      /\ m.file_filter = Again(levels.file_filter)
      /\ m.chunk_filters = [c \in DOMAIN levels.chunk_filters |-> Again(levels.chunk_filters[c])]
      /\ m.chunk_to_pages = <<>>
      /\ m.size = Default
      /\ m = [size |-> m.size, page_filters |-> m.page_filters, chunk_filters |-> m.chunk_filters,
              file_filter |-> m.file_filter, chunk_to_pages |-> m.chunk_to_pages]
  BY DEF DeserializeLevels, SerializeLevels
<1> HIDE DEF Again
<1>4. m.page_filters \in [D -> Filter] /\ m.file_filter \in Filter
  BY <1>1, <1>2, <1>3 DEF Levels
<1>5. m.chunk_filters \in [{} -> Filter]
  BY <1>3 DEF Levels
<1>6. m.chunk_to_pages \in [{} -> Seq(PAGES)]
  BY <1>3
<1>7. m \in Levels
  BY <1>3, <1>4, <1>5, <1>6 DEF Levels, Sizes
<1>8. Covers(m.page_filters)
  <2> SUFFICES ASSUME NEW p \in PAGES, NEW x \in ITEMS, <<p, x>> \in added
               PROVE  p \in DOMAIN m.page_filters /\ Holds(m.page_filters[p], x)
    BY DEF Covers
  <2>1. p \in DOMAIN old /\ Holds(old[p], x)
    BY DEF Covers
  <2>2. old[p] \in Filter /\ m.page_filters[p] = Again(old[p]) /\ p \in DOMAIN m.page_filters
    BY <1>1, <1>3, <2>1
  <2> QED BY <1>2, <2>1, <2>2
<1> QED BY <1>7, <1>8

LEMMA InitFiltersInv == Init => FiltersInv
<1> SUFFICES ASSUME Init PROVE FiltersInv
  OBVIOUS
<1>1. added = {} /\ assigned = {} /\ levels = NewLevels
  BY DEF Init
<1>2. levels \in Levels
  <2>1. /\ {} \in SUBSET PAGES /\ {} \in SUBSET CHUNKS
        /\ <<>> \in [{} -> Filter] /\ <<>> \in [{} -> Seq(PAGES)]
    OBVIOUS
  <2>2. NewFilter(Chosen) \in Filter /\ Chosen \in Sizes
    BY NewFilterIs DEF Sizes
  <2> QED BY <1>1, <2>1, <2>2 DEF Levels, NewLevels
<1> QED BY <1>1, <1>2 DEF FiltersInv, Covers

LEMMA NextFiltersInv == FiltersInv /\ [Next]_vars => FiltersInv'
<1> SUFFICES ASSUME FiltersInv, [Next]_vars PROVE FiltersInv'
  OBVIOUS
<1>1. /\ levels \in Levels /\ Covers(levels.page_filters) /\ added \subseteq PAGES \X ITEMS
      /\ ~reloaded => \A page \in PAGES, chunk \in CHUNKS : <<chunk, page>> \in assigned =>
             /\ chunk \in DOMAIN levels.chunk_to_pages
             /\ page \in Range(levels.chunk_to_pages[chunk])
  BY DEF FiltersInv
<1>2. ASSUME UNCHANGED <<levels, added, assigned>>, ~reloaded' => ~reloaded PROVE FiltersInv'
  BY <1>1, <1>2 DEF FiltersInv, Covers
<1>3. ASSUME NEW page \in PAGES, NEW item \in ITEMS, AddItem(page, item) PROVE FiltersInv'
  <2>1. /\ levels' = AddToPage(levels, page, item)
        /\ added' = added \cup {<<page, item>>}
        /\ assigned' = assigned /\ reloaded' = reloaded
    BY <1>3, Zenon DEF AddItem
  <2>2. PICK m : m = AddToPage(levels, page, item)
    OBVIOUS
  <2>3. /\ m \in Levels /\ m.chunk_to_pages = levels.chunk_to_pages
        /\ \A p \in PAGES, x \in ITEMS :
             <<p, x>> \in added \cup {<<page, item>>} =>
                 p \in DOMAIN m.page_filters /\ Holds(m.page_filters[p], x)
    BY <1>1, <2>2, AddToPageCovers
  <2>4. levels' = m
    BY <2>1, <2>2
  <2>5. Covers(levels.page_filters)'
    BY <2>1, <2>3, <2>4 DEF Covers
  <2> QED BY <1>1, <2>1, <2>3, <2>4, <2>5 DEF FiltersInv
<1>4. ASSUME NEW page \in PAGES, NEW chunk \in CHUNKS, Finalize(page, chunk) PROVE FiltersInv'
  <2>1. /\ levels' = FinalizePage(levels, page, chunk)
        /\ assigned' = IF page \in DOMAIN levels.page_filters
                       THEN assigned \cup {<<chunk, page>>} ELSE assigned
        /\ added' = added /\ reloaded' = reloaded
    BY <1>4, Zenon DEF Finalize
  <2>2. PICK m : m = FinalizePage(levels, page, chunk)
    OBVIOUS
  <2>3. /\ m \in Levels /\ m.page_filters = levels.page_filters
        /\ \A c \in DOMAIN levels.chunk_to_pages :
              /\ c \in DOMAIN m.chunk_to_pages
              /\ Range(levels.chunk_to_pages[c]) \subseteq Range(m.chunk_to_pages[c])
        /\ page \in DOMAIN levels.page_filters =>
              /\ chunk \in DOMAIN m.chunk_to_pages
              /\ page \in Range(m.chunk_to_pages[chunk])
    BY <1>1, <2>2, FinalizePageKnows
  <2>4. levels' = m
    BY <2>1, <2>2
  <2>5. Covers(levels.page_filters)'
    BY <1>1, <2>1, <2>3, <2>4 DEF Covers
  <2>6. ASSUME ~reloaded', NEW p \in PAGES, NEW c \in CHUNKS, <<c, p>> \in assigned'
        PROVE  c \in DOMAIN m.chunk_to_pages /\ p \in Range(m.chunk_to_pages[c])
    <3>1. CASE <<c, p>> \in assigned
      BY <1>1, <2>1, <2>3, <2>6, <3>1
    <3>2. CASE page \in DOMAIN levels.page_filters /\ c = chunk /\ p = page
      BY <2>3, <3>2
    <3> QED BY <2>1, <2>6, <3>1, <3>2
  <2> QED BY <1>1, <2>1, <2>3, <2>4, <2>5, <2>6 DEF FiltersInv
<1>5. ASSUME ReloadFilters PROVE FiltersInv'
  <2>1. /\ levels' = DeserializeLevels(SerializeLevels(levels)) /\ reloaded' = TRUE
        /\ added' = added
    BY <1>5, Zenon DEF ReloadFilters
  <2>2. PICK m : m = DeserializeLevels(SerializeLevels(levels))
    OBVIOUS
  <2>3. m \in Levels /\ Covers(m.page_filters)
    BY <1>1, <2>2, ReloadedCovers
  <2>4. levels' = m
    BY <2>1, <2>2
  <2>5. Covers(levels.page_filters)'
    BY <2>1, <2>3, <2>4 DEF Covers
  <2> QED BY <1>1, <2>1, <2>3, <2>4, <2>5 DEF FiltersInv
<1>6. ASSUME NEW k \in KEYS, NEW v \in OFFSETS, InsertKey(k, v) PROVE FiltersInv'
  BY <1>2, <1>6, Zenon DEF InsertKey
<1>7. ASSUME NEW name \in DEVICES, NEW tags \in TAGLISTS, AddTagged(name, tags) PROVE FiltersInv'
  BY <1>2, <1>7, Zenon DEF AddTagged
<1>8. ASSUME ReloadTree \/ ReloadTags PROVE FiltersInv'
  BY <1>2, <1>8, Zenon DEF ReloadTree, ReloadTags
<1>9. ASSUME UNCHANGED vars PROVE FiltersInv'
  BY <1>2, <1>9 DEF vars
<1> QED BY <1>3, <1>4, <1>5, <1>6, <1>7, <1>8, <1>9, Zenon DEF Next

(* The filters keep this through every call and reload.                        *)
THEOREM SpecFiltersInv == Spec => []FiltersInv
  BY InitFiltersInv, NextFiltersInv, PTL DEF Spec

(* A filter never misses, whatever the hash functions and however many items   *)
(* collide (BloomFilter::insert, might_contain), after any order of insertions *)
(* and finalizations and after a reload (MultiLevelBloomFilter).               *)
THEOREM SpecFiltersNeverMiss == Spec => []FiltersNeverMiss
<1>1. FiltersInv => FiltersNeverMiss
  <2> SUFFICES ASSUME FiltersInv, NEW p \in PAGES, NEW x \in ITEMS, <<p, x>> \in added
               PROVE  /\ PageMightContain(levels, p, x)
                      /\ FileMightContain(levels, x)
                      /\ \A c \in CHUNKS : <<c, p>> \in assigned /\ ~reloaded
                                           => ChunkMightContain(levels, c, x)
    BY Zenon DEF FiltersNeverMiss
  <2>1. p \in DOMAIN levels.page_filters /\ Holds(levels.page_filters[p], x)
    BY DEF FiltersInv, Covers
  <2>2. levels.page_filters[p] \in Filter
    BY <2>1 DEF FiltersInv, Levels
  <2>3. MightContain(levels.page_filters[p], x)
    BY <2>1, <2>2, HeldIsFound
  <2>4. PageMightContain(levels, p, x) /\ FileMightContain(levels, x)
    BY <2>1, <2>3 DEF PageMightContain, FileMightContain
  <2>5. ASSUME NEW c \in CHUNKS, <<c, p>> \in assigned, ~reloaded
        PROVE  ChunkMightContain(levels, c, x)
    BY <2>4, <2>5 DEF ChunkMightContain, FiltersInv
  <2> QED BY <2>4, <2>5
<1> QED BY <1>1, SpecFiltersInv, PTL
-------------------------------------------------------------------------------
(* The tags.  Every device has the id it was first given and the tags it was   *)
(* added with, and no tag knows a device that was not added with it.           *)
Numbered(ix) ==
    /\ ix.next_device_id \in Nat
    /\ DOMAIN ix.device_id_to_name = 0..(ix.next_device_id - 1)
    /\ \A id \in DOMAIN ix.device_id_to_name :
          /\ ix.device_id_to_name[id] \in DOMAIN ix.device_name_to_id
          /\ ix.device_name_to_id[ix.device_id_to_name[id]] = id
    /\ ix.device_name_to_id \in [DOMAIN ix.device_name_to_id -> DOMAIN ix.device_id_to_name]
    /\ \A name \in DOMAIN ix.device_name_to_id :
          ix.device_id_to_name[ix.device_name_to_id[name]] = name

(* The ids of a tag are those of the devices registered with it.               *)
Tagged(ix, rows) ==
    /\ \A r \in rows : /\ r[1] \in DOMAIN ix.device_name_to_id
                       /\ TagOf(r[2], r[3]) \in DOMAIN ix.tag_index
    /\ \A tag \in DOMAIN ix.tag_index :
          ix.tag_index[tag] =
              {ix.device_name_to_id[r[1]] : r \in {q \in rows : TagOf(q[2], q[3]) = tag}}

TagsInv ==
    /\ Numbered(index) /\ Tagged(index, registered)
    /\ \A r \in registered : /\ r[1] \in DEVICES
                             /\ \E t \in Pairs : r = <<r[1], t[1], t[2]>>

(* The names of a bitmap: each once.                                           *)
LEMMA NamesOfIs ==
    ASSUME NEW ix, Numbered(ix), NEW ids \in SUBSET DOMAIN ix.device_id_to_name,
           NEW names, names = NamesOf(ix, ids)
    PROVE  /\ Range(names) = {ix.device_id_to_name[id] : id \in ids}
           /\ Cardinality(Range(names)) = Len(names)
<1> DEFINE K == {id \in ids : id \in DOMAIN ix.device_id_to_name}
           n == Cardinality(K)
           below == [id \in K |-> {j \in K : j < id}]
           Nth(i) == CHOOSE id \in K : Cardinality({j \in K : j < id}) = i - 1
           f == [i \in 1..n |-> Nth(i)]
<1>1. K \in SUBSET Nat /\ IsFiniteSet(K)
  <2>1. K \in SUBSET (0..(ix.next_device_id - 1)) /\ ix.next_device_id \in Nat
    BY DEF Numbered
  <2>2. IsFiniteSet(0..(ix.next_device_id - 1))
    BY <2>1, FS_Interval
  <2>3. K \in SUBSET Nat
    BY <2>1
  <2> HIDE DEF K
  <2> QED BY <2>1, <2>2, <2>3, FS_Subset
<1>2. n \in Nat
  BY <1>1, FS_CardinalityType
<1>3. /\ below \in [K -> SUBSET K]
      /\ \A x \in K : x \notin below[x]
      /\ \A x, y \in K : x \in below[y] => below[x] \subseteq below[y]
      /\ \A x, y \in K : x # y => x \in below[y] \/ y \in below[x]
  BY <1>1
<1>4. /\ \A x \in K : Cardinality(below[x]) \in 0..(n - 1)
      /\ \A x, y \in K : Cardinality(below[x]) = Cardinality(below[y]) => x = y
      /\ \A i \in 1..n : \E x \in K : Cardinality(below[x]) = i - 1
  <2>1. IsFiniteSet(K)
    BY <1>1
  <2> HIDE DEF below, K
  <2> QED BY <1>3, <2>1, PlacesAreTaken, Zenon
<1>5. \A i \in 1..n : Nth(i) \in K /\ Cardinality(below[Nth(i)]) = i - 1
  <2> SUFFICES ASSUME NEW i \in 1..n PROVE Nth(i) \in K /\ Cardinality(below[Nth(i)]) = i - 1
    OBVIOUS
  <2>1. \A id \in K : below[id] = {j \in K : j < id}
    OBVIOUS
  <2>2. \E id \in K : Cardinality({j \in K : j < id}) = i - 1
    <3> HIDE DEF below, n
    <3> QED BY <1>4, <2>1
  <2>3. Nth(i) \in K /\ Cardinality({j \in K : j < Nth(i)}) = i - 1
    BY <2>2
  <2> HIDE DEF below, Nth
  <2> QED BY <2>1, <2>3
<1>6. names = [i \in 1..n |-> ix.device_id_to_name[f[i]]]
  <2>1. names = [i \in 1..n |-> ix.device_id_to_name[Nth(i)]]
    BY DEF NamesOf
  <2> HIDE DEF Nth, n
  <2>2. \A i \in 1..n : f[i] = Nth(i)
    OBVIOUS
  <2> HIDE DEF f
  <2> QED BY <2>1, <2>2
<1> HIDE DEF Nth, below, K
<1>7. f \in [1..n -> K] /\ \A i \in 1..n : Cardinality(below[f[i]]) = i - 1
  BY <1>5
<1> HIDE DEF f
<1>8. \A id \in K : \E i \in 1..n : f[i] = id
  <2> SUFFICES ASSUME NEW id \in K PROVE \E i \in 1..n : f[i] = id
    OBVIOUS
  <2>1. PICK c \in 0..(n - 1) : c = Cardinality(below[id])
    BY <1>4
  <2>2. c + 1 \in 1..n /\ (c + 1) - 1 = c
    BY <1>2, <2>1
  <2>3. f[c + 1] \in K /\ Cardinality(below[f[c + 1]]) = c
    BY <1>7, <2>2
  <2>4. f[c + 1] = id
    BY <1>4, <2>1, <2>3
  <2> QED BY <2>2, <2>4
<1>9. \A i, j \in 1..n : f[i] = f[j] => i = j
  <2> SUFFICES ASSUME NEW i \in 1..n, NEW j \in 1..n, f[i] = f[j] PROVE i = j
    OBVIOUS
  <2>1. i - 1 = j - 1
    BY <1>7
  <2> QED BY <1>2, <2>1
<1> HIDE DEF n
<1>10. DOMAIN names = 1..n /\ Len(names) = n
  BY <1>2, <1>6
<1>11. Range(names) = {ix.device_id_to_name[id] : id \in K}
  BY <1>6, <1>7, <1>8, <1>10 DEF Range
<1>12. names \in Surjection(1..n, Range(names)) /\ names \in Injection(1..n, Range(names))
  <2>1. names \in [1..n -> Range(names)]
    BY <1>6, <1>10 DEF Range
  <2>2. \A i, j \in 1..n : names[i] = names[j] => i = j
    <3> SUFFICES ASSUME NEW i \in 1..n, NEW j \in 1..n, names[i] = names[j] PROVE i = j
      OBVIOUS
    <3>1. f[i] = f[j]
      <4>1. ix.device_id_to_name[f[i]] = ix.device_id_to_name[f[j]] /\ f[i] \in K /\ f[j] \in K
        BY <1>6, <1>7
      <4>2. \A id \in K : ix.device_name_to_id[ix.device_id_to_name[id]] = id
        BY DEF Numbered, K
      <4> QED BY <4>1, <4>2
    <3> QED BY <1>9, <3>1
  <2>3. IsInjective(names)
    BY <1>10, <2>2 DEF IsInjective
  <2> QED BY <1>10, <2>1, <2>3 DEF Surjection, Injection, Range
<1>13. Cardinality(Range(names)) = n
  <2>1. IsFiniteSet(1..n) /\ Cardinality(1..n) = n
    <3>1. IsFiniteSet(1..n) /\ Cardinality(1..n) = IF 1 > n THEN 0 ELSE n - 1 + 1
      BY <1>2, FS_Interval
    <3> QED BY <1>2, <3>1
  <2> QED BY <1>12, <2>1, FS_Surjection
<1>14. K = ids
  BY DEF K
<1> QED BY <1>10, <1>11, <1>13, <1>14

(* A registration: the id of the name is the one it has or the next one.       *)
LEMMA AddDeviceNumbers ==
    ASSUME NEW ix, Numbered(ix), NEW name, NEW tags, NEW m, m = AddDevice(ix, name, tags)
    PROVE  /\ Numbered(m) /\ name \in DOMAIN m.device_name_to_id
           /\ \A x \in DOMAIN ix.device_name_to_id :
                 /\ x \in DOMAIN m.device_name_to_id
                 /\ m.device_name_to_id[x] = ix.device_name_to_id[x]
<1> DEFINE known == name \in DOMAIN ix.device_name_to_id
           id == IF known THEN ix.device_name_to_id[name] ELSE ix.next_device_id
           next == IF known THEN ix.next_device_id ELSE ix.next_device_id + 1
<1>1. /\ m.device_id_to_name = With(ix.device_id_to_name, id, name)
      /\ m.device_name_to_id = With(ix.device_name_to_id, name, id)
      /\ m.next_device_id = next
  BY DEF AddDevice
<1>2. /\ DOMAIN m.device_id_to_name = DOMAIN ix.device_id_to_name \cup {id}
      /\ DOMAIN m.device_name_to_id = DOMAIN ix.device_name_to_id \cup {name}
      /\ m.device_id_to_name[id] = name /\ m.device_name_to_id[name] = id
      /\ \A j \in DOMAIN ix.device_id_to_name : j # id => m.device_id_to_name[j] = ix.device_id_to_name[j]
      /\ \A x \in DOMAIN ix.device_name_to_id : x # name => m.device_name_to_id[x] = ix.device_name_to_id[x]
  <2> HIDE DEF id, next
  <2> QED BY <1>1 DEF With
<1>3. CASE known
  <2>1. id = ix.device_name_to_id[name] /\ m.next_device_id = ix.next_device_id
    BY <1>1, <1>3
  <2>2. id \in DOMAIN ix.device_id_to_name /\ ix.device_id_to_name[id] = name
    BY <1>3, <2>1 DEF Numbered
  <2> HIDE DEF id, next
  <2>3. \A j \in DOMAIN ix.device_id_to_name : m.device_id_to_name[j] = ix.device_id_to_name[j]
    BY <1>2, <2>2
  <2>4. \A x \in DOMAIN ix.device_name_to_id : m.device_name_to_id[x] = ix.device_name_to_id[x]
    BY <1>2, <2>1
  <2>5. /\ DOMAIN m.device_id_to_name = DOMAIN ix.device_id_to_name
        /\ DOMAIN m.device_name_to_id = DOMAIN ix.device_name_to_id
    BY <1>2, <1>3, <2>2
  <2>7. m.device_name_to_id = ix.device_name_to_id
    <3>1. m.device_name_to_id = [x \in DOMAIN ix.device_name_to_id |-> ix.device_name_to_id[x]]
      BY <1>1, <2>4, <2>5 DEF With
    <3> QED BY <3>1 DEF Numbered
  <2>6. Numbered(m)
    BY <2>1, <2>3, <2>5, <2>7 DEF Numbered
  <2> QED BY <1>3, <2>4, <2>5, <2>6
<1>4. CASE ~known
  <2>1. id = ix.next_device_id /\ m.next_device_id = id + 1 /\ id \in Nat
    BY <1>1, <1>4 DEF Numbered
  <2>2. DOMAIN ix.device_id_to_name = 0..(id - 1) /\ id \notin DOMAIN ix.device_id_to_name
    BY <2>1 DEF Numbered
  <2>3. (0..(id - 1)) \cup {id} = 0..((id + 1) - 1)
    BY <2>1
  <2> HIDE DEF id, next
  <2>4. \A x \in DOMAIN ix.device_name_to_id : x # name
    BY <1>4
  <2>5. \A j \in DOMAIN ix.device_id_to_name : j # id /\ ix.device_id_to_name[j] # name
    BY <2>2, <2>4 DEF Numbered
  <2>6. \A j \in DOMAIN m.device_id_to_name :
          /\ m.device_id_to_name[j] \in DOMAIN m.device_name_to_id
          /\ m.device_name_to_id[m.device_id_to_name[j]] = j
    BY <1>2, <2>4, <2>5 DEF Numbered
  <2>7. \A x \in DOMAIN m.device_name_to_id :
          /\ m.device_name_to_id[x] \in DOMAIN m.device_id_to_name
          /\ m.device_id_to_name[m.device_name_to_id[x]] = x
    BY <1>2, <2>4, <2>5 DEF Numbered
  <2>9. m.device_name_to_id \in [DOMAIN m.device_name_to_id -> DOMAIN m.device_id_to_name]
    BY <1>1, <2>7 DEF With
  <2>8. m.next_device_id \in Nat /\ DOMAIN m.device_id_to_name = 0..(m.next_device_id - 1)
    BY <1>2, <2>1, <2>2, <2>3
  <2> QED BY <1>2, <2>4, <2>6, <2>7, <2>8, <2>9 DEF Numbered
<1> QED BY <1>3, <1>4
(* ... and its tags gain that id and no other.                                 *)
LEMMA AddDeviceTags ==
    ASSUME NEW ix, Numbered(ix), NEW rows, Tagged(ix, rows),
           NEW name, NEW tags, NEW m, m = AddDevice(ix, name, tags)
    PROVE  Tagged(m, rows \cup {<<name, t[1], t[2]>> : t \in Range(tags)})
<1> DEFINE more == {<<name, t[1], t[2]>> : t \in Range(tags)}
           all == rows \cup more
           named == {TagOf(t[1], t[2]) : t \in Range(tags)}
           id == IF name \in DOMAIN ix.device_name_to_id
                 THEN ix.device_name_to_id[name] ELSE ix.next_device_id
           OfTag(tag) == IF tag \in DOMAIN ix.tag_index THEN ix.tag_index[tag] ELSE {}
           Old(tag) == {r \in rows : TagOf(r[2], r[3]) = tag}
           New(tag) == {r \in more : TagOf(r[2], r[3]) = tag}
<1>1. /\ name \in DOMAIN m.device_name_to_id
      /\ \A x \in DOMAIN ix.device_name_to_id :
            /\ x \in DOMAIN m.device_name_to_id
            /\ m.device_name_to_id[x] = ix.device_name_to_id[x]
  BY AddDeviceNumbers
<1>2. m.device_name_to_id[name] = id
  BY DEF AddDevice, With
<1>3. m.tag_index = [tag \in DOMAIN ix.tag_index \cup named |->
                        OfTag(tag) \cup (IF tag \in named THEN {id} ELSE {})]
  BY DEF AddDevice
<1>4. \A r \in more : r[1] = name /\ TagOf(r[2], r[3]) \in named
  OBVIOUS
<1>5. \A tag \in named : \E r \in New(tag) : r[1] = name
  <2> SUFFICES ASSUME NEW tag \in named PROVE \E r \in New(tag) : r[1] = name
    OBVIOUS
  <2>1. PICK t \in Range(tags) : tag = TagOf(t[1], t[2])
    OBVIOUS
  <2> DEFINE r == <<name, t[1], t[2]>>
  <2>2. r \in more /\ r[1] = name /\ r[2] = t[1] /\ r[3] = t[2]
    OBVIOUS
  <2> HIDE DEF more, named, r
  <2> QED BY <2>1, <2>2
<1>6. \A tag : New(tag) # {} => tag \in named
  BY <1>4
<1>7. \A tag : OfTag(tag) = {ix.device_name_to_id[r[1]] : r \in Old(tag)}
  <2> SUFFICES ASSUME NEW tag PROVE OfTag(tag) = {ix.device_name_to_id[r[1]] : r \in Old(tag)}
    OBVIOUS
  <2>1. CASE tag \in DOMAIN ix.tag_index
    BY <2>1 DEF Tagged
  <2>2. CASE tag \notin DOMAIN ix.tag_index
    <3>1. Old(tag) = {}
      BY <2>2 DEF Tagged
    <3> QED BY <2>2, <3>1
  <2> QED BY <2>1, <2>2
<1>8. \A r \in rows : r[1] \in DOMAIN m.device_name_to_id
                      /\ m.device_name_to_id[r[1]] = ix.device_name_to_id[r[1]]
  BY <1>1 DEF Tagged
<1>9. \A tag : {m.device_name_to_id[r[1]] : r \in New(tag)} = IF tag \in named THEN {id} ELSE {}
  <2> SUFFICES ASSUME NEW tag
               PROVE  {m.device_name_to_id[r[1]] : r \in New(tag)} = IF tag \in named THEN {id} ELSE {}
    OBVIOUS
  <2>1. \A r \in New(tag) : m.device_name_to_id[r[1]] = id
    <3> HIDE DEF id
    <3> QED BY <1>2, <1>4
  <2> HIDE DEF id, named, more
  <2>2. CASE tag \in named
    <3>1. PICK r \in New(tag) : r[1] = name
      BY <1>5, <2>2
    <3> HIDE DEF New
    <3> QED BY <2>1, <2>2, <3>1
  <2>3. CASE tag \notin named
    <3>1. New(tag) = {}
      BY <1>6, <2>3
    <3> QED BY <2>3, <3>1
  <2> QED BY <2>2, <2>3
<1>10. \A tag : {r \in all : TagOf(r[2], r[3]) = tag} = Old(tag) \cup New(tag)
  BY Zenon
<1> HIDE DEF OfTag, id, named, New
<1>11. \A tag \in DOMAIN m.tag_index :
          m.tag_index[tag] =
              {m.device_name_to_id[r[1]] : r \in {q \in all : TagOf(q[2], q[3]) = tag}}
  <2> SUFFICES ASSUME NEW tag \in DOMAIN m.tag_index
               PROVE  m.tag_index[tag] = {m.device_name_to_id[r[1]] : r \in Old(tag) \cup New(tag)}
    BY <1>10
  <2>1. m.tag_index[tag] = OfTag(tag) \cup (IF tag \in named THEN {id} ELSE {})
    BY <1>3
  <2>2. {m.device_name_to_id[r[1]] : r \in Old(tag)} = {ix.device_name_to_id[r[1]] : r \in Old(tag)}
    BY <1>8
  <2>3. {m.device_name_to_id[r[1]] : r \in Old(tag) \cup New(tag)}
        = {m.device_name_to_id[r[1]] : r \in Old(tag)} \cup {m.device_name_to_id[r[1]] : r \in New(tag)}
    OBVIOUS
  <2> HIDE DEF Old
  <2> QED BY <1>7, <1>9, <2>1, <2>2, <2>3, Zenon
<1>12. \A r \in all : r[1] \in DOMAIN m.device_name_to_id /\ TagOf(r[2], r[3]) \in DOMAIN m.tag_index
  BY <1>1, <1>3, <1>4, <1>8 DEF Tagged
<1> HIDE DEF all
<1>13. Tagged(m, all)
  BY <1>11, <1>12 DEF Tagged
<1> QED BY <1>13 DEF all

(* Written and read back, the index is the one that was written.               *)
LEMMA ReloadTagsSame ==
    ASSUME NEW ix, Numbered(ix), NEW m, m = DeserializeTags(SerializeTags(ix))
    PROVE  /\ m.tag_index = ix.tag_index /\ m.device_id_to_name = ix.device_id_to_name
           /\ m.device_name_to_id = ix.device_name_to_id /\ m.next_device_id = ix.next_device_id
<1> DEFINE devices == ix.device_id_to_name
           n == ix.next_device_id
           D == DOMAIN ix.device_name_to_id
           IdOf(name) == CHOOSE id \in DOMAIN devices : devices[id] = name
<1>1. /\ m.tag_index = ix.tag_index /\ m.device_id_to_name = devices
      /\ m.device_name_to_id = [name \in Range(devices) |-> IdOf(name)]
      /\ m.next_device_id = Max({0} \cup {id + 1 : id \in DOMAIN devices})
  BY DEF DeserializeTags, SerializeTags
<1>2. Range(devices) = D
  BY DEF Numbered, Range
<1>3. \A name \in D : IdOf(name) = ix.device_name_to_id[name]
  <2> SUFFICES ASSUME NEW name \in D PROVE IdOf(name) = ix.device_name_to_id[name]
    OBVIOUS
  <2>1. /\ ix.device_name_to_id[name] \in DOMAIN devices
        /\ devices[ix.device_name_to_id[name]] = name
    BY DEF Numbered
  <2>2. \A id \in DOMAIN devices : devices[id] = name => id = ix.device_name_to_id[name]
    BY DEF Numbered
  <2> QED BY <2>1, <2>2
<1>4. m.device_name_to_id = ix.device_name_to_id
  <2>1. ix.device_name_to_id = [name \in D |-> ix.device_name_to_id[name]]
    BY DEF Numbered
  <2> HIDE DEF IdOf, D
  <2> QED BY <1>1, <1>2, <1>3, <2>1
<1>5. Max({0} \cup {id + 1 : id \in 0..(n - 1)}) = n
  <2>1. n \in Nat
    BY DEF Numbered
  <2> HIDE DEF n
  <2> DEFINE M == {0} \cup {id + 1 : id \in 0..(n - 1)}
  <2>2. \A x \in M : x \in Nat /\ x <= n
    BY <2>1
  <2>3. n \in M
    <3>1. CASE n = 0
      BY <3>1
    <3>2. CASE n # 0
      <4>1. n - 1 \in 0..(n - 1) /\ (n - 1) + 1 = n
        BY <2>1, <3>2
      <4> QED BY <4>1
    <3> QED BY <3>1, <3>2
  <2> HIDE DEF M
  <2>4. \A x, y \in Nat : x >= y /\ y >= x => x = y
    OBVIOUS
  <2>5. \A x, y \in Nat : x <= y <=> y >= x
    OBVIOUS
  <2>6. \A x \in M : (\A y \in M : x >= y) => x = n
    BY <2>1, <2>2, <2>3, <2>4, <2>5
  <2>7. \A y \in M : n >= y
    BY <2>1, <2>2, <2>5
  <2>8. Max(M) = n
    BY <2>3, <2>6, <2>7 DEF Max
  <2> QED BY <2>8 DEF M
<1>6. m.next_device_id = n
  BY <1>1, <1>5 DEF Numbered
<1> QED BY <1>1, <1>4, <1>6
LEMMA InitTagsInv == Init => TagsInv
  BY DEF Init, NewTags, TagsInv, Numbered, Tagged

LEMMA NextTagsInv == TagsInv /\ [Next]_vars => TagsInv'
<1> SUFFICES ASSUME TagsInv, [Next]_vars PROVE TagsInv'
  OBVIOUS
<1>1. /\ Numbered(index) /\ Tagged(index, registered)
      /\ \A r \in registered : r[1] \in DEVICES /\ \E t \in Pairs : r = <<r[1], t[1], t[2]>>
  BY DEF TagsInv
<1>2. ASSUME UNCHANGED <<index, registered>> PROVE TagsInv'
  <2>1. index' = index /\ registered' = registered
    BY <1>2
  <2>2. Numbered(index') /\ Tagged(index', registered')
    BY <1>1, <2>1
  <2> QED BY <1>1, <2>1, <2>2 DEF TagsInv, Numbered, Tagged
<1>3. ASSUME NEW name \in DEVICES, NEW tags \in TAGLISTS, AddTagged(name, tags) PROVE TagsInv'
  <2>1. /\ index' = AddDevice(index, name, tags)
        /\ registered' = registered \cup {<<name, t[1], t[2]>> : t \in Range(tags)}
    BY <1>3, Zenon DEF AddTagged
  <2>2. PICK m : m = AddDevice(index, name, tags)
    OBVIOUS
  <2> DEFINE rows == registered \cup {<<name, t[1], t[2]>> : t \in Range(tags)}
  <2>3. Numbered(m)
    BY <1>1, <2>2, AddDeviceNumbers
  <2>4. Tagged(m, rows)
    BY <1>1, <2>2, AddDeviceTags
  <2>5. \A r \in rows : r[1] \in DEVICES /\ \E t \in Pairs : r = <<r[1], t[1], t[2]>>
    <3> SUFFICES ASSUME NEW r \in rows
                 PROVE  r[1] \in DEVICES /\ \E t \in Pairs : r = <<r[1], t[1], t[2]>>
      OBVIOUS
    <3>1. CASE r \in registered
      BY <1>1, <3>1
    <3>2. CASE r \in {<<name, t[1], t[2]>> : t \in Range(tags)}
      <4>1. PICK t \in Range(tags) : r = <<name, t[1], t[2]>>
        BY <3>2
      <4>2. t \in Pairs
        BY DEF Pairs
      <4> QED BY <4>1, <4>2
    <3> QED BY <3>1, <3>2
  <2>6. index' = m /\ registered' = rows
    BY <2>1, <2>2
  <2> HIDE DEF rows
  <2>7. Numbered(index') /\ Tagged(index', registered')
    BY <2>3, <2>4, <2>6
  <2> QED BY <2>5, <2>6, <2>7 DEF TagsInv, Numbered, Tagged
<1>4. ASSUME ReloadTags PROVE TagsInv'
  <2>1. index' = DeserializeTags(SerializeTags(index)) /\ registered' = registered
    BY <1>4, Zenon DEF ReloadTags
  <2>2. PICK m : m = DeserializeTags(SerializeTags(index))
    OBVIOUS
  <2>3. /\ m.tag_index = index.tag_index /\ m.device_id_to_name = index.device_id_to_name
        /\ m.device_name_to_id = index.device_name_to_id /\ m.next_device_id = index.next_device_id
    BY <1>1, <2>2, ReloadTagsSame
  <2>4. index' = m
    BY <2>1, <2>2
  <2>5. Numbered(m) /\ Tagged(m, registered)
    BY <1>1, <2>3 DEF Numbered, Tagged
  <2>6. Numbered(index') /\ Tagged(index', registered')
    BY <2>1, <2>4, <2>5
  <2> QED BY <1>1, <2>1, <2>6 DEF TagsInv, Numbered, Tagged
<1>5. ASSUME \/ \E k \in KEYS, v \in OFFSETS : InsertKey(k, v)
             \/ ReloadTree \/ ReloadFilters
             \/ \E page \in PAGES, item \in ITEMS : AddItem(page, item)
             \/ \E page \in PAGES, chunk \in CHUNKS : Finalize(page, chunk)
      PROVE TagsInv'
  BY <1>2, <1>5, Zenon DEF InsertKey, ReloadTree, ReloadFilters, AddItem, Finalize
<1>6. ASSUME UNCHANGED vars PROVE TagsInv'
  BY <1>2, <1>6 DEF vars
<1> QED BY <1>3, <1>4, <1>5, <1>6, Zenon DEF Next

(* The inverted index keeps this through additions and reloads.                *)
THEOREM SpecTagsInv == Spec => []TagsInv
  BY InitTagsInv, NextTagsInv, PTL DEF Spec

(* A query by tags names exactly the devices added with them, each once, in    *)
(* whatever order devices and tags came and after a reload                     *)
(* (InvertedIndex::add_device, query_tag, query_tags_and, query_tags_or,       *)
(* serialize, deserialize).                                                    *)
THEOREM SpecTagsAnswered == Spec => []TagsAnswered
<1>1. TagsInv => TagsAnswered
  <2> SUFFICES ASSUME TagsInv, NEW t \in Pairs, NEW u \in Pairs,
                      NEW got, got = QueryTag(index, t[1], t[2]),
                      NEW other, other = QueryTag(index, u[1], u[2]),
                      NEW both, both = QueryTagsAnd(index, <<t, u>>),
                      NEW any, any = QueryTagsOr(index, <<t, u>>)
               PROVE  /\ Having(t) \subseteq Range(got)
                      /\ Ambiguous(t) \/ Range(got) = Having(t)
                      /\ Range(both) = Range(got) \cap Range(other)
                      /\ Range(any) = Range(got) \cup Range(other)
                      /\ \A names \in {got, both, any} :
                            Cardinality(Range(names)) = Len(names)
    BY DEF TagsAnswered
  <2> DEFINE name == index.device_id_to_name
             T == GetBitmap(index, t[1], t[2])
             U == GetBitmap(index, u[1], u[2])
  <2>1. Numbered(index) /\ Tagged(index, registered)
    BY DEF TagsInv
  <2>2. /\ \A p \in Pairs : GetBitmap(index, p[1], p[2])
              = {index.device_name_to_id[r[1]] : r \in {q \in registered : TagOf(q[2], q[3]) = TagOf(p[1], p[2])}}
    <3> SUFFICES ASSUME NEW p \in Pairs
                 PROVE  GetBitmap(index, p[1], p[2])
                        = {index.device_name_to_id[r[1]] : r \in {q \in registered : TagOf(q[2], q[3]) = TagOf(p[1], p[2])}}
      OBVIOUS
    <3>1. CASE TagOf(p[1], p[2]) \in DOMAIN index.tag_index
      BY <2>1, <3>1 DEF GetBitmap, Tagged
    <3>2. CASE TagOf(p[1], p[2]) \notin DOMAIN index.tag_index
      <4>1. {q \in registered : TagOf(q[2], q[3]) = TagOf(p[1], p[2])} = {}
        BY <2>1, <3>2 DEF Tagged
      <4>2. GetBitmap(index, p[1], p[2]) = {}
        BY <3>2 DEF GetBitmap
      <4> QED BY <4>1, <4>2
    <3> QED BY <3>1, <3>2
  <2>3. /\ T \in SUBSET DOMAIN name /\ U \in SUBSET DOMAIN name
    <3>1. \A r \in registered : index.device_name_to_id[r[1]] \in DOMAIN name
      BY <2>1 DEF Numbered, Tagged
    <3> HIDE DEF name
    <3> QED BY <2>2, <3>1
  <2>4. /\ Range(got) = {name[id] : id \in T} /\ Cardinality(Range(got)) = Len(got)
        /\ Range(other) = {name[id] : id \in U}
    <3> HIDE DEF T, U
    <3>1. got = NamesOf(index, T) /\ other = NamesOf(index, U)
      BY DEF QueryTag, T, U
    <3> QED BY <2>1, <2>3, <3>1, NamesOfIs
  <2>5. Range(both) = {name[id] : id \in T \cap U} /\ Cardinality(Range(both)) = Len(both)
    <3>1. both = NamesOf(index, T \cap U)
      <4>1. <<t, u>> # <<>> /\ <<t, u>>[1] = t /\ Range(Tail(<<t, u>>)) = {u}
        BY DEF Range
      <4>2. both = NamesOf(index, {id \in T : \A p \in Range(Tail(<<t, u>>)) : id \in GetBitmap(index, p[1], p[2])})
        BY <4>1 DEF QueryTagsAnd
      <4>3. {id \in T : \A p \in Range(Tail(<<t, u>>)) : id \in GetBitmap(index, p[1], p[2])} = T \cap U
        BY <4>1
      <4> QED BY <4>2, <4>3
    <3> HIDE DEF T, U
    <3>2. T \cap U \in SUBSET DOMAIN index.device_id_to_name
      BY <2>3
    <3> QED BY <2>1, <3>1, <3>2, NamesOfIs
  <2>6. Range(any) = {name[id] : id \in T \cup U} /\ Cardinality(Range(any)) = Len(any)
    <3>1. any = NamesOf(index, T \cup U)
      <4>1. Range(<<t, u>>) = {t, u}
        BY DEF Range
      <4>2. any = NamesOf(index, UNION {GetBitmap(index, p[1], p[2]) : p \in Range(<<t, u>>)})
        BY DEF QueryTagsOr
      <4>3. UNION {GetBitmap(index, p[1], p[2]) : p \in Range(<<t, u>>)} = T \cup U
        BY <4>1
      <4> QED BY <4>2, <4>3
    <3> HIDE DEF T, U
    <3>2. T \cup U \in SUBSET DOMAIN index.device_id_to_name
      BY <2>3
    <3> QED BY <2>1, <3>1, <3>2, NamesOfIs
  <2>7. \A i, j \in DOMAIN name : name[i] = name[j] => i = j
    BY <2>1 DEF Numbered
  <2>8. {name[id] : id \in T \cap U} = {name[id] : id \in T} \cap {name[id] : id \in U}
    <3> HIDE DEF name, T, U
    <3> QED BY <2>3, <2>7
  <2>9. {name[id] : id \in T \cup U} = {name[id] : id \in T} \cup {name[id] : id \in U}
    <3> HIDE DEF name, T, U
    <3> QED OBVIOUS
  <2>10. \A r \in registered : name[index.device_name_to_id[r[1]]] = r[1]
    BY <2>1 DEF Numbered, Tagged
  <2>11. {name[id] : id \in T} = {r[1] : r \in {q \in registered : TagOf(q[2], q[3]) = TagOf(t[1], t[2])}}
    <3>1. T = {index.device_name_to_id[r[1]] : r \in {q \in registered : TagOf(q[2], q[3]) = TagOf(t[1], t[2])}}
      BY <2>2
    <3> HIDE DEF name, T
    <3> QED BY <2>10, <3>1
  <2>12. \A r \in registered : r[1] \in DEVICES /\ \E p \in Pairs : r = <<r[1], p[1], p[2]>>
    BY DEF TagsInv
  <2>13. Having(t) \subseteq Range(got)
    <3> SUFFICES ASSUME NEW x \in Having(t) PROVE x \in Range(got)
      OBVIOUS
    <3> DEFINE r == <<x, t[1], t[2]>>
    <3>1. r \in registered /\ r[1] = x /\ TagOf(r[2], r[3]) = TagOf(t[1], t[2])
      BY DEF Having
    <3> HIDE DEF r
    <3> QED BY <2>4, <2>11, <3>1
  <2>14. ASSUME ~Ambiguous(t) PROVE Range(got) \subseteq Having(t)
    <3> SUFFICES ASSUME NEW x \in Range(got) PROVE x \in Having(t)
      OBVIOUS
    <3>1. PICK r \in registered : r[1] = x /\ TagOf(r[2], r[3]) = TagOf(t[1], t[2])
      BY <2>4, <2>11
    <3>2. PICK p \in Pairs : r = <<r[1], p[1], p[2]>>
      BY <2>12
    <3>3. p = t
      BY <2>14, <3>1, <3>2 DEF Ambiguous
    <3> QED BY <2>12, <3>1, <3>2, <3>3 DEF Having
  <2> HIDE DEF T, U, name
  <2>15. Range(both) = Range(got) \cap Range(other) /\ Range(any) = Range(got) \cup Range(other)
    BY <2>4, <2>5, <2>6, <2>8, <2>9
  <2> QED BY <2>4, <2>5, <2>6, <2>13, <2>14, <2>15
<1> QED BY <1>1, SpecTagsInv, PTL
-------------------------------------------------------------------------------
(* The tree.  It is sound, counts no more than the calls, and answers for the  *)
(* keys given to it that no other given key extends or begins.                 *)
TreeInv ==
    /\ subject \in Subjects /\ calls \in 0..MaxCalls[subject]
    /\ Sound(art) /\ art.size <= calls
    /\ DOMAIN given \subseteq KEYS /\ DOMAIN Contents(art) \subseteq DOMAIN given
    /\ \A k \in DOMAIN given : (\A j \in DOMAIN given : ~Related(k, j)) =>
          k \in DOMAIN Contents(art) /\ Contents(art)[k] = given[k]

LEMMA KeysAreBytes == \A k \in KEYS : k \in Seq(Byte)
  BY IndexesAssumption DEF Byte

LEMMA InitTreeInv == Init => TreeInv
<1> SUFFICES ASSUME Init PROVE TreeInv
  OBVIOUS
<1>1. subject \in Subjects /\ calls = 0 /\ art = NewTree /\ given = <<>>
  BY DEF Init
<1>2. MaxCalls[subject] \in Nat /\ NewTree.size = 0
  BY <1>1, IndexesAssumption DEF NewTree
<1>3. DOMAIN given = {} /\ DOMAIN Contents(art) = {}
  BY <1>1, NewTreeSound
<1> QED BY <1>1, <1>2, <1>3, NewTreeSound DEF TreeInv

(* A call counts, within its bound.                                            *)
LEMMA CallCounts ==
    ASSUME TreeInv, NEW s, Call(s)
    PROVE  subject' \in Subjects /\ calls' \in 0..MaxCalls[subject'] /\ calls' = calls + 1 /\ calls \in Nat
<1>1. subject \in Subjects /\ calls \in 0..MaxCalls[subject] /\ MaxCalls[subject] \in Nat
  BY IndexesAssumption DEF TreeInv
<1>2. subject' = subject /\ calls' = calls + 1 /\ calls < MaxCalls[subject]
  BY DEF Call
<1> QED BY <1>1, <1>2

(* What an insert does to the map.                                             *)
LEMMA InsertKeyPuts ==
    ASSUME TreeInv, NEW k \in KEYS, NEW v \in OFFSETS, InsertKey(k, v)
    PROVE  /\ Sound(art') /\ art'.size <= art.size + 1
           /\ IF Len(k) > MAX_KEY_LEN THEN art' = art
              ELSE Contents(art') = PutInto(Contents(art), k, v)
<1>1. art' = Insert(art, k, v)
  BY Zenon DEF InsertKey
<1>2. k \in Seq(Byte) /\ Sound(art) /\ art.size \in Nat
  BY KeysAreBytes DEF TreeInv, Sound
<1>3. PICK m : m = Insert(art, k, v)
  OBVIOUS
<1>4. /\ Sound(m)
      /\ IF Len(k) > MAX_KEY_LEN THEN m = art
         ELSE Contents(m) = PutInto(Contents(art), k, v) /\ m.size = art.size + 1
  BY <1>2, <1>3, InsertIs
<1>5. m.size <= art.size + 1
  BY <1>2, <1>4
<1> QED BY <1>1, <1>3, <1>4, <1>5

LEMMA ReloadTreeKeeps ==
    ASSUME TreeInv, ReloadTree
    PROVE  Sound(art') /\ Contents(art') = Contents(art) /\ art'.size <= art.size
<1>1. art' = Deserialize(CollectEntries(art.nodes)) /\ Sound(art)
  BY Zenon DEF ReloadTree, TreeInv
<1>2. PICK m : m = Deserialize(CollectEntries(art.nodes))
  OBVIOUS
<1>3. Sound(m) /\ Contents(m) = Contents(art) /\ m.size <= art.size
  BY <1>1, <1>2, ReloadKeepsContents
<1> QED BY <1>1, <1>2, <1>3

LEMMA NextTreeInv == TreeInv /\ [Next]_vars => TreeInv'
<1> SUFFICES ASSUME TreeInv, [Next]_vars PROVE TreeInv'
  OBVIOUS
<1>1. /\ Sound(art) /\ art.size <= calls /\ art.size \in Nat
      /\ DOMAIN given \subseteq KEYS /\ DOMAIN Contents(art) \subseteq DOMAIN given
      /\ \A k \in DOMAIN given : (\A j \in DOMAIN given : ~Related(k, j)) =>
            k \in DOMAIN Contents(art) /\ Contents(art)[k] = given[k]
  BY DEF TreeInv, Sound
<1>2. ASSUME art' = art, given' = given, NEW s, Call(s) PROVE TreeInv'
  <2>1. subject' \in Subjects /\ calls' \in 0..MaxCalls[subject'] /\ calls' = calls + 1 /\ calls \in Nat
    BY <1>2, CallCounts
  <2>2. art.size <= calls'
    BY <1>1, <2>1
  <2> QED BY <1>1, <1>2, <2>1, <2>2 DEF TreeInv
<1>3. ASSUME NEW k \in KEYS, NEW v \in OFFSETS, InsertKey(k, v) PROVE TreeInv'
  <2>1. /\ Sound(art') /\ art'.size <= art.size + 1
        /\ IF Len(k) > MAX_KEY_LEN THEN art' = art
           ELSE Contents(art') = PutInto(Contents(art), k, v)
    BY <1>3, InsertKeyPuts
  <2>2. /\ given' = IF Len(k) > MAX_KEY_LEN THEN given ELSE With(given, k, v)
        /\ Call("tree")
    BY <1>3, Zenon DEF InsertKey
  <2>3. CASE Len(k) > MAX_KEY_LEN
    BY <1>2, <2>1, <2>2, <2>3
  <2>4. CASE ~(Len(k) > MAX_KEY_LEN)
    <3> DEFINE old == Contents(art)
               new == Contents(art')
               shorter == {p \in DOMAIN old : IsStrictPrefix(p, k)}
               unrelated == {p \in DOMAIN old : ~IsPrefix(k, p)}
    <3>1. subject' \in Subjects /\ calls' \in 0..MaxCalls[subject'] /\ calls' = calls + 1 /\ calls \in Nat
      BY <2>2, CallCounts
    <3>2. art'.size \in Nat /\ art'.size <= calls'
      <4>1. art'.size \in Nat
        BY <2>1 DEF Sound
      <4> QED BY <1>1, <2>1, <3>1, <4>1
    <3>3. /\ DOMAIN given' = DOMAIN given \cup {k} /\ given'[k] = v
          /\ \A j \in DOMAIN given : j # k => given'[j] = given[j]
      BY <2>2, <2>4 DEF With
    <3>4. new = IF shorter # {}
                THEN [p \in DOMAIN old |-> IF p \in shorter THEN v ELSE old[p]]
                ELSE [p \in unrelated \cup {k} |-> IF p = k THEN v ELSE old[p]]
      BY <2>1, <2>4, Zenon DEF PutInto
    <3> HIDE DEF old, new
    <3>5. DOMAIN new \subseteq DOMAIN given'
      BY <1>1, <3>3, <3>4 DEF old
    <3>6. ASSUME NEW j \in DOMAIN given', \A i \in DOMAIN given' : ~Related(j, i)
          PROVE  j \in DOMAIN new /\ new[j] = given'[j]
      <4>1. \A p \in DOMAIN old : p \in DOMAIN given' /\ ~Related(j, p)
        BY <1>1, <3>3, <3>6 DEF old
      <4>2. CASE j = k
        <5>1. shorter = {}
          BY <4>1, <4>2 DEF Related, IsStrictPrefix
        <5> QED BY <3>3, <3>4, <4>2, <5>1
      <4>3. CASE j # k
        <5>1. j \in DOMAIN given /\ given'[j] = given[j] /\ \A i \in DOMAIN given : ~Related(j, i)
          BY <3>3, <3>6, <4>3
        <5>2. j \in DOMAIN old /\ old[j] = given[j]
          BY <1>1, <5>1 DEF old
        <5>3. ~IsPrefix(k, j) /\ ~IsPrefix(j, k)
          BY <3>3, <3>6, <4>3 DEF Related
        <5>4. j \notin shorter /\ j \in unrelated
          BY <5>2, <5>3 DEF IsStrictPrefix
        <5> QED BY <3>4, <4>3, <5>1, <5>2, <5>4
      <4> QED BY <4>2, <4>3
    <3> HIDE DEF shorter, unrelated
    <3>7. DOMAIN given' \subseteq KEYS
      BY <1>1, <3>3
    <3>8. /\ DOMAIN Contents(art)' \subseteq DOMAIN given'
          /\ \A j \in DOMAIN given' : (\A i \in DOMAIN given' : ~Related(j, i)) =>
                j \in DOMAIN Contents(art') /\ Contents(art')[j] = given'[j]
      BY <3>5, <3>6 DEF new
    <3> QED BY <2>1, <3>1, <3>2, <3>7, <3>8 DEF TreeInv
  <2> QED BY <2>3, <2>4
<1>4. ASSUME ReloadTree PROVE TreeInv'
  <2>1. Sound(art') /\ Contents(art') = Contents(art) /\ art'.size <= art.size
    BY <1>4, ReloadTreeKeeps
  <2>2. given' = given /\ Call("tree")
    BY <1>4, Zenon DEF ReloadTree
  <2>3. subject' \in Subjects /\ calls' \in 0..MaxCalls[subject'] /\ calls' = calls + 1 /\ calls \in Nat
    BY <2>2, CallCounts
  <2>4. art'.size <= calls'
    <3>1. art'.size \in Nat
      BY <2>1 DEF Sound
    <3> QED BY <1>1, <2>1, <2>3, <3>1
  <2> QED BY <1>1, <2>1, <2>2, <2>3, <2>4 DEF TreeInv
<1>5. ASSUME \/ \E name \in DEVICES, tags \in TAGLISTS : AddTagged(name, tags)
             \/ ReloadTags \/ ReloadFilters
             \/ \E page \in PAGES, item \in ITEMS : AddItem(page, item)
             \/ \E page \in PAGES, chunk \in CHUNKS : Finalize(page, chunk)
      PROVE TreeInv'
  BY <1>2, <1>5, Zenon DEF AddTagged, ReloadTags, ReloadFilters, AddItem, Finalize
<1>6. ASSUME UNCHANGED vars PROVE TreeInv'
  BY <1>6 DEF vars, TreeInv
<1> QED BY <1>3, <1>4, <1>5, <1>6, Zenon DEF Next

(* The tree stays sound and answers for unrelated keys, after every call.      *)
THEOREM SpecTreeInv == Spec => []TreeInv
  BY InitTreeInv, NextTreeInv, PTL DEF Spec

(* The indexes keep their types: the tree counts its inserts, every device has *)
(* one id and every filter keeps to its bits, whatever the keys, tags and      *)
(* hashes (ArtIndex, InvertedIndex, MultiLevelBloomFilter).                    *)
THEOREM SpecTypeOK == Spec => []TypeOK
<1>1. TreeInv /\ TagsInv /\ FiltersInv => TypeOK
  <2> SUFFICES ASSUME TreeInv, TagsInv, FiltersInv PROVE TypeOK
    OBVIOUS
  <2>1. /\ subject \in Subjects /\ calls \in 0..MaxCalls[subject]
        /\ art.size \in 0..calls /\ DOMAIN given \subseteq KEYS
    <3>1. art.size \in Nat /\ MaxCalls[subject] \in Nat
      BY IndexesAssumption DEF TreeInv, Sound
    <3> QED BY <3>1 DEF TreeInv
  <2>2. /\ DOMAIN index.device_id_to_name = 0..(index.next_device_id - 1)
        /\ \A name \in DOMAIN index.device_name_to_id :
              index.device_id_to_name[index.device_name_to_id[name]] = name
    BY DEF TagsInv, Numbered
  <2>3. \A page \in DOMAIN levels.page_filters :
           levels.page_filters[page].bits \subseteq 0..(levels.page_filters[page].num_bits - 1)
    <3>1. \A page \in DOMAIN levels.page_filters : levels.page_filters[page] \in Filter
      BY DEF FiltersInv, Levels
    <3>2. \A f \in Filter : f.bits \subseteq 0..(f.num_bits - 1)
      BY DEF Filter, Sized
    <3> QED BY <3>1, <3>2
  <2> QED BY <2>1, <2>2, <2>3 DEF TypeOK
<1> QED BY <1>1, SpecTreeInv, SpecTagsInv, SpecFiltersInv, PTL

(* The tree hangs together after any order of inserts and a reload: parents,   *)
(* children and capacities agree, for every capacity of the four kinds         *)
(* (ArtIndex::insert, Node4/16/48/256, deserialize).                           *)
THEOREM SpecTreeIsLinked == Spec => []TreeIsLinked
<1>1. TreeInv => TreeIsLinked
  <2> DEFINE nodes == art.nodes
             Children(p) == {Append(p, b) : b \in Range(nodes[p].keys)}
  <2> SUFFICES ASSUME TreeInv, NEW p \in DOMAIN nodes
               PROVE  /\ p # <<>> => /\ Front(p) \in DOMAIN nodes
                                     /\ p \in Children(Front(p))
                      /\ Children(p) \subseteq DOMAIN nodes
                      /\ Cardinality(Children(p)) = Len(nodes[p].keys)
                      /\ IF nodes[p].kind = "Leaf" THEN nodes[p].keys = <<>>
                         ELSE /\ nodes[p].keys # <<>>
                              /\ Len(nodes[p].keys) <= Capacity[nodes[p].kind]
    BY Zenon DEF TreeIsLinked
  <2>1. Tree(nodes) /\ Settled(nodes)
    <3>1. nodes # <<>>
      OBVIOUS
    <3> QED BY <3>1 DEF TreeInv, Sound
  <2> HIDE DEF nodes
  <2>2. \A q \in DOMAIN nodes : IsNode(nodes[q]) /\ q \in Seq(Byte)
    BY <2>1 DEF Tree
  <2>3. \A q \in DOMAIN nodes : /\ nodes[q].keys \in Seq(Byte) /\ Len(nodes[q].keys) \in Nat
                                /\ DOMAIN nodes[q].keys = 1..Len(nodes[q].keys)
                                /\ \A i \in 1..Len(nodes[q].keys) : nodes[q].keys[i] \in Byte
    BY <2>2, LenProperties DEF IsNode
  <2>4. \A q \in DOMAIN nodes : \A b : b \in Range(nodes[q].keys) <=> (b \in Byte /\ Contains(nodes[q].keys, b))
    BY <2>3 DEF Range, Contains
  <2>5. \A q \in DOMAIN nodes, b \in Byte : Append(q, b) \in DOMAIN nodes <=> b \in Range(nodes[q].keys)
    BY <2>1, <2>4 DEF Tree
  <2>6. p # <<>> => Front(p) \in DOMAIN nodes /\ p \in Children(Front(p))
    <3> SUFFICES ASSUME p # <<>> PROVE Front(p) \in DOMAIN nodes /\ p \in Children(Front(p))
      OBVIOUS
    <3>1. /\ Len(p) \in Nat \ {0} /\ p[Len(p)] \in Byte /\ p = Append(PathTo(p, Len(p) - 1), p[Len(p)])
      BY <2>2, LastStep
    <3>2. Front(p) = PathTo(p, Len(p) - 1)
      BY DEF Front, PathTo
    <3>3. Front(p) \in DOMAIN nodes
      <4>1. Len(p) - 1 \in Nat /\ Len(p) - 1 <= Len(p)
        BY <3>1
      <4> QED BY <2>1, <3>2, <4>1 DEF Tree
    <3>4. p[Len(p)] \in Range(nodes[Front(p)].keys)
      BY <2>5, <3>1, <3>2, <3>3
    <3> QED BY <3>1, <3>2, <3>3, <3>4
  <2>7. Children(p) \subseteq DOMAIN nodes
    <3> SUFFICES ASSUME NEW c \in Children(p) PROVE c \in DOMAIN nodes
      OBVIOUS
    <3>1. PICK b \in Range(nodes[p].keys) : c = Append(p, b)
      OBVIOUS
    <3> QED BY <2>4, <2>5, <3>1
  <2>8. Cardinality(Children(p)) = Len(nodes[p].keys)
    <3> DEFINE keys == nodes[p].keys
               n == Len(keys)
               f == [i \in 1..n |-> Append(p, keys[i])]
    <3>1. n \in Nat /\ DOMAIN keys = 1..n /\ \A i \in 1..n : keys[i] \in Byte
      BY <2>3
    <3>2. \A i, j \in 1..n : keys[i] = keys[j] => i = j
      BY <2>2 DEF IsNode
    <3>3. Children(p) = {f[i] : i \in 1..n}
      <4>1. Range(keys) = {keys[i] : i \in 1..n}
        BY <3>1 DEF Range
      <4> QED BY <4>1
    <3> HIDE DEF keys, n
    <3>4. \A i, j \in 1..n : f[i] = f[j] => i = j
      <4> SUFFICES ASSUME NEW i \in 1..n, NEW j \in 1..n, f[i] = f[j] PROVE i = j
        OBVIOUS
      <4>1. Append(p, keys[i]) = Append(p, keys[j])
        OBVIOUS
      <4>2. keys[i] = keys[j]
        BY <2>2, <3>1, <4>1, AppendInjective
      <4> QED BY <3>2, <4>2
    <3>5. f \in [1..n -> Children(p)] /\ \A c \in Children(p) : \E i \in 1..n : f[i] = c
      <4>1. \A i \in 1..n : f[i] \in Children(p)
        BY <3>3
      <4> HIDE DEF Children
      <4> QED BY <3>3, <4>1
    <3>6. DOMAIN f = 1..n
      OBVIOUS
    <3> HIDE DEF f, Children
    <3>7. IsInjective(f)
      BY <3>4, <3>6 DEF IsInjective
    <3>8. f \in Surjection(1..n, Children(p)) /\ f \in Injection(1..n, Children(p))
      BY <3>5, <3>7 DEF Surjection, Injection
    <3>9. IsFiniteSet(1..n) /\ Cardinality(1..n) = n
      <4>1. 1 \in Int /\ n \in Int
        BY <3>1
      <4>2. IsFiniteSet(1..n) /\ Cardinality(1..n) = IF 1 > n THEN 0 ELSE n - 1 + 1
        BY <4>1, FS_Interval
      <4> QED BY <3>1, <4>2
    <3>10. Cardinality(Children(p)) = n
      BY <3>8, <3>9, FS_Surjection
    <3> QED BY <3>10 DEF n, keys
  <2>9. IF nodes[p].kind = "Leaf" THEN nodes[p].keys = <<>>
        ELSE nodes[p].keys # <<>> /\ Len(nodes[p].keys) <= Capacity[nodes[p].kind]
    BY <2>1, <2>2 DEF IsNode, Settled
  <2> HIDE DEF Children
  <2> QED BY <2>6, <2>7, <2>8, <2>9
<1> QED BY <1>1, SpecTreeInv, PTL

(* A key finds the offset it was last inserted with unless a related key was   *)
(* inserted too, and a key never inserted finds nothing, also after a reload   *)
(* (ArtIndex::insert, get, serialize, deserialize).                            *)
THEOREM SpecKeysReadBack == Spec => []KeysReadBack
<1>1. TreeInv => KeysReadBack
  <2> SUFFICES ASSUME TreeInv, NEW k \in KEYS
               PROVE  /\ Get(art, k) # <<>> => k \in DOMAIN given
                      /\ k \in DOMAIN given /\ ~(\E j \in DOMAIN given : Related(k, j))
                         => Get(art, k) = <<given[k]>>
    BY DEF KeysReadBack
  <2>1. Get(art, k) = IF k \in DOMAIN Contents(art) THEN <<Contents(art)[k]>> ELSE <<>>
    BY KeysAreBytes, GetIs DEF TreeInv
  <2> QED BY <2>1 DEF TreeInv
<1> QED BY <1>1, SpecTreeInv, PTL

(* The tree is the prefix map it stands for: whatever its nodes grow to,       *)
(* inserts put into the map, and writing and reading back leave it alone.      *)
THEOREM SpecImplementsPrefixMap == Spec => ImplementsPrefixMap
<1>1. Init => Map!Init
  BY NewTreeSound DEF Init, Map!Init
<1>2. TreeInv /\ [Next]_vars => [Map!Next]_(Contents(art))
  <2> SUFFICES ASSUME TreeInv, [Next]_vars PROVE Map!Next \/ Contents(art)' = Contents(art)
    OBVIOUS
  <2>1. ASSUME NEW k \in KEYS, NEW v \in OFFSETS, InsertKey(k, v)
        PROVE  Map!Next \/ Contents(art)' = Contents(art)
    <3>1. IF Len(k) > MAX_KEY_LEN THEN art' = art
          ELSE Contents(art') = PutInto(Contents(art), k, v)
      BY <2>1, InsertKeyPuts
    <3>2. CASE Len(k) > MAX_KEY_LEN
      <4>1. Contents(art') = Contents(art)
        BY <3>1, <3>2
      <4> QED BY <4>1
    <3>3. CASE ~(Len(k) > MAX_KEY_LEN)
      <4>1. Contents(art') = PutInto(Contents(art), k, v)
        BY <3>1, <3>3
      <4>2. Map!Put(k, v)
        <5> DEFINE m == Contents(art)
        <5>1. Contents(art)' = PutInto(m, k, v)
          BY <4>1
        <5>2. /\ Map!Shorter(k) = {p \in DOMAIN m : IsStrictPrefix(p, k)}
              /\ Map!Unrelated(k) = {p \in DOMAIN m : ~IsPrefix(k, p)}
          BY Zenon DEF Map!Shorter, Map!Unrelated, Map!IsStrictPrefix, Map!IsPrefix,
                       IsStrictPrefix, IsPrefix
        <5> HIDE DEF m
        <5> QED BY <5>1, <5>2 DEF Map!Put, PutInto, m
      <4> QED BY <4>2 DEF Map!Next
    <3> QED BY <3>2, <3>3
  <2>2. ASSUME ReloadTree PROVE Contents(art)' = Contents(art)
    BY <2>2, ReloadTreeKeeps
  <2>3. ASSUME art' = art PROVE Contents(art)' = Contents(art)
    BY <2>3
  <2>4. ASSUME \/ \E name \in DEVICES, tags \in TAGLISTS : AddTagged(name, tags)
               \/ ReloadTags \/ ReloadFilters
               \/ \E page \in PAGES, item \in ITEMS : AddItem(page, item)
               \/ \E page \in PAGES, chunk \in CHUNKS : Finalize(page, chunk)
        PROVE  art' = art
    BY <2>4, Zenon DEF AddTagged, ReloadTags, ReloadFilters, AddItem, Finalize
  <2>5. ASSUME UNCHANGED vars PROVE art' = art
    BY <2>5 DEF vars
  <2> QED BY <2>1, <2>2, <2>3, <2>4, <2>5, Zenon DEF Next
<1> QED BY <1>1, <1>2, SpecTreeInv, PTL DEF Spec, ImplementsPrefixMap, Map!Spec
===============================================================================
