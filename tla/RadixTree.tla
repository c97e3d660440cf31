----------------------------- MODULE RadixTree ------------------------------
(***************************************************************************)
(* ArtIndex, the radix tree from device names to offsets.  The tree is     *)
(* laid out flat: `nodes` maps the path of every node, the bytes that lead *)
(* to it, to its kind, the bytes of its children in slot order, and, for a *)
(* leaf, its value.  A leaf is the end of the walk: a key that reaches one *)
(* early takes it over, and a key that ends at an inner node replaces it.  *)
(***************************************************************************)
EXTENDS Naturals, Sequences, SequencesExt, Functions, FiniteSets

CONSTANTS
    MAX_KEY_LEN,      \* longer keys are ignored: 256
    Capacity          \* children of a node by kind: 4, 16, 48, 256

InnerKinds == {"Node4", "Node16", "Node48", "Node256"}

ASSUME RadixTreeAssumption ==
    /\ MAX_KEY_LEN \in Nat
    /\ Capacity \in [InnerKinds -> Nat \ {0}]
    /\ Capacity["Node4"] < Capacity["Node16"]
    /\ Capacity["Node16"] < Capacity["Node48"]
    /\ Capacity["Node48"] < Capacity["Node256"]

NewNode(children) == [kind |-> "Node4", keys |-> children, value |-> 0]
LeafOf(value) == [kind |-> "Leaf", keys |-> <<>>, value |-> value]

NewTree == [nodes |-> <<>>, size |-> 0]

PathTo(key, depth) == SubSeq(key, 1, depth)

(* Where the walk of a key ends: at a leaf, at the end of the key, or at   *)
(* an inner node without a child for the next byte.                        *)
Stop(nodes, key) ==
    LET Ends(d) ==
            /\ PathTo(key, d) \in DOMAIN nodes
            /\ \/ nodes[PathTo(key, d)].kind = "Leaf"
               \/ d = Len(key)
               \/ ~Contains(nodes[PathTo(key, d)].keys, key[d + 1])
        ends == {d \in 0..Len(key) : Ends(d)}
    IN CHOOSE d \in ends : \A e \in ends : d <= e

(***************************************************************************)
(* insert.                                                                 *)
(***************************************************************************)
\* Mutant: the node that grows loses its last child.
Grow_DropsLast(node) ==
    IF Len(node.keys) < Capacity[node.kind] THEN node
    ELSE [node EXCEPT
            !.kind = CASE @ = "Node4" -> "Node16"
                       [] @ = "Node16" -> "Node48"
                       [] @ = "Node48" -> "Node256",
            !.keys = Front(@)]

(* A full node becomes one of the next kind with the same children.        *)
Grow(node) ==
    IF Len(node.keys) < Capacity[node.kind] THEN node
    ELSE [node EXCEPT !.kind = CASE @ = "Node4" -> "Node16"
                                 [] @ = "Node16" -> "Node48"
                                 [] @ = "Node48" -> "Node256"]

(* A new child, and under it a chain of nodes with one child each down to  *)
(* the leaf at the end of the key.                                         *)
AddChild(nodes, key, depth, value) ==
    LET grown == Grow(nodes[PathTo(key, depth)])
        chain == {PathTo(key, d) : d \in (depth + 1)..Len(key)}
        NewAt(path) == IF path = key THEN LeafOf(value)
                       ELSE NewNode(<<key[Len(path) + 1]>>)
    IN [path \in DOMAIN nodes \cup chain |->
          IF path \in chain THEN NewAt(path)
          ELSE IF path = PathTo(key, depth)
          THEN [grown EXCEPT !.keys = Append(@, key[depth + 1])]
          ELSE nodes[path]]

\* Mutant: the nodes below the new leaf stay.
ReplaceByLeaf_KeepsSubtree(nodes, path, value) ==
    [nodes EXCEPT ![path] = LeafOf(value)]

ReplaceByLeaf(nodes, path, value) ==
    [p \in {p \in DOMAIN nodes : ~IsStrictPrefix(path, p)} |->
        IF p = path THEN LeafOf(value) ELSE nodes[p]]

InsertRecursive(nodes, key, value) ==
    LET depth == Stop(nodes, key)
        path  == PathTo(key, depth)
    IN IF depth = Len(key) \/ nodes[path].kind = "Leaf"
       THEN ReplaceByLeaf(nodes, path, value)
       ELSE AddChild(nodes, key, depth, value)

Insert(tree, key, value) ==
    LET rooted == IF tree.nodes = <<>> THEN [root \in {<<>>} |-> NewNode(<<>>)]
                  ELSE tree.nodes
    IN IF Len(key) > MAX_KEY_LEN THEN tree
       ELSE [nodes |-> InsertRecursive(rooted, key, value),
             size  |-> tree.size + 1]

(***************************************************************************)
(* get.                                                                    *)
(***************************************************************************)
Get(tree, key) ==
    LET depth == Stop(tree.nodes, key)
        node  == tree.nodes[PathTo(key, depth)]
    IN IF tree.nodes = <<>> THEN <<>>
       ELSE IF node.kind = "Leaf" /\ depth = Len(key) THEN <<node.value>>
       ELSE <<>>

(***************************************************************************)
(* serialize and deserialize: the leaves in depth-first order, inserted    *)
(* one by one.  The written size is not used.                              *)
(***************************************************************************)
(* Small nodes list their children by slot, large ones by byte.            *)
Rank(node, byte) ==
    IF node.kind \in {"Node4", "Node16"}
    THEN CHOOSE i \in DOMAIN node.keys : node.keys[i] = byte
    ELSE byte

(* Two leaves come in the order of the children where their paths part.    *)
Before(nodes, p, q) ==
    LET i == CHOOSE i \in 1..Len(p) : p[i] # q[i] /\ PathTo(p, i - 1) = PathTo(q, i - 1)
        node == nodes[PathTo(p, i - 1)]
    IN Rank(node, p[i]) < Rank(node, q[i])

CollectEntries(nodes) ==
    LET leaves == {p \in DOMAIN nodes : nodes[p].kind = "Leaf"}
        Nth(i) == CHOOSE p \in leaves :
                     Cardinality({q \in leaves \ {p} : Before(nodes, q, p)}) = i - 1
    IN [i \in 1..Cardinality(leaves) |-> <<Nth(i), nodes[Nth(i)].value>>]

Deserialize(entries) ==
    LET tree[i \in 0..Len(entries)] ==
            IF i = 0 THEN NewTree
            ELSE Insert(tree[i - 1], entries[i][1], entries[i][2])
    IN tree[Len(entries)]

(* The entries of a tree as a map.                                         *)
Contents(tree) ==
    [p \in {p \in DOMAIN tree.nodes : tree.nodes[p].kind = "Leaf"} |->
        tree.nodes[p].value]
=============================================================================
