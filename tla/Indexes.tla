------------------------------ MODULE Indexes -------------------------------
(***************************************************************************)
(* The three indexes a writer may keep beside its data: the radix tree of  *)
(* device offsets, the inverted index of tags and the levels of bloom      *)
(* filters.  Each is filled by calls in any order, written and read back   *)
(* in between.  They share nothing, so that a behaviour exercises one of   *)
(* them, its subject.                                                      *)
(***************************************************************************)
EXTENDS RadixTree, TagIndex, BloomLevels

CONSTANTS
    KEYS, OFFSETS,          \* device names as bytes, and what they map to
    DEVICES, TAGLISTS,      \* devices and the tags they are added with
    PAGES, CHUNKS, ITEMS,   \* what the filters know
    MaxCalls                \* bound: calls by subject

Subjects == {"tree", "tags", "filters"}

(* A key is a string of the bytes a Node256 has a slot for, and a hash is  *)
(* an unsigned integer.                                                    *)
ASSUME IndexesAssumption ==
    /\ KEYS \subseteq Seq(0..(Capacity["Node256"] - 1))
    /\ MaxCalls \in [Subjects -> Nat]
    /\ \A item \in ITEMS, size \in {Chosen, Default} :
          \A seed \in 0..(size.hashes - 1) : HashOf(item, seed) \in Nat

VARIABLES
    subject,
    art, index, levels,     \* the three indexes
    given,                  \* history: the last offset inserted for a key
    registered,             \* history: <<device, key, value>> added
    added, assigned,        \* history: <<page, item>>, <<chunk, page>>
    reloaded,               \* history: has the subject been read back
    calls

vars == <<subject, art, index, levels, given, registered, added, assigned,
          reloaded, calls>>

Init ==
    /\ subject \in Subjects
    /\ art = NewTree /\ index = NewTags /\ levels = NewLevels
    /\ given = <<>> /\ registered = {} /\ added = {} /\ assigned = {}
    /\ reloaded = FALSE /\ calls = 0

Call(s) ==
    /\ subject = s /\ calls < MaxCalls[s] /\ calls' = calls + 1
    /\ UNCHANGED subject

InsertKey(k, v) ==
    /\ Call("tree")
    /\ art' = Insert(art, k, v)
    /\ given' = IF Len(k) > MAX_KEY_LEN THEN given ELSE With(given, k, v)
    /\ UNCHANGED <<index, levels, registered, added, assigned, reloaded>>

ReloadTree ==
    /\ Call("tree") /\ ~reloaded /\ reloaded' = TRUE
    /\ art' = Deserialize(CollectEntries(art.nodes))
    /\ UNCHANGED <<index, levels, given, registered, added, assigned>>

AddTagged(name, tags) ==
    /\ Call("tags")
    /\ index' = AddDevice(index, name, tags)
    /\ registered' = registered \cup {<<name, t[1], t[2]>> : t \in Range(tags)}
    /\ UNCHANGED <<art, levels, given, added, assigned, reloaded>>

ReloadTags ==
    /\ Call("tags") /\ ~reloaded /\ reloaded' = TRUE
    /\ index' = DeserializeTags(SerializeTags(index))
    /\ UNCHANGED <<art, levels, given, registered, added, assigned>>

AddItem(page, item) ==
    /\ Call("filters")
    /\ levels' = AddToPage(levels, page, item)
    /\ added' = added \cup {<<page, item>>}
    /\ UNCHANGED <<art, index, given, registered, assigned, reloaded>>

Finalize(page, chunk) ==
    /\ Call("filters")
    /\ levels' = FinalizePage(levels, page, chunk)
    /\ assigned' = IF page \in DOMAIN levels.page_filters
                   THEN assigned \cup {<<chunk, page>>} ELSE assigned
    /\ UNCHANGED <<art, index, given, registered, added, reloaded>>

ReloadFilters ==
    /\ Call("filters") /\ ~reloaded /\ reloaded' = TRUE
    /\ levels' = DeserializeLevels(SerializeLevels(levels))
    /\ UNCHANGED <<art, index, given, registered, added, assigned>>

Next ==
    \/ \E k \in KEYS, v \in OFFSETS : InsertKey(k, v)
    \/ ReloadTree
    \/ \E name \in DEVICES, tags \in TAGLISTS : AddTagged(name, tags)
    \/ ReloadTags
    \/ \E page \in PAGES, item \in ITEMS : AddItem(page, item)
    \/ \E page \in PAGES, chunk \in CHUNKS : Finalize(page, chunk)
    \/ ReloadFilters

Spec == Init /\ [][Next]_vars
-----------------------------------------------------------------------------
(* The indexes are the ones their calls can build: the tree counts its     *)
(* inserts, a device has one id, the filters keep to their bits.           *)
TypeOK ==
    /\ subject \in Subjects /\ calls \in 0..MaxCalls[subject]
    /\ art.size \in 0..calls /\ DOMAIN given \subseteq KEYS
    /\ DOMAIN index.device_id_to_name = 0..(index.next_device_id - 1)
    /\ \A name \in DOMAIN index.device_name_to_id :
          index.device_id_to_name[index.device_name_to_id[name]] = name
    /\ \A page \in DOMAIN levels.page_filters : LET f == levels.page_filters[page] IN
          f.bits \subseteq 0..(f.num_bits - 1)

(* The tree hangs together after any order of inserts, growths and         *)
(* replacements: every node but the root is a child of its parent, every   *)
(* child is there once, a leaf has none, and a node has as many children   *)
(* as its kind is for.                                                     *)
TreeIsLinked ==
    LET nodes == art.nodes
        Children(p) == {Append(p, b) : b \in Range(nodes[p].keys)}
    IN \A p \in DOMAIN nodes :
          /\ p # <<>> => /\ Front(p) \in DOMAIN nodes
                         /\ p \in Children(Front(p))
          /\ Children(p) \subseteq DOMAIN nodes
          /\ Cardinality(Children(p)) = Len(nodes[p].keys)
          /\ IF nodes[p].kind = "Leaf" THEN nodes[p].keys = <<>>
             ELSE /\ nodes[p].keys # <<>>
                  /\ Len(nodes[p].keys) <= Capacity[nodes[p].kind]

Related(k, j) == k # j /\ (IsPrefix(k, j) \/ IsPrefix(j, k))

(* A key finds the offset it was last inserted with, unless a key that     *)
(* extends it or that it extends was inserted too; a key never inserted    *)
(* finds nothing.  Also after the tree was written and read back.          *)
KeysReadBack ==
    \A k \in KEYS :
        /\ Get(art, k) # <<>> => k \in DOMAIN given
        /\ k \in DOMAIN given /\ ~(\E j \in DOMAIN given : Related(k, j))
           => Get(art, k) = <<given[k]>>

(* The tree is the map of prefix-free keys it stands for, whatever the     *)
(* order of the inserts, the kinds its nodes grow to and the reload.       *)
Map == INSTANCE PrefixMap WITH VALUES <- OFFSETS, map <- Contents(art)
ImplementsPrefixMap == Map!Spec

Pairs == UNION {Range(tags) : tags \in TAGLISTS}
Having(t) == {name \in DEVICES : <<name, t[1], t[2]>> \in registered}
Ambiguous(t) == \E u \in Pairs \ {t} : TagOf(u[1], u[2]) = TagOf(t[1], t[2])

(* A query by tag names every device added with it, and no other unless    *)
(* two pairs spell the same tag; all of two tags are the devices of both,  *)
(* any of them the devices of either, each named once.  Also when devices  *)
(* are added again, with further tags, or after the index was read back.   *)
TagsAnswered ==
    \A t \in Pairs, u \in Pairs :
        LET got   == QueryTag(index, t[1], t[2])
            other == QueryTag(index, u[1], u[2])
            both  == QueryTagsAnd(index, <<t, u>>)
            any   == QueryTagsOr(index, <<t, u>>)
        IN /\ Having(t) \subseteq Range(got)
           /\ Ambiguous(t) \/ Range(got) = Having(t)
           /\ Range(both) = Range(got) \cap Range(other)
           /\ Range(any) = Range(got) \cup Range(other)
           /\ \A names \in {got, both, any} :
                 Cardinality(Range(names)) = Len(names)

(* A filter never misses: an item added to a page is found in the page, in *)
(* the file, and in every chunk the page was finalized into, as long as    *)
(* the levels were not read back.                                          *)
FiltersNeverMiss ==
    \A p \in PAGES, x \in ITEMS :
        <<p, x>> \in added =>
            /\ PageMightContain(levels, p, x)
            /\ FileMightContain(levels, x)
            /\ \A c \in CHUNKS : <<c, p>> \in assigned /\ ~reloaded
                                 => ChunkMightContain(levels, c, x)
=============================================================================
