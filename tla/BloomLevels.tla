---------------------------- MODULE BloomLevels -----------------------------
(***************************************************************************)
(* BloomFilter and MultiLevelBloomFilter.  A filter is the set of its one  *)
(* bits; HashOf is the seeded hash of an item, any function.  Only the     *)
(* page filters are ever filled: the answers of a chunk and of the file    *)
(* are taken from them.                                                    *)
(***************************************************************************)
EXTENDS Naturals, Sequences, SequencesExt, FiniteSets, Maps

CONSTANTS
    HashOf(_, _),     \* an item and a seed
    Chosen, Default   \* sizes of a page filter: what the caller's items and rate
                      \*   of false positives come to, and what 1000 and 0.01 do

(* A size is [bits, hashes]: of bits, and of hash functions, 1 to 10.      *)
ASSUME BloomAssumption == {Chosen, Default} \subseteq [bits : Nat \ {0}, hashes : Nat \ {0}]

(* Read back, the bit vector is filled up to whole bytes.                  *)
NewFilter(size) ==
    [bits |-> {}, length |-> size.bits, num_bits |-> size.bits,
     num_hash_functions |-> size.hashes, num_items |-> 0]

IndexesOf(f, item) ==
    {HashOf(item, seed) % f.num_bits : seed \in 0..(f.num_hash_functions - 1)}

InsertItem(f, item) ==
    [f EXCEPT !.bits = @ \cup IndexesOf(f, item), !.num_items = @ + 1]

MightContain(f, item) ==
    \A i \in IndexesOf(f, item) : i < f.length /\ i \in f.bits

SerializeFilter(f) ==
    [bits |-> f.bits, num_bits |-> f.num_bits, num_items |-> f.num_items,
     num_hash_functions |-> f.num_hash_functions]

\* Mutant: the indices are taken modulo the length of the bytes.
DeserializeFilter_RoundsBits(w) ==
    [bits |-> w.bits, length |-> 8 * ((w.num_bits + 7) \div 8),
     num_bits |-> 8 * ((w.num_bits + 7) \div 8),
     num_hash_functions |-> w.num_hash_functions, num_items |-> w.num_items]

DeserializeFilter(w) ==
    [bits |-> w.bits, length |-> 8 * ((w.num_bits + 7) \div 8),
     num_bits |-> w.num_bits,
     num_hash_functions |-> w.num_hash_functions, num_items |-> w.num_items]

-----------------------------------------------------------------------------
NewLevels == [size |-> Chosen, page_filters |-> <<>>, chunk_filters |-> <<>>,
              file_filter |-> NewFilter(Chosen), chunk_to_pages |-> <<>>]

AddToPage(m, page, item) ==
    LET filter == IF page \in DOMAIN m.page_filters THEN m.page_filters[page]
                  ELSE NewFilter(m.size)
    IN [m EXCEPT !.page_filters = With(@, page, InsertItem(filter, item))]

FinalizePage(m, page, chunk) ==
    LET pages == IF chunk \in DOMAIN m.chunk_to_pages
                 THEN m.chunk_to_pages[chunk] ELSE <<>>
    IN IF page \notin DOMAIN m.page_filters THEN m
       ELSE [m EXCEPT !.chunk_to_pages = With(@, chunk, Append(pages, page))]

PageMightContain(m, page, item) ==
    page \in DOMAIN m.page_filters /\ MightContain(m.page_filters[page], item)

FileMightContain(m, item) ==
    \E page \in DOMAIN m.page_filters : MightContain(m.page_filters[page], item)

ChunkMightContain(m, chunk, item) ==
    /\ chunk \in DOMAIN m.chunk_to_pages
    /\ \E page \in Range(m.chunk_to_pages[chunk]) : PageMightContain(m, page, item)

SerializeLevels(m) ==
    [pages  |-> [p \in DOMAIN m.page_filters |-> SerializeFilter(m.page_filters[p])],
     chunks |-> [c \in DOMAIN m.chunk_filters |-> SerializeFilter(m.chunk_filters[c])],
     file   |-> SerializeFilter(m.file_filter)]

(* Which page belongs to which chunk is not written, nor is the size that  *)
(* new pages are to have.                                                  *)
DeserializeLevels(w) ==
    [size           |-> Default,
     page_filters   |-> [p \in DOMAIN w.pages |-> DeserializeFilter(w.pages[p])],
     chunk_filters  |-> [c \in DOMAIN w.chunks |-> DeserializeFilter(w.chunks[c])],
     file_filter    |-> DeserializeFilter(w.file),
     chunk_to_pages |-> <<>>]
=============================================================================
