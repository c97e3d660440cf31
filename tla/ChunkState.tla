------------------------------ MODULE ChunkState ------------------------------
(* The types of a chunk writer and its pages, and what they hold of the points *)
(* the writer was given: the terms in which the modules that run writers state *)
(* what they keep.                                                             *)
EXTENDS ChunkOps

CONSTANTS Measurements,   \* names of columns
          Points          \* the points [t, v] callers pass, in any time order

Stamps == I64Min..I64Max
Times  == {p.t : p \in Points}
Values == {p.v : p \in Points}

ASSUME PointAssumption == Points \subseteq [t : Stamps, v : Values]

Stat  == [count : Nat, start : Stamps, end : Stamps]
Block == [min : Times, max : Times, times : Seq(Times), vals : Seq(Values)]
Page  == [num : Nat, min : Stamps, max : Stamps, blocks : Seq(Block)]

Writer == [name : Measurements, encodes : BOOLEAN, pages : Seq(Page),
           times : Seq(Times), vals : Seq(Values), stat : Stat, size : Nat]

(* Page `page` holds the points of g that follow the first `first`: point k of *)
(* its mini-block j is the one at that place, the blocks cutting the page at   *)
(* the ranges of split_into_ranges.                                            *)
PageHolds(page, first, g) ==
    LET ranges == SplitIntoRanges(page.num)
    IN  /\ page.num > 0
        /\ Len(page.blocks) = CalculateMiniblockCount(page.num)
        /\ \A j \in 1..Len(page.blocks) :
             LET block == page.blocks[j]
                 size  == ranges[j].end - ranges[j].start
             IN  /\ Len(block.times) = size /\ Len(block.vals) = size
                 /\ \A k \in 1..size :
                      /\ block.times[k] = g[first + ranges[j].start + k].t
                      /\ block.vals[k]  = g[first + ranges[j].start + k].v

PagesHold(w, c, g) ==
    \A i \in 1..Len(w.pages) : /\ w.pages[i].num = c[i + 1] - c[i]
                              /\ PageHolds(w.pages[i], c[i], g)

(* The open page and the temporary vector `acc` hold the points of g that      *)
(* follow the last cut.  With a timestamp too many only the values compare.    *)
RestHolds(w, c, g, acc) ==
    LET first == c[Len(c)]
    IN  /\ first + Len(w.vals) + Len(acc) = Len(g)
        /\ \A k \in 1..Len(w.vals) :
             /\ w.vals[k] = g[first + k].v
             /\ Len(w.times) = Len(w.vals) => w.times[k] = g[first + k].t
        /\ \A k \in 1..Len(acc) : acc[k] = g[first + Len(w.vals) + k]
===============================================================================
