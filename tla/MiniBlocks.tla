------------------------------ MODULE MiniBlocks ------------------------------
(* How a page is cut into mini-blocks (file/miniblock.rs, MiniBlockConfig).    *)
(* A page of `total` points becomes between one and MiniBlocksPerPage          *)
(* mini-blocks of nearly equal size.                                           *)
EXTENDS Integers, Sequences

CONSTANTS MiniBlocksPerPage,       \* miniblocks_per_page, 8 in the code
          MinPointsPerMiniBlock    \* min_points_per_miniblock, 250 in the code

\* Both fields are public: zero blocks per page divides by zero, and zero
\* points per block asks for blocks that index an empty slice.
ASSUME MiniBlockAssumption ==
    /\ MiniBlocksPerPage \in Nat \ {0}
    /\ MinPointsPerMiniBlock \in Nat \ {0}

Smaller(x, y) == IF x <= y THEN x ELSE y
Larger(x, y)  == IF x >= y THEN x ELSE y

(* Mutant: a page is cut into miniblocks_per_page blocks however few its       *)
(* points, and some of them are empty.                                         *)
CalculateMiniblockCount_Fixed(total) == MiniBlocksPerPage

(* MiniBlockConfig::calculate_miniblock_count                                  *)
CalculateMiniblockCount(total) ==
    IF total < MinPointsPerMiniBlock
    THEN 1
    ELSE IF total \div MiniBlocksPerPage < MinPointsPerMiniBlock
         THEN Smaller(Larger(total \div MinPointsPerMiniBlock, 1),
                      MiniBlocksPerPage)
         ELSE MiniBlocksPerPage

(* MiniBlockConfig::split_into_ranges.  The loop hands one extra point to each *)
(* of the first `total % n` blocks, so after i blocks it stands at             *)
(* i * (total \div n) plus the extras handed out so far.  A range is           *)
(* half-open and zero-based, as the slices of the code are.                    *)
BlockEnd(total, n, i) == i * (total \div n) + Smaller(i, total % n)

SplitIntoRanges(total) ==
    LET n == CalculateMiniblockCount(total)
    IN  [i \in 1..n |-> [start |-> BlockEnd(total, n, i - 1),
                         end   |-> BlockEnd(total, n, i)]]
===============================================================================
