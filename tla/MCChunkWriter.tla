----------------------------- MODULE MCChunkWriter -----------------------------
(* ChunkWriter on a small instance.  Two bytes a point and a page limit of     *)
(* five bytes: a page fills at the third point and can reach a fourth.         *)
EXTENDS ChunkWriter

CONSTANTS a, b   \* two values

\* Each timestamp comes with its own value, so a value paired with another
\* point's timestamp shows.
MCPoints == {[t |-> 1, v |-> a], [t |-> 2, v |-> b]}
MCNullCell == [t |-> 2, v |-> a]
===============================================================================
