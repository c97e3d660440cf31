------------------------------- MODULE SeriesLog -------------------------------
(* What a column writer promises, without pages: an append-only series.  Points *)
(* wait in `pending` until a seal moves ALL of them, in order, behind those    *)
(* already `stored`; publishing seals first and hands out everything stored.   *)
EXTENDS Sequences

CONSTANT Points

VARIABLES stored,    \* the points of the sealed pages, in order
          pending,   \* the points of the open page
          published  \* what the last publication contained

vars == <<stored, pending, published>>

TypeOK == /\ stored \in Seq(Points)
          /\ pending \in Seq(Points)
          /\ published \in Seq(Points)

Init == stored = <<>> /\ pending = <<>> /\ published = <<>>

(* A point is taken; the pages may be sealed just before it (a full page seen  *)
(* by the next write) or just after it (a batch that fills the page).          *)
Take(p) ==
    /\ \/ stored' = stored /\ pending' = Append(pending, p)
       \/ stored' = stored \o pending /\ pending' = <<p>>
       \/ stored' = stored \o Append(pending, p) /\ pending' = <<>>
    /\ UNCHANGED published

Seal ==
    /\ stored' = stored \o pending
    /\ pending' = <<>>
    /\ UNCHANGED published

Publish ==
    /\ stored \o pending # <<>>
    /\ stored' = stored \o pending
    /\ pending' = <<>>
    /\ published' = stored'

Next == (\E p \in Points : Take(p)) \/ Seal \/ Publish

Spec == Init /\ [][Next]_vars
===============================================================================
