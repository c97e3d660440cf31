------------------------------- MODULE Picking --------------------------------
(* A subsequence by its places.                                                *)
EXTENDS Integers, Sequences

\* The members of s at the given places, in order.
Picked(s, places) ==
    LET picked[n \in 0..Len(s)] ==
            IF n = 0 THEN <<>>
            ELSE IF n \in places THEN Append(picked[n - 1], s[n]) ELSE picked[n - 1]
    IN  picked[Len(s)]
===============================================================================
