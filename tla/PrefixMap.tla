----------------------------- MODULE PrefixMap ------------------------------
(***************************************************************************)
(* What the radix tree of device offsets promises: a map from keys to      *)
(* values in which no key is a prefix of another.  A put under a key that  *)
(* extends a present one changes the value of that one, and a put under a  *)
(* prefix of present keys takes their place.  For keys none of which is a  *)
(* prefix of another this is a plain map.                                  *)
(***************************************************************************)
EXTENDS Sequences, SequencesExt

CONSTANTS KEYS, VALUES

VARIABLE map

Shorter(k) == {p \in DOMAIN map : IsStrictPrefix(p, k)}
Unrelated(k) == {p \in DOMAIN map : ~IsPrefix(k, p)}

Init == map = <<>>

Put(k, v) ==
    map' = IF Shorter(k) # {}
           THEN [p \in DOMAIN map |-> IF p \in Shorter(k) THEN v ELSE map[p]]
           ELSE [p \in Unrelated(k) \cup {k} |-> IF p = k THEN v ELSE map[p]]

Next == \E k \in KEYS, v \in VALUES : Put(k, v)

Spec == Init /\ [][Next]_map
=============================================================================
