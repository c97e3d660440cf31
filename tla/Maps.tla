-------------------------------- MODULE Maps --------------------------------
(* A hash map of the source is a function from its keys.                      *)

(* HashMap::insert: a new entry, or another value for a key that is there.    *)
With(map, key, value) ==
    [k \in DOMAIN map \cup {key} |-> IF k = key THEN value ELSE map[k]]

(* A map of one entry.                                                        *)
Only(key, value) == [k \in {key} |-> value]
=============================================================================
