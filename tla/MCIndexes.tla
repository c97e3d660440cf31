----------------------------- MODULE MCIndexes ------------------------------
(***************************************************************************)
(* Nodes of 1, 2, 3 and 4 children over bytes 0..3, so that every kind is  *)
(* grown; keys that are prefixes of others and one that is too long; two   *)
(* pairs that spell the same tag; filters of five bits that collide, and   *)
(* after a reload new ones of three.                                       *)
(***************************************************************************)
EXTENDS Indexes

MCCapacity == ("Node4" :> 1) @@ ("Node16" :> 2) @@ ("Node48" :> 3)
              @@ ("Node256" :> 4)
MCKeys == {<<3>>, <<2>>, <<0>>, <<1, 1>>, <<1, 0>>, <<1>>, <<>>, <<2, 2, 2>>}

Pair(k, v) == <<k, v>>
MCTagLists == {<<>>,
               <<Pair(<<"a">>, <<"b", "=", "c">>), Pair(<<"d">>, <<"c">>)>>,
               <<Pair(<<"a", "=", "b">>, <<"c">>)>>,
               <<Pair(<<"d">>, <<"c">>)>>}

MCHash(item, seed) == item + 3 * seed
MCChosen == [bits |-> 5, hashes |-> 2]
MCDefault == [bits |-> 3, hashes |-> 1]
MCMaxCalls == ("tree" :> 5) @@ ("tags" :> 5) @@ ("filters" :> 5)
=============================================================================
