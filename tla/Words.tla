------------------------------- MODULE Words -------------------------------
(***************************************************************************)
(* Machine integers, bit strings and the varint layout shared by the       *)
(* encoders of src/encoding.  An integer of w bits is a number, a cast is  *)
(* an explicit reduction; a bit string is a sequence of 0 and 1 with the   *)
(* most significant bit first.                                             *)
(***************************************************************************)
EXTENDS Integers, Sequences, SequencesExt

(***************************************************************************)
(* Casts: `x as uN`, `x as iN` and the wrapping operations.                *)
(***************************************************************************)
Unsigned(x, w) == x % 2^w
Signed(x, w) ==
    LET u == Unsigned(x, w) IN IF u >= 2^(w - 1) THEN u - 2^w ELSE u

IntRange(w) == -(2^(w - 1)) .. 2^(w - 1) - 1
Saturate(x, w) ==
    IF x > 2^(w - 1) - 1 THEN 2^(w - 1) - 1
    ELSE IF x < -(2^(w - 1)) THEN -(2^(w - 1)) ELSE x

(***************************************************************************)
(* `((value << 1) ^ (value >> w-1))` as a signed integer of w bits, and    *)
(* `(z >> 1) ^ -(z & 1)`, whose shift is arithmetic when z is signed.      *)
(***************************************************************************)
ZigzagShift(v, w) ==
    IF v >= 0 THEN Signed(2 * v, w) ELSE -Signed(2 * v, w) - 1
UnzigzagShift(z) == IF z % 2 = 0 THEN z \div 2 ELSE -(z \div 2) - 1

(***************************************************************************)
(* Bit strings.                                                            *)
(***************************************************************************)
Bits(x, n) == [i \in 1..n |-> (x \div 2^(n - i)) % 2]
NumberOf(bits) ==
    LET number[i \in 0..Len(bits)] ==
            IF i = 0 THEN 0 ELSE 2 * number[i - 1] + bits[i]
    IN number[Len(bits)]
Xor(a, b) == [i \in DOMAIN a |-> (a[i] + b[i]) % 2]
Zeros(n) == [i \in 1..n |-> 0]
IsZero(bits) == \A i \in DOMAIN bits : bits[i] = 0
LeadingZeros(bits) ==
    IF IsZero(bits) THEN Len(bits)
    ELSE (CHOOSE i \in DOMAIN bits :
             bits[i] = 1 /\ \A j \in 1..(i - 1) : bits[j] = 0) - 1
TrailingZeros(bits) == LeadingZeros(Reverse(bits))

(***************************************************************************)
(* What an encoder appends to the buffer of its caller is a sequence of    *)
(* tokens <<shape, content>>: one token for each fixed-width integer, word *)
(* or string, one for each byte of a varint.  A reader that finds a token  *)
(* of another shape than it expects has lost the layout.                   *)
(***************************************************************************)
Token(shape, content) == <<shape, content>>
Failed(pos) == [ok |-> FALSE, v |-> 0, pos |-> pos]
ReadToken(input, pos, shape) ==
    IF pos <= Len(input) /\ input[pos][1] = shape
    THEN [ok |-> TRUE, v |-> input[pos][2], pos |-> pos + 1]
    ELSE Failed(pos)

(***************************************************************************)
(* Varints: groups of g bits, least significant first, each but the last   *)
(* with the continuation bit.  The reader gives up when a group would be   *)
(* shifted by w bits or more.                                              *)
(***************************************************************************)
Varint(n, g) ==
    LET size == CHOOSE k \in 1..(n + 1) :
                   n < 2^(g * k) /\ (k = 1 \/ n >= 2^(g * (k - 1)))
    IN [i \in 1..size |->
          Token("byte", ((n \div 2^(g * (i - 1))) % 2^g)
                          + (IF i < size THEN 2^g ELSE 0))]

VarintEndingAt(input, pos, end, g, w) ==
    LET Group(k) == (input[pos + k - 1][2] % 2^g) * 2^(g * (k - 1))
        sum == FoldLeft(LAMBDA acc, k : acc + Group(k), 0, [k \in 1..(end - pos + 1) |-> k])
    IN IF (\A i \in pos..end : input[i][1] = "byte") /\ g * (end - pos) < w
       THEN [ok |-> TRUE, v |-> Unsigned(sum, w), pos |-> end + 1]
       ELSE Failed(pos)

ReadVarint(input, pos, g, w) ==
    LET Ends(i) == input[i][1] = "byte" /\ input[i][2] < 2^g
        ends == {i \in pos..Len(input) : Ends(i)}
    IN IF ends = {} THEN Failed(pos)
       ELSE VarintEndingAt(input, pos, CHOOSE i \in ends : \A j \in ends : i <= j, g, w)

(* The rest of a read, unless it failed: the `?` of the source.            *)
Then(r, Next(_)) == IF r.ok THEN Next(r) ELSE r

(* `count` reads one after the other, up to the first that fails.          *)
ReadBatch(Read(_), decoder, count) ==
    LET Kept(acc, r) ==
            IF r.ok THEN [ok |-> TRUE, dec |-> r.dec, values |-> Append(acc.values, r.v)]
            ELSE [acc EXCEPT !.ok = FALSE]
        Step(acc, i) == IF acc.ok THEN Kept(acc, Read(acc.dec)) ELSE acc
    IN FoldLeft(Step, [ok |-> TRUE, values |-> <<>>, dec |-> decoder],
                [i \in 1..count |-> i])
=============================================================================
