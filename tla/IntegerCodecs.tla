--------------------------- MODULE IntegerCodecs ---------------------------
(***************************************************************************)
(* The encoders whose unit is a whole integer or string: plain, RLE,       *)
(* zigzag, Simple8b, delta of delta, dictionary, and the two batch         *)
(* encoders built on them (dictionary-RLE and quantized).                  *)
(*                                                                         *)
(* An encoder is a record of its fields in the source and of `out`, the    *)
(* buffer its caller passes to every call.  A decoder is a record of its   *)
(* fields and of `pos`, the position the caller passes by reference; a     *)
(* read returns [ok, v, dec].  Sizes are constants so that small words     *)
(* have the shape of the real ones: 32, 64 and 60 bits, groups of 7 bits,  *)
(* packing at 60 pending values and forced packing at 240.                 *)
(***************************************************************************)
EXTENDS Words, FiniteSets

CONSTANTS
    IntBits,       \* i32: 32
    LongBits,      \* i64: 64
    PayloadBits,   \* payload of a Simple8b word: 60
    CountBits,     \* u32 lengths, counts and dictionary ids: 32
    GroupBits,     \* bits of a varint byte: 7
    SELECTORS,     \* <<count, bits>> by selector, from 0
    PackAt,        \* pending values that start packing: 60
    ForceAt,       \* pending values that force a word out: 240
    MaxDictionary  \* entries of a dictionary-RLE block: 256

ASSUME WidthsAssumption ==
    /\ IntBits \in Nat /\ PayloadBits \in IntBits..(LongBits - 1)
    /\ LongBits \in Nat /\ GroupBits \in Nat \ {0} /\ CountBits \in Nat
    /\ {PackAt, ForceAt} \subseteq Nat \ {0} /\ PackAt < ForceAt

Selectors == DOMAIN SELECTORS
AllOnes == 1
LastSelector == CHOOSE s \in Selectors : \A t \in Selectors : t <= s
Count(s) == SELECTORS[s][1]
BitsOf(s) == SELECTORS[s][2]
MAX_VALUES == [s \in Selectors |-> 2^BitsOf(s) - 1]
ASSUME SelectorsAssumption ==
    /\ Selectors = 0..LastSelector /\ LastSelector \in Nat
    /\ \A s \in Selectors : /\ Count(s) \in Nat \ {0} /\ BitsOf(s) \in Nat
                              /\ Count(s) * BitsOf(s) <= PayloadBits
    /\ SELECTORS[LastSelector] = <<1, PayloadBits>>

Width(type) == IF type \in {"Int32", "Float", "Date", "Boolean"}
               THEN IntBits ELSE LongBits

Yes(v, dec) == [ok |-> TRUE, v |-> v, dec |-> dec]
No(dec)     == [ok |-> FALSE, v |-> 0, dec |-> dec]

(***************************************************************************)
(* Plain: the value, at its width.                                         *)
(***************************************************************************)
PlainNew == [out |-> <<>>]
PlainEncode(e, v) == [e EXCEPT !.out = Append(@, Token("fixed", v))]

PlainDecoder == [pos |-> 1]
PlainRead(d, input) ==
    Then(ReadToken(input, d.pos, "fixed"),
         LAMBDA r : Yes(r.v, [d EXCEPT !.pos = r.pos]))

(***************************************************************************)
(* RLE: pairs of a value and the length of its run.                        *)
(***************************************************************************)
RleNew == [previous_value |-> <<>>, run_length |-> 0, out |-> <<>>]
Run(e) == <<Token("fixed", e.previous_value[1]), Token("run", e.run_length)>>

RleEncode(e, v) ==
    IF e.previous_value = <<v>>
    THEN [e EXCEPT !.run_length = @ + 1]
    ELSE [previous_value |-> <<v>>, run_length |-> 1,
          out |-> IF e.previous_value = <<>> THEN e.out ELSE e.out \o Run(e)]

RleFlush(e) ==
    IF e.previous_value = <<>> THEN e
    ELSE [previous_value |-> <<>>, run_length |-> 0, out |-> e.out \o Run(e)]

RleDecoder == [current_value |-> <<>>, remaining |-> 0, pos |-> 1]
RleRead(d, input) ==
    LET Pair(v, n) == Yes(v.v, [current_value |-> <<v.v>>, remaining |-> n.v - 1,
                                pos |-> n.pos])
    IN IF d.remaining > 0
       THEN Yes(d.current_value[1], [d EXCEPT !.remaining = @ - 1])
       ELSE Then(ReadToken(input, d.pos, "fixed"), LAMBDA v :
                Then(ReadToken(input, v.pos, "run"), LAMBDA n : Pair(v, n)))

(***************************************************************************)
(* Zigzag: varints kept aside until the flush, behind their length and     *)
(* their count.                                                            *)
(***************************************************************************)
ZigzagNew == [encoded_bytes |-> <<>>, value_count |-> 0, out |-> <<>>]
ZigzagEncode(e, v, w) ==
    [e EXCEPT !.encoded_bytes =
                  @ \o Varint(Unsigned(ZigzagShift(v, w), w), GroupBits),
              !.value_count = @ + 1]

ZigzagFlush(e) ==
    [encoded_bytes |-> <<>>, value_count |-> 0,
     out |-> e.out \o Varint(Len(e.encoded_bytes), GroupBits)
                   \o Varint(e.value_count, GroupBits) \o e.encoded_bytes]

ZigzagDecoder == [decoded_bytes |-> <<>>, position |-> 1,
                  value_count |-> 0, values_read |-> 0, pos |-> 1]

ZigzagInit(d, input) ==
    LET Bytes(size, count) ==
            LET last == count.pos + size.v - 1
            IN IF last > Len(input) THEN No(d)
               ELSE Yes(0, [d EXCEPT !.decoded_bytes = SubSeq(input, count.pos, last),
                                     !.value_count = count.v, !.pos = last + 1])
    IN IF d.decoded_bytes # <<>> THEN Yes(0, d)
       ELSE Then(ReadVarint(input, d.pos, GroupBits, CountBits), LAMBDA size :
                Then(ReadVarint(input, size.pos, GroupBits, CountBits),
                     LAMBDA count : Bytes(size, count)))

ZigzagRead(dec, input, w) ==
    LET Cached(d) ==
            IF d.values_read >= d.value_count THEN No(d)
            ELSE Then(ReadVarint(d.decoded_bytes, d.position, GroupBits, LongBits),
                      LAMBDA r : Yes(UnzigzagShift(Unsigned(r.v, w)),
                                     [d EXCEPT !.position = r.pos,
                                               !.values_read = @ + 1]))
    IN Then(ZigzagInit(dec, input), LAMBDA init : Cached(init.dec))

(***************************************************************************)
(* Simple8b: a word is a selector and the payload it lays out.             *)
(***************************************************************************)
Simple8bNew == [pending |-> <<>>, output |-> <<>>, out |-> <<>>]

(* pack_values: each value cut to the bits of the selector; a selector of  *)
(* 0 bits leaves the payload 0, but for selector 1, which fills it.        *)
PackValues(values, s) ==
    [selector |-> s,
     payload  |-> IF BitsOf(s) = 0
                  THEN <<IF s = AllOnes THEN 2^PayloadBits - 1 ELSE 0>>
                  ELSE [i \in DOMAIN values |-> values[i] % 2^BitsOf(s)]]

FitsIn(values, s) == \A i \in DOMAIN values : values[i] <= MAX_VALUES[s]
Prefix(values, n) == SubSeq(values, 1, IF n < Len(values) THEN n ELSE Len(values))
Smallest(S) == CHOOSE s \in S : \A t \in S : s <= t

(* The word is pushed and the values it holds leave the pending ones.      *)
PushWord(e, word, n) ==
    [e EXCEPT !.output = Append(@, word),
              !.pending = SubSeq(@, n + 1, Len(@))]

TryPack(e) ==
    LET fitting == {s \in Selectors :
                       /\ Count(s) <= Len(e.pending)
                       /\ FitsIn(Prefix(e.pending, Count(s)), s)}
        s == Smallest(fitting)
        forced == PackValues(Prefix(e.pending, 1), LastSelector)
    IN IF fitting # {}
       THEN PushWord(e, PackValues(Prefix(e.pending, Count(s)), s), Count(s))
       ELSE IF Len(e.pending) >= ForceAt THEN PushWord(e, forced, 1) ELSE e

(* An i32 is shifted as an i32 and then widened by sign.                   *)
Simple8bZigzag(v, w) == Unsigned(ZigzagShift(v, w), LongBits)
IsWide(v, w) == Simple8bZigzag(v, w) > MAX_VALUES[LastSelector]

Simple8bEncode(e, v, w) ==
    LET pushed == [e EXCEPT !.pending = Append(@, Simple8bZigzag(v, w))]
    IN IF Len(pushed.pending) >= PackAt THEN TryPack(pushed) ELSE pushed

\* Mutant: when no selector fits, nothing is packed in this round.
FinishWord_NoFallback(e) ==
    LET n == Len(e.pending)
        fitting == {s \in Selectors :
                       IF Count(s) <= n
                       THEN FitsIn(Prefix(e.pending, Count(s)), s)
                       ELSE FitsIn(e.pending, s)}
        s == Smallest(fitting)
        taken == IF Count(s) <= n THEN Count(s) ELSE n
    IN IF fitting = {} THEN e
       ELSE PushWord(e, PackValues(Prefix(e.pending, taken)
                                     \o Zeros(Count(s) - taken), s), taken)

(* One round of finish: the first selector that holds a prefix or, padded  *)
(* with zeros, everything pending; when none does, the last selector cuts  *)
(* one value to its 60 bits.                                               *)
FinishWord(e) ==
    LET n == Len(e.pending)
        fitting == {s \in Selectors :
                       IF Count(s) <= n
                       THEN FitsIn(Prefix(e.pending, Count(s)), s)
                       ELSE FitsIn(e.pending, s)}
        s == IF fitting = {} THEN LastSelector ELSE Smallest(fitting)
        taken == IF Count(s) <= n THEN Count(s) ELSE n
    IN PushWord(e, PackValues(Prefix(e.pending, taken)
                                \o Zeros(Count(s) - taken), s), taken)

(* flush copies every word of `output` and keeps them.                     *)
Simple8bFlush(e) ==
    [e EXCEPT !.out = @ \o [i \in DOMAIN e.output |->
                               Token("word", e.output[i])]]

(* The decoder is of one type and reads numbers of its width for no other. *)
Simple8bTypes(w) == IF w = IntBits THEN {"Int32", "Date"} ELSE {"Int64", "Timestamp"}

Simple8bDecoder(type) ==
    [data_type |-> type, current_word |-> [selector |-> 0, payload |-> <<0>>],
     current_pos |-> 0, pos |-> 1]
HasPendingValues(d) == d.current_pos > 0

EnsureWord(d, input) ==
    IF HasPendingValues(d) THEN Yes(0, d)
    ELSE Then(ReadToken(input, d.pos, "word"),
              LAMBDA r : Yes(0, [d EXCEPT !.current_word = r.v, !.pos = r.pos,
                                          !.current_pos = Count(r.v.selector)]))

ValueAt(word, index) ==
    IF BitsOf(word.selector) = 0 THEN (IF word.selector = AllOnes THEN 1 ELSE 0)
    ELSE word.payload[index + 1]

Simple8bRead(dec, input, w) ==
    LET Taken(d) ==
            LET index == Count(d.current_word.selector) - d.current_pos
            IN Yes(UnzigzagShift(Signed(ValueAt(d.current_word, index), w)),
                   [d EXCEPT !.current_pos = @ - 1])
    IN IF dec.data_type \notin Simple8bTypes(w) THEN No(dec)
       ELSE Then(EnsureWord(dec, input), LAMBDA ready : Taken(ready.dec))

(***************************************************************************)
(* Delta of delta: the first value and the first difference as they are,   *)
(* then the differences of the differences through Simple8b.  Arithmetic   *)
(* wraps in a release build; a build with overflow checks panics instead.  *)
(***************************************************************************)
DeltaNew == [previous_value |-> 0, previous_delta |-> 0, count |-> 0,
             simple8b |-> Simple8bNew, out |-> <<>>]

DeltaOf(e, v) == v - e.previous_value
DeltaOfDelta(e, v) == Signed(DeltaOf(e, v), LongBits) - e.previous_delta
DeltaOverflows(e, v) ==
    \/ e.count >= 1 /\ DeltaOf(e, v) \notin IntRange(LongBits)
    \/ e.count >= 2 /\ DeltaOfDelta(e, v) \notin IntRange(LongBits)

\* Mutant: the previous difference is not carried on.
DeltaEncode_KeepsDelta(e, v) ==
    LET delta == Signed(DeltaOf(e, v), LongBits)
        next  == [e EXCEPT !.previous_value = v, !.count = @ + 1]
    IN CASE e.count = 0 -> [next EXCEPT !.out = Append(@, Token("fixed", v))]
         [] e.count = 1 -> [next EXCEPT !.previous_delta = delta,
                                        !.out = Append(@, Token("fixed", delta))]
         [] OTHER -> [next EXCEPT
                        !.simple8b = Simple8bEncode(@,
                            Signed(DeltaOfDelta(e, v), LongBits), LongBits)]

DeltaEncode(e, v) ==
    LET delta == Signed(DeltaOf(e, v), LongBits)
        next  == [e EXCEPT !.previous_value = v, !.count = @ + 1]
    IN CASE e.count = 0 -> [next EXCEPT !.out = Append(@, Token("fixed", v))]
         [] e.count = 1 -> [next EXCEPT !.previous_delta = delta,
                                        !.out = Append(@, Token("fixed", delta))]
         [] OTHER -> [next EXCEPT
                        !.previous_delta = delta,
                        !.simple8b = Simple8bEncode(@,
                            Signed(DeltaOfDelta(e, v), LongBits), LongBits)]

DeltaFlush(e) ==
    [e EXCEPT !.out = @ \o Simple8bFlush([e.simple8b EXCEPT !.out = <<>>]).out]

(* The encoder packs for Int64 whatever its column's type, the decoder     *)
(* unpacks for the column's.                                               *)
DeltaDecoder(type) == [previous_value |-> 0, previous_delta |-> 0, count |-> 0,
                       simple8b |-> Simple8bDecoder(type), pos |-> 1]

\* Mutant: a word still held does not count.
DeltaHasRemaining_ForgetsWord(d, input) == d.pos <= Len(input)
DeltaHasRemaining(d, input) ==
    d.pos <= Len(input) \/ HasPendingValues(d.simple8b)

DeltaRead(d, input) ==
    LET Next(value, delta, dec) ==
            Yes(value, [dec EXCEPT !.previous_value = value, !.previous_delta = delta,
                                   !.count = @ + 1])
        Added(delta, dec) == Next(Signed(d.previous_value + delta, LongBits), delta, dec)
        Packed(r) == Added(Signed(d.previous_delta + r.v, LongBits),
                           [d EXCEPT !.simple8b = r.dec, !.pos = r.dec.pos])
    IN CASE d.count = 0 -> Then(ReadToken(input, d.pos, "fixed"),
                                LAMBDA r : Next(r.v, 0, [d EXCEPT !.pos = r.pos]))
         [] d.count = 1 -> Then(ReadToken(input, d.pos, "fixed"),
                                LAMBDA r : Added(r.v, [d EXCEPT !.pos = r.pos]))
         [] OTHER -> Then(Simple8bRead([d.simple8b EXCEPT !.pos = d.pos], input, LongBits),
                          Packed)

(***************************************************************************)
(* Dictionary: the distinct strings in order of first use, and the run     *)
(* lengths of their ids, all written by the flush.  The hash map of the    *)
(* source is the inverse of index_entry; the one-slot cache is its own     *)
(* state and may go stale.                                                 *)
(***************************************************************************)
DictionaryNew == [index_entry |-> <<>>, encoded_ids |-> <<>>,
                  cached |-> <<>>, out |-> <<>>]
IdIn(entries, v) == (CHOOSE i \in DOMAIN entries : entries[i] = v) - 1

LookupOrCreate(e, v) ==
    LET entries == IF Contains(e.index_entry, v) THEN e.index_entry
                   ELSE Append(e.index_entry, v)
    IN [e EXCEPT !.index_entry = entries, !.cached = <<v, IdIn(entries, v)>>]

DictionaryEncode(e, v) ==
    LET found == IF e.cached # <<>> /\ e.cached[1] = v THEN e
                 ELSE LookupOrCreate(e, v)
    IN [found EXCEPT !.encoded_ids = Append(@, found.cached[2])]

(* Ids and counts are zigzagged although none is negative.                 *)
IdVarint(n) == Varint(2 * n, GroupBits)
ReadIdVarint(input, pos) ==
    LET r == ReadVarint(input, pos, GroupBits, CountBits)
    IN [r EXCEPT !.v = UnzigzagShift(@)]

WriteDictionary(e) ==
    IdVarint(Len(e.index_entry))
      \o [i \in DOMAIN e.index_entry |-> Token("str", e.index_entry[i])]

(* The runs of a sequence, as pairs of an element and its count.           *)
RunsOf(s) ==
    FoldLeft(LAMBDA runs, x :
                 IF runs # <<>> /\ Last(runs)[1] = x
                 THEN Append(Front(runs), <<x, Last(runs)[2] + 1>>)
                 ELSE Append(runs, <<x, 1>>),
             <<>>, s)
WriteEncodedIds(ids) ==
    FlattenSeq([i \in DOMAIN RunsOf(ids) |->
                  IdVarint(RunsOf(ids)[i][1]) \o IdVarint(RunsOf(ids)[i][2])])

\* Mutant: the flush forgets the strings but not the cached id.
DictionaryFlush_KeepsCache(e) ==
    [DictionaryNew EXCEPT
        !.cached = e.cached,
        !.out = e.out \o WriteDictionary(e) \o WriteEncodedIds(e.encoded_ids)]

DictionaryFlush(e) ==
    [DictionaryNew EXCEPT
        !.out = e.out \o WriteDictionary(e) \o WriteEncodedIds(e.encoded_ids)]

DictionaryDecoder == [dictionary |-> <<>>, decoded_ids |-> <<>>,
                      position |-> 0, pos |-> 1]

InitDictionary(d, input) ==
    LET Strings(count, last) ==
            IF last > Len(input) \/ \E i \in count.pos..last : input[i][1] # "str"
            THEN No(d)
            ELSE Yes(0, [d EXCEPT
                    !.dictionary = [i \in 1..count.v |-> input[count.pos + i - 1][2]],
                    !.pos = last + 1])
    IN IF d.dictionary # <<>> THEN Yes(0, d)
       ELSE Then(ReadIdVarint(input, d.pos),
                 LAMBDA count : Strings(count, count.pos + count.v - 1))

(* Every pair to the end of the input; `pos` is put back where they start. *)
DecodeIds(d, input) ==
    LET Added(acc, id, count) == [acc EXCEPT !.ids = @ \o [j \in 1..count.v |-> id.v],
                                             !.pos = count.pos]
        Pair(acc) ==
            Then(ReadIdVarint(input, acc.pos), LAMBDA id :
                Then(ReadIdVarint(input, id.pos), LAMBDA count : Added(acc, id, count)))
        all == FoldLeft(LAMBDA acc, i : IF acc.ok /\ acc.pos <= Len(input)
                                        THEN Pair(acc) ELSE acc,
                        [ok |-> TRUE, ids |-> <<>>, pos |-> d.pos],
                        [i \in 1..Len(input) |-> i])
    IN IF d.decoded_ids # <<>> THEN Yes(0, d)
       ELSE Then(all, LAMBDA r : Yes(0, [d EXCEPT !.decoded_ids = r.ids, !.position = 0]))

DictionaryRead(dec, input) ==
    LET Taken(d) ==
            LET id   == d.decoded_ids[d.position + 1]
                next == [d EXCEPT !.position = @ + 1]
            IN IF d.position >= Len(d.decoded_ids) THEN No(d)
               ELSE IF id >= Len(d.dictionary) THEN No(next)
               ELSE Yes(d.dictionary[id + 1], next)
    IN Then(InitDictionary(dec, input), LAMBDA init :
           Then(DecodeIds(init.dec, input), LAMBDA ids : Taken(ids.dec)))

(***************************************************************************)
(* Dictionary-RLE: one call encodes a whole series of doubles.             *)
(***************************************************************************)
DictionaryRleNew == [dictionary |-> <<>>, runs |-> <<>>, current_value |-> <<>>,
                     current_run |-> 0, last_cached |-> <<>>, failed |-> FALSE]

LookupOrCreateIndex(e, v) ==
    IF Contains(e.dictionary, v)
    THEN [e EXCEPT !.last_cached = <<v, IdIn(e.dictionary, v)>>]
    ELSE IF Len(e.dictionary) >= MaxDictionary THEN [e EXCEPT !.failed = TRUE]
    ELSE [e EXCEPT !.dictionary = Append(@, v),
                   !.last_cached = <<v, Len(e.dictionary)>>]

DictionaryRleFlushRun(e) ==
    IF e.current_run = 0 THEN e
    ELSE [e EXCEPT !.runs = Append(@, <<e.current_value[2], e.current_run>>),
                   !.current_run = 0]

DictionaryRleEncodeValue(e, v) ==
    LET found == IF e.last_cached # <<>> /\ e.last_cached[1] = v THEN e
                 ELSE LookupOrCreateIndex(e, v)
    IN IF found.failed THEN found
       ELSE IF e.current_value # <<>> /\ e.current_value[1] = v
       THEN [found EXCEPT !.current_run = @ + 1]
       ELSE [DictionaryRleFlushRun(found) EXCEPT
                !.current_value = found.last_cached, !.current_run = 1]

DictionaryRleFinish(e) ==
    <<Token("size", Len(e.dictionary))>>
      \o [i \in DOMAIN e.dictionary |-> Token("fixed", e.dictionary[i])]
      \o <<Token("runs", Len(e.runs))>>
      \o FlattenSeq([i \in DOMAIN e.runs |->
                       <<Token("index", e.runs[i][1])>>
                         \o Varint(e.runs[i][2], GroupBits)])

(* The state left by the last series is cleared first; the series is       *)
(* refused as a whole at its first value beyond MaxDictionary.             *)
DictionaryRleSeries(values) ==
    LET e == DictionaryRleFlushRun(
                 FoldLeft(LAMBDA acc, v : IF acc.failed THEN acc
                                          ELSE DictionaryRleEncodeValue(acc, v),
                          DictionaryRleNew, values))
    IN [ok |-> ~e.failed, out |-> IF e.failed THEN <<>> ELSE DictionaryRleFinish(e)]

DictionaryRleDecode(input) ==
    LET size == input[1][2]
        dictionary == [i \in 1..size |-> input[1 + i][2]]
        Next(acc, i) ==
            LET index == ReadToken(input, acc.pos, "index")
                run   == ReadVarint(input, index.pos, GroupBits, CountBits)
            IN IF acc.ok /\ index.ok /\ run.ok /\ index.v < size
               THEN [ok |-> TRUE, pos |-> run.pos,
                     values |-> acc.values
                                  \o [j \in 1..run.v |-> dictionary[index.v + 1]]]
               ELSE [acc EXCEPT !.ok = FALSE]
    IN IF input = <<>> THEN [ok |-> TRUE, values |-> <<>>, pos |-> 1]
       ELSE FoldLeft(Next, [ok |-> TRUE, values |-> <<>>, pos |-> size + 3],
                     [i \in 1..input[size + 2][2] |-> i])

(***************************************************************************)
(* Quantized: a series of doubles close to multiples of a step.  Doubles   *)
(* are integers of a fine grid here; two ratios are close when they differ *)
(* by less than 0.05.                                                      *)
(***************************************************************************)
Distance(a, b) == IF a > b THEN a - b ELSE b - a
RoundRatio(x, step) == (2 * x + step) \div (2 * step)
CloseToMultiple(x, step) == 20 * Distance(x, step * RoundRatio(x, step)) < step

(* <<>> when no step is found, else the smallest value and the step.       *)
DetectQuantization(data) ==
    LET values == Range(data)
        min    == Smallest(values)
        diffs  == {Distance(data[i + 1], data[i]) : i \in 1..(Len(data) - 1)} \ {0}
        step   == Smallest(diffs)
    IN IF Len(data) < 3 THEN <<>>
       ELSE IF diffs = {} THEN <<min, 1>>
       ELSE IF /\ \A x \in diffs : CloseToMultiple(x, step)
               /\ \A v \in values : CloseToMultiple(v - min, step)
       THEN <<min, step>> ELSE <<>>

\* Mutant: the index is truncated instead of rounded.
IndexOf_Truncates(v, min, step) == (v - min) \div step
IndexOf(v, min, step) == RoundRatio(v - min, step)

QuantizedSeries(values, min, step) ==
    LET indices == [i \in DOMAIN values |-> IndexOf(values[i], min, step)]
        deltas  == [i \in 1..(Len(values) - 1) |-> indices[i + 1] - indices[i]]
        packed  == FoldLeft(LAMBDA e, x : Simple8bEncode(e, x, LongBits),
                            Simple8bNew, deltas)
        drained == FoldLeft(LAMBDA e, i : IF e.pending = <<>> THEN e
                                          ELSE FinishWord(e),
                            packed, deltas)
    IN <<Token("fixed", min), Token("fixed", step),
         Token("count", Len(values)), Token("fixed", indices[1])>>
         \o Simple8bFlush(drained).out

QuantizedDecode(input) ==
    LET Sum(acc, i) ==
            LET r == Simple8bRead(acc.dec, input, LongBits)
            IN IF acc.ok /\ r.ok
               THEN [ok |-> TRUE, dec |-> r.dec,
                     indices |-> Append(acc.indices, Last(acc.indices) + r.v)]
               ELSE [acc EXCEPT !.ok = FALSE]
        all == FoldLeft(Sum,
                   [ok |-> TRUE, indices |-> <<input[4][2]>>,
                    dec |-> [Simple8bDecoder("Int64") EXCEPT !.pos = 5]],
                   [i \in 1..(input[3][2] - 1) |-> i])
    IN [ok |-> all.ok,
        values |-> [i \in DOMAIN all.indices |->
                      input[1][2] + all.indices[i] * input[2][2]]]
=============================================================================
