--------------------------- MODULE SprintzCodecs ---------------------------
(***************************************************************************)
(* Sprintz: blocks of one value and BLOCK_SIZE prediction errors.  The     *)
(* errors of a block are zigzagged and packed at the width of the largest; *)
(* blocks wait in a cache until GROUP_MAX of them, or the flush, write     *)
(* them out.  What does not fill a block is written as it is.              *)
(*                                                                         *)
(* There is one encoder and one decoder for each of four types.  They      *)
(* differ in the width of their words, in the predictor (FireI32, FireI64) *)
(* and in how the first value of a block is laid out: a varint for the     *)
(* integers, a fixed word for the floating types, whose bits are cast to a *)
(* signed integer before they are predicted.                               *)
(***************************************************************************)
EXTENDS Words

CONSTANTS
    Word32, Word64,  \* the two widths of words
    BLOCK_SIZE,      \* predicted values of a block: 8
    GROUP_MAX,       \* blocks in the cache: 16
    LearnShift,      \* `new(2)` in every encoder and decoder
    FireBits,        \* FireI32's bit_width: 8, and by type, FireI64's: 16
    ByteGroup        \* bits of a varint byte: 7

ASSUME SprintzAssumption ==
    /\ {Word32, Word64, BLOCK_SIZE, GROUP_MAX, ByteGroup} \subseteq Nat \ {0}
    /\ LearnShift \in Nat /\ FireBits[32] \in Nat /\ FireBits[64] \in Nat
    /\ Word32 <= Word64

SprintzTypes == {"Int32", "Int64", "Float", "Double"}
IsFloating(type) == type \in {"Float", "Double"}
WordOf(type) == IF type \in {"Int32", "Float"} THEN Word32 ELSE Word64

(* The codec's zigzag: saturating, so the largest errors lose their value  *)
(* and, when positive, their sign.                                         *)
SprintzZigzag(n, w) ==
    IF n <= 0 THEN Saturate(-2 * n, w) ELSE Saturate(2 * n, w) - 1
SprintzUnzigzag(n, w) ==
    IF n % 2 = 0 THEN -(n \div 2)
    ELSE LET next == Signed(n + 1, w)
         IN IF next < 0 THEN -((-next) \div 2) ELSE next \div 2
Saturates(n, w) == SprintzUnzigzag(SprintzZigzag(n, w), w) # n

(***************************************************************************)
(* The predictors.  FireI32 multiplies in 64 bits and then truncates,      *)
(* FireI64 wraps the product and then shifts.                              *)
(***************************************************************************)
FireNew == [accumulator |-> 0, delta |-> 0]
Alpha(f) == f.accumulator \div 2^LearnShift

FirePredict32(f, value) ==
    Signed(value + Signed((Alpha(f) * f.delta) \div 2^FireBits[32], Word32), Word32)
FirePredict64(f, value) ==
    Signed(value + Signed(Alpha(f) * f.delta, Word64) \div 2^FireBits[64], Word64)
FirePredict(f, value, type) ==
    IF WordOf(type) = Word32 THEN FirePredict32(f, value)
    ELSE FirePredict64(f, value)

FireTrain(f, pre, val, err, w) ==
    LET gradient == IF err > 0 THEN Signed(-f.delta, w) ELSE f.delta
    IN [accumulator |-> Signed(f.accumulator - gradient, w),
        delta |-> Signed(val - pre, w)]

(***************************************************************************)
(* Packing at a common width, most significant bit first.                  *)
(***************************************************************************)
MaxBitWidth(values) ==
    LET widths == {n \in 0..Word64 : \A i \in DOMAIN values : values[i] < 2^n}
    IN CHOOSE n \in widths : \A m \in widths : n <= m
PackValuesAt(values, width) ==
    FlattenSeq([i \in DOMAIN values |-> Bits(values[i], width)])
UnpackValues(bits, width) ==
    [i \in 1..BLOCK_SIZE |->
       NumberOf(SubSeq(bits, width * (i - 1) + 1, width * i))]

(***************************************************************************)
(* The encoder.  `lost` is a history variable: an error saturated.         *)
(***************************************************************************)
SprintzNew == [values |-> <<>>, byte_cache |-> <<>>, group_num |-> 0,
               fire_pred |-> FireNew, is_first_cached |-> FALSE,
               lost |-> FALSE, out |-> <<>>]

AsInteger(v, w) == Signed(v, w)

\* Mutant: the predictor keeps what it learned from the block before.
Predictions_NoReset(e, type) ==
    LET w == WordOf(type)
        Predict(acc, i) ==
            LET prev == AsInteger(e.values[i], w)
                val  == AsInteger(e.values[i + 1], w)
                err  == Signed(val - FirePredict(acc.fire, prev, type), w)
            IN [fire |-> FireTrain(acc.fire, prev, val, err, w),
                errs |-> Append(acc.errs, err)]
    IN FoldLeft(Predict, [fire |-> e.fire_pred, errs |-> <<>>],
                [i \in 1..BLOCK_SIZE |-> i])

(* The errors of a full block, each value predicted from the one before    *)
(* it, and the predictor they leave.                                       *)
Predictions(e, type) ==
    LET w == WordOf(type)
        Predict(acc, i) ==
            LET prev == AsInteger(e.values[i], w)
                val  == AsInteger(e.values[i + 1], w)
                err  == Signed(val - FirePredict(acc.fire, prev, type), w)
            IN [fire |-> FireTrain(acc.fire, prev, val, err, w),
                errs |-> Append(acc.errs, err)]
    IN FoldLeft(Predict, [fire |-> FireNew, errs |-> <<>>],
                [i \in 1..BLOCK_SIZE |-> i])

FirstValue(v, type) ==
    IF IsFloating(type) THEN <<Token("fixed", v)>>
    ELSE Varint(Unsigned(v, WordOf(type)), ByteGroup)

BitPack(values, type, first) ==
    LET width == MaxBitWidth(values)
    IN <<Token("width", width)>> \o FirstValue(first, type)
         \o <<Token("packed", PackValuesAt(values, width))>>

EncodeBlock(e, type) ==
    LET w == WordOf(type)
        p == Predictions(e, type)
        zigzags == [i \in DOMAIN p.errs |-> SprintzZigzag(p.errs[i], w)]
    IN [e EXCEPT !.byte_cache = @ \o BitPack(zigzags, type, e.values[1]),
                 !.values = <<>>, !.is_first_cached = FALSE,
                 !.group_num = @ + 1, !.fire_pred = p.fire,
                 !.lost = @ \/ \E i \in DOMAIN p.errs : Saturates(p.errs[i], w)]

FlushInternal(e) ==
    [e EXCEPT !.out = @ \o e.byte_cache, !.byte_cache = <<>>, !.group_num = 0]

SprintzEncode(e, v, type) ==
    LET pushed == [e EXCEPT !.values = Append(@, v), !.is_first_cached = TRUE]
        block  == IF Len(pushed.values) = BLOCK_SIZE + 1
                  THEN EncodeBlock(pushed, type) ELSE pushed
    IN IF block.group_num = GROUP_MAX THEN FlushInternal(block) ELSE block

(* A block that is not full is flagged in its size.                        *)
PartialBlock(values) ==
    IF values = <<>> THEN <<>>
    ELSE <<Token("partial", Len(values))>>
           \o [i \in DOMAIN values |-> Token("fixed", values[i])]

SprintzFlush(e) ==
    LET flushed == FlushInternal(e)
    IN [flushed EXCEPT !.out = @ \o PartialBlock(e.values),
                       !.values = <<>>, !.is_first_cached = FALSE]

(***************************************************************************)
(* The decoder.                                                            *)
(***************************************************************************)
SprintzDecoder == [current_buffer |-> <<>>, current_count |-> 0,
                   decode_size |-> 0, is_block_read |-> FALSE, pos |-> 1]

(* Undoes zigzag and prediction, each value from the one just restored.    *)
Recalculate(first, zigzags, type) ==
    LET w == WordOf(type)
        Restore(acc, z) ==
            LET prev == AsInteger(Last(acc.values), w)
                err  == SprintzUnzigzag(z, w)
                val  == Signed(FirePredict(acc.fire, prev, type) + err, w)
            IN [fire |-> FireTrain(acc.fire, prev, val, err, w),
                values |-> Append(acc.values,
                             IF IsFloating(type) THEN Unsigned(val, w) ELSE val)]
    IN FoldLeft(Restore, [fire |-> FireNew, values |-> <<first>>], zigzags).values

ReadFirst(input, pos, type) ==
    LET w == WordOf(type)
        r == ReadVarint(input, pos, ByteGroup, w)
    IN IF IsFloating(type) THEN ReadToken(input, pos, "fixed")
       ELSE [r EXCEPT !.v = Signed(@, w)]

DecodeBlock(d, input, type) ==
    LET Block(values, pos) ==
            [ok |-> TRUE,
             dec |-> [d EXCEPT !.current_buffer = values, !.current_count = 0,
                               !.decode_size = Len(values),
                               !.is_block_read = TRUE, !.pos = pos]]
        Partial(size) == IF d.pos + size > Len(input) THEN Failed(d.pos)
                         ELSE Block([i \in 1..size |-> input[d.pos + i][2]], d.pos + size + 1)
        Full(width, first, packed) ==
            Block(Recalculate(first.v, UnpackValues(packed.v, width.v), type), packed.pos)
    IN IF ReadToken(input, d.pos, "partial").ok THEN Partial(input[d.pos][2])
       ELSE Then(ReadToken(input, d.pos, "width"), LAMBDA width :
                Then(ReadFirst(input, width.pos, type), LAMBDA first :
                    Then(ReadToken(input, first.pos, "packed"),
                         LAMBDA packed : Full(width, first, packed))))

SprintzRead(dec, input, type) ==
    LET Taken(d) ==
            LET last == d.current_count + 1 = d.decode_size
            IN [ok |-> TRUE, v |-> d.current_buffer[d.current_count + 1],
                dec |-> [d EXCEPT !.is_block_read = ~last,
                                  !.current_count = IF last THEN 0 ELSE @ + 1]]
    IN IF dec.is_block_read THEN Taken(dec)
       ELSE Then(DecodeBlock(dec, input, type), LAMBDA block : Taken(block.dec))

(***************************************************************************)
(* The four encoders and decoders.                                         *)
(***************************************************************************)
Int32Encode(e, v)  == SprintzEncode(e, v, "Int32")
Int64Encode(e, v)  == SprintzEncode(e, v, "Int64")
FloatEncode(e, v)  == SprintzEncode(e, v, "Float")
DoubleEncode(e, v) == SprintzEncode(e, v, "Double")
SprintzDispatch(e, v, type) ==
    CASE type = "Int32"  -> Int32Encode(e, v)
      [] type = "Int64"  -> Int64Encode(e, v)
      [] type = "Float"  -> FloatEncode(e, v)
      [] type = "Double" -> DoubleEncode(e, v)

ReadInt32(d, input)  == SprintzRead(d, input, "Int32")
ReadInt64(d, input)  == SprintzRead(d, input, "Int64")
ReadFloat(d, input)  == SprintzRead(d, input, "Float")
ReadDouble(d, input) == SprintzRead(d, input, "Double")
ReadDispatch(d, input, type) ==
    CASE type = "Int32"  -> ReadInt32(d, input)
      [] type = "Int64"  -> ReadInt64(d, input)
      [] type = "Float"  -> ReadFloat(d, input)
      [] type = "Double" -> ReadDouble(d, input)
=============================================================================
