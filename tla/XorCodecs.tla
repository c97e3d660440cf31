----------------------------- MODULE XorCodecs -----------------------------
(***************************************************************************)
(* Gorilla and Chimp128: each value is written as the bits in which it     *)
(* differs from the one before.  Both encoders pack bits in a 64-bit       *)
(* buffer that leaves whole bytes to the output, and both decoders refill  *)
(* a 64-bit buffer from whole bytes.                                       *)
(*                                                                         *)
(* `spilled` is a history variable of the model: a write did not fit, that *)
(* is, it started behind other bits and reached past the end of the        *)
(* buffer, or its value was wider than its field.  The code does not look. *)
(* Sizes are constants with the proportions of the source: a buffer as     *)
(* wide as a double, a float of half of it, several bytes to a float.      *)
(***************************************************************************)
EXTENDS Words

CONSTANTS
    BufferBits,  \* bit_buffer, and f64 and i64: 64
    HalfBits,    \* f32 and i32: 32
    ByteBits,    \* 8
    WideField,   \* leading zeros and length of a 64-bit value: 6
    HalfField    \* the same for a 32-bit value: 5

ASSUME XorAssumption ==
    /\ {BufferBits, HalfBits, ByteBits, WideField, HalfField} \subseteq Nat \ {0}
    /\ HalfBits + ByteBits <= BufferBits /\ BufferBits % ByteBits = 0
    /\ BufferBits = 2^WideField /\ HalfBits = 2^HalfField /\ WideField <= HalfBits

(* previous_leading before the first difference: no count reaches it.      *)
NoRange == 4 * BufferBits

NativeBits(type) ==
    IF type \in {"Float", "Int32", "Date"} THEN HalfBits ELSE BufferBits

(***************************************************************************)
(* The bits of the encoder.                                                *)
(***************************************************************************)
(* `bit_buffer |= value << shift`: the shift saturates at 0, so the last   *)
(* bit of the value lands at `end` and the bits in front of it are or-ed   *)
(* over what is already there.                                             *)
Pack(e, value, end) ==
    [i \in 1..BufferBits |->
       IF i <= end /\ (value \div 2^(end - i)) % 2 = 1 THEN 1
       ELSE e.bit_buffer[i]]

(* `whole` bits of a buffer filled up to `fill` leave it.                   *)
Drain(e, packed, fill, whole) ==
    [e EXCEPT !.buffer = @ \o SubSeq(packed, 1, whole),
              !.bit_buffer = SubSeq(packed, whole + 1, BufferBits) \o Zeros(whole),
              !.bits_in_buffer = fill - whole]

\* Mutant: a single whole byte stays in the buffer.
WholeBytes_InPairs(fill) == (fill \div (2 * ByteBits)) * 2 * ByteBits
WholeBytes(fill) == (fill \div ByteBits) * ByteBits

(* A full buffer leaves at once, whatever reached past its end; otherwise  *)
(* the whole bytes leave.                                                  *)
GorillaWriteBits(e, value, n) ==
    LET end  == e.bits_in_buffer + n
        fill == IF end > BufferBits THEN BufferBits ELSE end
    IN IF n = 0 THEN e
       ELSE [Drain(e, Pack(e, value, fill), fill, WholeBytes(fill))
             EXCEPT !.spilled = @ \/ end > BufferBits \/ value >= 2^n]

GorillaWriteBit(e, bit) ==
    LET fill == e.bits_in_buffer + 1
    IN Drain(e, Pack(e, bit, fill), fill, IF fill >= ByteBits THEN ByteBits ELSE 0)

\* Mutant: the last, partial byte stays in the bit buffer.
FlushBits_KeepsTail(e) == [e EXCEPT !.bits_in_buffer = 0]
FlushBits(e) ==
    IF e.bits_in_buffer = 0 THEN e
    ELSE [e EXCEPT !.buffer = @ \o SubSeq(e.bit_buffer, 1, ByteBits),
                   !.bit_buffer = Zeros(BufferBits), !.bits_in_buffer = 0]

TakeBuffer(e) ==
    [e EXCEPT !.out = @ \o [i \in DOMAIN e.buffer |-> Token("bit", e.buffer[i])],
              !.buffer = <<>>]

(***************************************************************************)
(* The bits of the decoder: byte_pos bytes have been taken from the input, *)
(* of which the last bits_available bits are not consumed.  One refill     *)
(* takes all that fits or all there is, so a second never helps.           *)
(***************************************************************************)
BitReader == [byte_pos |-> 0, bits_available |-> 0]

RefillBuffer(d, input) ==
    LET left  == Len(input) \div ByteBits - d.byte_pos
        room  == (BufferBits - d.bits_available) \div ByteBits
        bytes == IF left < room THEN left ELSE room
    IN [d EXCEPT !.byte_pos = @ + bytes, !.bits_available = @ + bytes * ByteBits]

BitsFail(d) == [ok |-> FALSE, v |-> 0, dec |-> d]
ReadBits(dec, input, n) ==
    LET d    == IF dec.bits_available < n THEN RefillBuffer(dec, input) ELSE dec
        from == d.byte_pos * ByteBits - d.bits_available
    IN IF n = 0 THEN [ok |-> TRUE, v |-> 0, dec |-> dec]
       ELSE IF n < 0 \/ d.bits_available < n THEN BitsFail(d)
       ELSE [ok |-> TRUE,
             v |-> NumberOf([i \in 1..n |-> input[from + i][2]]),
             dec |-> [d EXCEPT !.bits_available = @ - n]]

BitsRemain(d, input) ==
    d.byte_pos < Len(input) \div ByteBits \/ d.bits_available > 0

(* `previous ^ (bits << trailing)` in the width of the buffer.             *)
Difference(previous, bits, trailing) ==
    NumberOf(Xor(Bits(previous, BufferBits), Bits(bits * 2^trailing, BufferBits)))

(***************************************************************************)
(* Gorilla.                                                                *)
(***************************************************************************)
GorillaWidths(type) ==
    IF type \in {"Float", "Int32"}
    THEN [field |-> HalfField, value |-> HalfBits]
    ELSE [field |-> WideField, value |-> BufferBits]

GorillaNew(type) ==
    [widths |-> GorillaWidths(type), first_value |-> <<>>, previous_value |-> 0,
     previous_leading |-> NoRange, previous_trailing |-> 0,
     buffer |-> <<>>, bit_buffer |-> Zeros(BufferBits), bits_in_buffer |-> 0,
     spilled |-> FALSE, out |-> <<>>]

GorillaReset(e) ==
    [e EXCEPT !.first_value = <<>>, !.previous_value = 0,
              !.previous_leading = NoRange, !.previous_trailing = 0,
              !.buffer = <<>>, !.bit_buffer = Zeros(BufferBits),
              !.bits_in_buffer = 0, !.spilled = FALSE]

(* A new block announces its leading zeros and its length less one.        *)
GorillaNewBlock(e, xor, leading, trailing) ==
    LET length == e.widths.value - leading - trailing
        head   == GorillaWriteBits(GorillaWriteBits(GorillaWriteBit(e, 1),
                                     leading, e.widths.field),
                                   length - 1, e.widths.field)
    IN [GorillaWriteBits(head, xor \div 2^trailing, length) EXCEPT
          !.previous_leading = leading, !.previous_trailing = trailing]

(* The zeros of the difference are counted in the width of the type.       *)
GorillaEncode(e, v, type) ==
    LET native   == NativeBits(type)
        bits     == Xor(Bits(v, native), Bits(e.previous_value, native))
        xor      == NumberOf(bits)
        leading  == LeadingZeros(bits)
        trailing == TrailingZeros(bits)
        changed  == GorillaWriteBit(e, 1)
        length   == e.widths.value - e.previous_leading - e.previous_trailing
    IN IF e.first_value = <<>>
       THEN GorillaWriteBits([e EXCEPT !.first_value = <<v>>,
                                       !.previous_value = v],
                             v, e.widths.value)
       ELSE IF xor = 0 THEN GorillaWriteBit(e, 0)
       ELSE [(IF leading >= e.previous_leading /\ trailing >= e.previous_trailing
              THEN GorillaWriteBits(GorillaWriteBit(changed, 0),
                                    xor \div 2^e.previous_trailing, length)
              ELSE GorillaNewBlock(changed, xor, leading, trailing))
             EXCEPT !.previous_value = v]

GorillaFlush(e) == TakeBuffer(FlushBits(e))

(* Several values in one call.                                             *)
GorillaEncodeBatch(e, values, type) ==
    LET after[i \in 0..Len(values)] ==
            IF i = 0 THEN e ELSE GorillaEncode(after[i - 1], values[i], type)
    IN after[Len(values)]

GorillaDecoder(type) ==
    [widths |-> GorillaWidths(type), first_value |-> <<>>, previous_value |-> 0,
     previous_leading |-> NoRange, previous_trailing |-> 0] @@ BitReader

(* The field of a block: the previous one, or a new one.  A stream out of  *)
(* step makes the subtractions underflow: the read fails.                  *)
GorillaBlock(d, input) ==
    LET Announced(leading, length) ==
            [ok |-> TRUE, v |-> length.v + 1,
             dec |-> [length.dec EXCEPT
                        !.previous_leading = leading.v,
                        !.previous_trailing =
                            d.widths.value - leading.v - (length.v + 1)]]
    IN Then(ReadBits(d, input, d.widths.field), LAMBDA leading :
           Then(ReadBits(leading.dec, input, d.widths.field),
                LAMBDA length : Announced(leading, length)))

GorillaRead(d, input) ==
    LET First(r) == [r EXCEPT !.dec = [@ EXCEPT !.first_value = <<r.v>>,
                                                !.previous_value = r.v]]
        Block(fresh) ==
            IF fresh.v = 1 THEN GorillaBlock(fresh.dec, input)
            ELSE [ok |-> TRUE, dec |-> fresh.dec,
                  v |-> d.widths.value - d.previous_leading - d.previous_trailing]
        Value(xor) ==
            LET value == Difference(d.previous_value, xor.v, xor.dec.previous_trailing)
            IN [ok |-> TRUE, v |-> value,
                dec |-> [xor.dec EXCEPT !.previous_value = value]]
        Within(block) ==
            IF block.dec.previous_trailing < 0 THEN BitsFail(d)
            ELSE Then(ReadBits(block.dec, input, block.v), Value)
        Changed(r) ==
            IF r.v = 0 THEN [r EXCEPT !.v = d.previous_value]
            ELSE Then(ReadBits(r.dec, input, 1), LAMBDA fresh : Then(Block(fresh), Within))
    IN IF d.first_value = <<>> THEN Then(ReadBits(d, input, d.widths.value), First)
       ELSE Then(ReadBits(d, input, 1), Changed)

GorillaReadBatch(d, input, count) ==
    ReadBatch(LAMBDA dec : GorillaRead(dec, input), d, count)

(***************************************************************************)
(* Chimp128.  Only floats and doubles; both announce a range with fields   *)
(* of six bits, the length as it is.                                       *)
(***************************************************************************)
ChimpWidth(type) == IF type = "Float" THEN HalfBits ELSE BufferBits

ChimpNew(type) ==
    [bit_width |-> ChimpWidth(type), prev_value |-> 0, prev_leading |-> NoRange,
     prev_trailing |-> 0, count |-> 0,
     buffer |-> <<>>, bit_buffer |-> Zeros(BufferBits), bits_in_buffer |-> 0,
     spilled |-> FALSE, out |-> <<>>]

ChimpReset(e) ==
    [e EXCEPT !.prev_value = 0, !.prev_leading = NoRange, !.prev_trailing = 0,
              !.count = 0, !.buffer = <<>>, !.bit_buffer = Zeros(BufferBits),
              !.bits_in_buffer = 0, !.spilled = FALSE]

ChimpWriteBits(e, value, n) == GorillaWriteBits(e, value, n)
ChimpWriteBit(e, bit) == GorillaWriteBit(e, bit)
WriteFlags(e, last) ==
    ChimpWriteBit(ChimpWriteBit(ChimpWriteBit(e, 1), 1), last)

(* The range of the difference is the previous one (2), one wider by a bit *)
(* on the left (3), or a new one (4).                                      *)
SameRange(e, xor) ==
    ChimpWriteBits(ChimpWriteBit(ChimpWriteBit(e, 1), 0), xor \div 2^e.prev_trailing,
                   e.bit_width - e.prev_leading - e.prev_trailing)
CloseRange(e, xor, leading) ==
    LET delta == ChimpWriteBits(WriteFlags(e, 0),
                                leading - e.prev_leading + 1, 2)
    IN [ChimpWriteBits(delta, xor \div 2^e.prev_trailing,
                       e.bit_width - leading - e.prev_trailing)
        EXCEPT !.prev_leading = leading]
NewRange(e, xor, leading, trailing) ==
    LET length == e.bit_width - leading - trailing
        head   == ChimpWriteBits(ChimpWriteBits(WriteFlags(e, 1),
                                   leading, WideField), length, WideField)
    IN [ChimpWriteBits(head, xor \div 2^trailing, length)
        EXCEPT !.prev_leading = leading, !.prev_trailing = trailing]

ChimpEncode(e, v) ==
    LET bits     == Xor(Bits(v, e.bit_width), Bits(e.prev_value, e.bit_width))
        xor      == NumberOf(bits)
        leading  == LeadingZeros(bits)
        trailing == TrailingZeros(bits)
        written  ==
            IF e.count = 0 THEN ChimpWriteBits(e, v, e.bit_width)
            ELSE IF xor = 0 THEN ChimpWriteBit(e, 0)
            ELSE IF leading >= e.prev_leading /\ trailing >= e.prev_trailing
            THEN SameRange(e, xor)
            ELSE IF trailing = e.prev_trailing
                    /\ leading \in (e.prev_leading - 1)..(e.prev_leading + 1)
            THEN CloseRange(e, xor, leading)
            ELSE NewRange(e, xor, leading, trailing)
    IN [written EXCEPT !.prev_value = v, !.count = @ + 1]

ChimpFlush(e) == TakeBuffer(FlushBits(e))

ChimpEncodeBatch(e, values) ==
    LET after[i \in 0..Len(values)] ==
            IF i = 0 THEN e ELSE ChimpEncode(after[i - 1], values[i])
    IN after[Len(values)]

ChimpDecoder(type) ==
    [bit_width |-> ChimpWidth(type), prev_value |-> 0, prev_leading |-> NoRange,
     prev_trailing |-> 0, count |-> 0] @@ BitReader

(* The flags, up to the first 0: their number of ones is the case.         *)
ReadCase(d, input) ==
    LET Flag(acc, i) ==
            LET bit == ReadBits(acc.dec, input, 1)
            IN IF acc.done THEN acc
               ELSE [ok |-> bit.ok, done |-> ~bit.ok \/ bit.v = 0,
                     v |-> acc.v + bit.v, dec |-> bit.dec]
    IN FoldLeft(Flag, [ok |-> TRUE, done |-> FALSE, v |-> 0, dec |-> d], <<1, 2, 3>>)

(* The range of a difference: [leading, length].                           *)
ReadRange(case, input) ==
    LET d == case.dec
        Announced(start, n, dec) == [ok |-> TRUE, leading |-> start,
                                     length |-> n, dec |-> dec]
        Moved(delta) ==
            LET start == d.prev_leading + delta.v - 1
            IN IF delta.v = 3 THEN BitsFail(d)
               ELSE Announced(start, d.bit_width - start - d.prev_trailing, delta.dec)
    IN CASE case.v = 1 ->
              Announced(d.prev_leading,
                        d.bit_width - d.prev_leading - d.prev_trailing, d)
         [] case.v = 2 -> Then(ReadBits(d, input, 2), Moved)
         [] case.v = 3 ->
              Then(ReadBits(d, input, WideField), LAMBDA leading :
                  Then(ReadBits(leading.dec, input, WideField), LAMBDA length :
                      Announced(leading.v, length.v, length.dec)))

ChimpRead(d, input) ==
    LET Next(dec, v) == [ok |-> TRUE, v |-> v,
                         dec |-> [dec EXCEPT !.prev_value = v, !.count = @ + 1]]
        Value(xor, range, trailing) ==
            Next([xor.dec EXCEPT !.prev_leading = range.leading,
                                 !.prev_trailing = trailing],
                 Difference(d.prev_value, xor.v, trailing))
        Within(range) ==
            LET trailing == d.bit_width - range.leading - range.length
            IN IF trailing < 0 THEN BitsFail(d)
               ELSE Then(ReadBits(range.dec, input, range.length),
                         LAMBDA xor : Value(xor, range, trailing))
        Changed(case) == IF case.v = 0 THEN Next(case.dec, d.prev_value)
                         ELSE Then(ReadRange(case, input), Within)
    IN IF d.count = 0
       THEN Then(ReadBits(d, input, d.bit_width), LAMBDA first : Next(first.dec, first.v))
       ELSE Then(ReadCase(d, input), Changed)

ChimpReadBatch(d, input, count) ==
    ReadBatch(LAMBDA dec : ChimpRead(dec, input), d, count)
=============================================================================
