------------------------------- MODULE Codecs -------------------------------
(***************************************************************************)
(* One encoder, created for an encoding and a data type and reused for one *)
(* mini-block after the other, as PageWriter::create_miniblock does:       *)
(* reset, encode every value, flush.  The words that are still pending at  *)
(* the flush leave in a loop, one step each.  A mini-block is read back by *)
(* a new decoder that asks for as many values as were written.             *)
(*                                                                         *)
(* The two batch encoders, dictionary-RLE and quantized, take a series in  *)
(* one call and are columns of their own here: "DictionaryRleSeries" and   *)
(* "QuantizedSeries".                                                      *)
(***************************************************************************)
EXTENDS IntegerCodecs, XorCodecs, SprintzCodecs

CONSTANTS
    COLUMNS,          \* <<encoding, type>> pairs an encoder is created for
    SampleOf(_, _),   \* the values of a column
    MaxLen(_, _, _),  \* bound: values of its first and of its second block
    MaxBlocks         \* bound: mini-blocks of an encoder

Strings == {"Text", "String"}

(* A value that is not a string is a number, a float the number its bits   *)
(* make.                                                                   *)
ASSUME CodecsAssumption ==
    /\ COLUMNS \subseteq STRING \X STRING /\ MaxBlocks \in Nat
    /\ \A c \in COLUMNS : c[2] \notin Strings => SampleOf(c[1], c[2]) \subseteq Int
    /\ \A c \in COLUMNS :
          c[2] = "Float" => SampleOf(c[1], c[2]) \subseteq 0..(2^HalfBits - 1)

VARIABLES
    encoding, dtype,  \* what the encoder was created for
    checked,          \* does the build panic on overflow
    enc,              \* the encoder
    block,            \* the values given to it since its reset
    phase,            \* "idle", "encoding", "finishing", "flushed",
                      \* "refused" or "panicked"
    blocks            \* mini-blocks started

vars == <<encoding, dtype, checked, enc, block, phase, blocks>>

Series == {"DictionaryRleSeries", "QuantizedSeries"}

(***************************************************************************)
(* create_encoder and create_decoder.  The encodings without a branch of   *)
(* their own fall back: encoders to plain, and the two batch encodings to  *)
(* Chimp128; decoders to plain, for these three as well as for Simple8b.   *)
(***************************************************************************)
EncoderFor(e) ==
    CASE e \in {"Quantized", "DictionaryRLE"} -> "Chimp128"
      [] e \in {"Plain", "Dictionary", "Chimp128", "Simple8b", "Gorilla",
                "DeltaOfDelta", "Rle", "Zigzag", "Sprintz"} \cup Series -> e
      [] OTHER -> "Plain"

DecoderFor(e) ==
    IF e \in {"Plain", "Dictionary", "Chimp128", "Gorilla", "DeltaOfDelta",
              "Rle", "Zigzag", "Sprintz"}
    THEN e ELSE "Plain"

(* recommended_for                                                         *)
RecommendedFor(type) ==
    CASE type = "Boolean" -> "Rle"
      [] type \in {"Int32", "Date", "Int64"} -> "Simple8b"
      [] type = "Timestamp" -> "DeltaOfDelta"
      [] type \in {"Float", "Double"} -> "Chimp128"
      [] type \in Strings -> "Dictionary"
      [] OTHER -> "Plain"

(* The types an encoder does not answer with an error.                     *)
IntegerTypes == {"Int32", "Date", "Int64", "Timestamp"}
DictionaryAccepts(type) == type \in Strings
ChimpAccepts(type)      == type \in {"Float", "Double"}
Simple8bAccepts(type)   == type \in IntegerTypes
GorillaAccepts(type)    == type \notin Strings
DeltaAccepts(type)      == type \notin Strings \cup {"Boolean"}
RleAccepts(type)        == type \notin Strings \cup {"Float", "Double"}
ZigzagAccepts(type)     == type \in IntegerTypes
SprintzAccepts(type)    == type \in SprintzTypes
Accepts(codec, type) ==
    CASE codec = "Plain" -> TRUE
      [] codec = "Dictionary" -> DictionaryAccepts(type)
      [] codec = "Chimp128" -> ChimpAccepts(type)
      [] codec = "Simple8b" -> Simple8bAccepts(type)
      [] codec = "Gorilla" -> GorillaAccepts(type)
      [] codec = "DeltaOfDelta" -> DeltaAccepts(type)
      [] codec = "Rle" -> RleAccepts(type)
      [] codec = "Zigzag" -> ZigzagAccepts(type)
      [] codec = "Sprintz" -> SprintzAccepts(type)
      [] codec \in Series -> type = "Double"

NewEncoder(codec, type) ==
    CASE codec = "Plain" -> PlainNew
      [] codec = "Dictionary" -> DictionaryNew
      [] codec = "Chimp128" -> ChimpNew(type)
      [] codec = "Simple8b" -> Simple8bNew
      [] codec = "Gorilla" -> GorillaNew(type)
      [] codec = "DeltaOfDelta" -> DeltaNew
      [] codec = "Rle" -> RleNew
      [] codec = "Zigzag" -> ZigzagNew
      [] codec = "Sprintz" -> SprintzNew
      [] codec \in Series -> [out |-> <<>>]

(* Integers are cast to the bits of their width before they are xor-ed,    *)
(* and the bits of a float to a long before its differences are taken:     *)
(* `to_bits() as i64`, back by `as u32`, `as u64` or `as i32`.             *)
LongOf(v) == Signed(v, LongBits)
OfLong(type, v) == IF IsFloating(type) THEN Unsigned(v, Width(type))
                   ELSE Signed(v, Width(type))

EncodeValue(codec, type, e, v) ==
    CASE codec = "Plain" -> PlainEncode(e, v)
      [] codec = "Dictionary" -> DictionaryEncode(e, v)
      [] codec = "Chimp128" -> ChimpEncode(e, v)
      [] codec = "Simple8b" -> Simple8bEncode(e, v, Width(type))
      [] codec = "Gorilla" ->
            GorillaEncode(e, Unsigned(v, NativeBits(type)), type)
      [] codec = "DeltaOfDelta" -> DeltaEncode(e, LongOf(v))
      [] codec = "Rle" -> RleEncode(e, v)
      [] codec = "Zigzag" -> ZigzagEncode(e, v, Width(type))
      [] codec = "Sprintz" -> SprintzDispatch(e, v, type)
      [] codec \in Series -> e

(* The batch calls: the values in turn.                                    *)
EncodeBatch(codec, type, e, values) ==
    CASE codec = "Gorilla" ->
            GorillaEncodeBatch(e, [i \in DOMAIN values |->
                Unsigned(values[i], NativeBits(type))], type)
      [] codec = "Chimp128" -> ChimpEncodeBatch(e, values)
      [] OTHER ->
            LET after[i \in 0..Len(values)] ==
                    IF i = 0 THEN e
                    ELSE EncodeValue(codec, type, after[i - 1], values[i])
            IN after[Len(values)]

(* reset: plain, Chimp128, Gorilla and delta of delta; the others have a   *)
(* comment in its place (`lost` is the model's own).  The caller clears    *)
(* its buffer in any case.                                                 *)
ResetEncoder(codec, e) ==
    [(CASE codec = "Chimp128" -> ChimpReset(e)
        [] codec = "Gorilla" -> GorillaReset(e)
        [] codec = "DeltaOfDelta" -> DeltaNew
        [] codec = "Sprintz" -> [e EXCEPT !.lost = FALSE]
        [] OTHER -> e) EXCEPT !.out = <<>>]

(* Words still to pack when the flush begins.                              *)
Pending(codec, e) ==
    CASE codec = "Simple8b" -> e.pending
      [] codec = "DeltaOfDelta" -> e.simple8b.pending
      [] OTHER -> <<>>
PackOne(codec, e) ==
    IF codec = "Simple8b" THEN FinishWord(e)
    ELSE [e EXCEPT !.simple8b = FinishWord(@)]

Refuses(codec, values) ==
    \/ codec = "DictionaryRleSeries" /\ ~DictionaryRleSeries(values).ok
    \/ codec = "QuantizedSeries" /\ DetectQuantization(values) = <<>>

FlushEncoder(codec, e, values) ==
    CASE codec = "Plain" -> e
      [] codec = "Dictionary" -> DictionaryFlush(e)
      [] codec = "Chimp128" -> ChimpFlush(e)
      [] codec = "Simple8b" -> Simple8bFlush(e)
      [] codec = "Gorilla" -> GorillaFlush(e)
      [] codec = "DeltaOfDelta" -> DeltaFlush(e)
      [] codec = "Rle" -> RleFlush(e)
      [] codec = "Zigzag" -> ZigzagFlush(e)
      [] codec = "Sprintz" -> SprintzFlush(e)
      [] codec = "DictionaryRleSeries" ->
            [out |-> DictionaryRleSeries(values).out]
      [] codec = "QuantizedSeries" ->
            [out |-> QuantizedSeries(values, DetectQuantization(values)[1],
                                     DetectQuantization(values)[2])]

(***************************************************************************)
(* Reading a mini-block back.                                              *)
(***************************************************************************)
NewDecoder(codec, type) ==
    CASE codec = "Plain" -> PlainDecoder
      [] codec = "Dictionary" -> DictionaryDecoder
      [] codec = "Chimp128" -> ChimpDecoder(type)
      [] codec = "Simple8b" -> Simple8bDecoder(type)
      [] codec = "Gorilla" -> GorillaDecoder(type)
      [] codec = "DeltaOfDelta" -> DeltaDecoder(type)
      [] codec = "Rle" -> RleDecoder
      [] codec = "Zigzag" -> ZigzagDecoder
      [] codec = "Sprintz" -> SprintzDecoder

ReadValue(codec, type, d, input) ==
    CASE codec = "Plain" -> PlainRead(d, input)
      [] codec = "Dictionary" -> DictionaryRead(d, input)
      [] codec = "Chimp128" -> ChimpRead(d, input)
      [] codec = "Simple8b" -> Simple8bRead(d, input, Width(type))
      [] codec = "Gorilla" ->
            LET r == GorillaRead(d, input)
            IN IF type \in {"Int32", "Int64", "Date"}
               THEN [r EXCEPT !.v = Signed(@, NativeBits(type))] ELSE r
      [] codec = "DeltaOfDelta" ->
            LET r == DeltaRead(d, input) IN [r EXCEPT !.v = OfLong(type, @)]
      [] codec = "Rle" -> RleRead(d, input)
      [] codec = "Zigzag" -> ZigzagRead(d, input, Width(type))
      [] codec = "Sprintz" -> ReadDispatch(d, input, type)

(* decode_values: as many reads as the header counts points, for floats    *)
(* and doubles in one batch call; a page of another type is an error.      *)
PageTypes == {"Boolean", "Int32", "Int64", "Float", "Double", "Text"}
DecodeValues(codec, type, input, count) ==
    CASE type \notin PageTypes -> [ok |-> FALSE, values |-> <<>>]
      [] codec = "Gorilla" /\ IsFloating(type) ->
            GorillaReadBatch(GorillaDecoder(type), input, count)
      [] codec = "Chimp128" /\ IsFloating(type) ->
            ChimpReadBatch(ChimpDecoder(type), input, count)
      [] OTHER -> ReadBatch(LAMBDA d : ReadValue(codec, type, d, input),
                            NewDecoder(codec, type), count)

(* The time column, of Int64: reads while the decoder has more and the     *)
(* block counts more, so a decoder that ends early only makes the column   *)
(* shorter.                                                                *)
DecodeTimes(input, count) ==
    LET Read(acc, i) ==
            LET r == DeltaRead(acc.dec, input)
            IN IF ~acc.ok \/ ~DeltaHasRemaining(acc.dec, input) THEN acc
               ELSE [ok |-> r.ok, dec |-> r.dec,
                     values |-> IF r.ok THEN Append(acc.values, r.v)
                                ELSE acc.values]
    IN FoldLeft(Read, [ok |-> TRUE, values |-> <<>>, dec |-> DeltaDecoder("Int64")],
                [i \in 1..count |-> i])

-----------------------------------------------------------------------------
Codec == EncoderFor(encoding)

Init ==
    /\ \E c \in COLUMNS :
          /\ encoding = c[1] /\ dtype = c[2]
          /\ enc = NewEncoder(EncoderFor(c[1]), c[2])
          /\ checked \in (IF c[1] = "DeltaOfDelta" THEN BOOLEAN ELSE {FALSE})
    /\ block = <<>> /\ phase = "idle" /\ blocks = 0

\* Mutant: a reused encoder does not count its mini-blocks.
StartBlock_Uncounted ==
    /\ phase \in {"idle", "flushed"} /\ blocks < MaxBlocks
    /\ enc' = ResetEncoder(Codec, enc)
    /\ block' = <<>> /\ phase' = "encoding"
    /\ UNCHANGED <<encoding, dtype, checked, blocks>>

StartBlock ==
    /\ phase \in {"idle", "flushed"} /\ blocks < MaxBlocks
    /\ enc' = ResetEncoder(Codec, enc)
    /\ block' = <<>> /\ phase' = "encoding" /\ blocks' = blocks + 1
    /\ UNCHANGED <<encoding, dtype, checked>>

Room == phase = "encoding" /\ Len(block) < MaxLen(encoding, dtype, blocks)
Overflows(v) == checked /\ Codec = "DeltaOfDelta" /\ DeltaOverflows(enc, LongOf(v))

Encode(v) ==
    /\ Room /\ Accepts(Codec, dtype) /\ ~Overflows(v)
    /\ enc' = EncodeValue(Codec, dtype, enc, v)
    /\ block' = Append(block, v)
    /\ UNCHANGED <<encoding, dtype, checked, phase, blocks>>

EncodeOverflows(v) ==
    /\ Room /\ Accepts(Codec, dtype) /\ Overflows(v)
    /\ phase' = "panicked"
    /\ UNCHANGED <<encoding, dtype, checked, enc, block, blocks>>

EncodeRefused(v) ==
    /\ Room /\ ~Accepts(Codec, dtype)
    /\ phase' = "refused"
    /\ UNCHANGED <<encoding, dtype, checked, enc, block, blocks>>

BeginFlush ==
    /\ phase = "encoding" /\ block # <<>>
    /\ phase' = IF Refuses(Codec, block) THEN "refused" ELSE "finishing"
    /\ UNCHANGED <<encoding, dtype, checked, enc, block, blocks>>

FinishOneWord ==
    /\ phase = "finishing" /\ Pending(Codec, enc) # <<>>
    /\ enc' = PackOne(Codec, enc)
    /\ UNCHANGED <<encoding, dtype, checked, block, phase, blocks>>

EndFlush ==
    /\ phase = "finishing" /\ Pending(Codec, enc) = <<>>
    /\ enc' = FlushEncoder(Codec, enc, block)
    /\ phase' = "flushed"
    /\ UNCHANGED <<encoding, dtype, checked, block, blocks>>

Next ==
    \/ StartBlock \/ BeginFlush \/ FinishOneWord \/ EndFlush
    \/ \E v \in SampleOf(encoding, dtype) :
          Encode(v) \/ EncodeOverflows(v) \/ EncodeRefused(v)

(* The packing loop of a flush is not left while it can take a step: it is *)
(* one call of one thread.                                                 *)
Spec == Init /\ [][Next]_vars /\ WF_vars(FinishOneWord)
-----------------------------------------------------------------------------
(* The encoder is one its factory makes, for a column of the project, and  *)
(* a block is never longer than the bound; only a build that checks for    *)
(* overflow panics, and only for a difference that does not fit.           *)
TypeOK ==
    /\ <<encoding, dtype>> \in COLUMNS
    /\ blocks \in 0..MaxBlocks
    /\ phase \in {"idle", "encoding", "finishing", "flushed", "refused", "panicked"}
    /\ Range(block) \subseteq SampleOf(encoding, dtype)
    /\ blocks = 0 <=> phase = "idle"
    /\ phase = "panicked" => checked /\ Len(block) > 0

Returns(r, values) == r.ok /\ r.values = values
ReadsBackAs(codec) ==
    Returns(DecodeValues(codec, dtype, enc.out, Len(block)), block)

(* What Simple8b cannot hold: a value whose zigzag exceeds the payload of  *)
(* a word, or, for an integer of 32 bits, one that overflows the shift.    *)
DodsOf(values) ==
    LET Delta(i) == Signed(LongOf(values[i]) - LongOf(values[i - 1]), LongBits)
    IN {Signed(Delta(i) - Delta(i - 1), LongBits) : i \in 3..Len(values)}
SomeWide ==
    CASE Codec = "Simple8b" -> \E v \in Range(block) : IsWide(v, Width(dtype))
      [] Codec = "DeltaOfDelta" -> \E v \in DodsOf(block) : IsWide(v, LongBits)
      [] OTHER -> FALSE

(* What is written and refused by the reader: a page of a type it does not *)
(* decode, and a value of a delta-of-delta block after the second, unless  *)
(* the column is Int64, as what such a block was packed for.               *)
Refused ==
    \/ dtype \notin PageTypes
    \/ Codec = "DeltaOfDelta" /\ dtype # "Int64" /\ Len(block) > 2

(* A mini-block of the encoders of whole integers and strings reads back   *)
(* as it was given, in order, by a decoder that knows its type and count,  *)
(* or it is an error, and never other values: Simple8b only from a new     *)
(* encoder, and it and delta of delta only if no number is wide.  (run     *)
(* boundaries, packing and padding of words, the wrapping differences and  *)
(* the dictionary of each flush.)                                          *)
IntegersReadBack ==
    /\ phase = "flushed"
    /\ Codec \in {"Plain", "Rle", "Zigzag", "Dictionary", "DeltaOfDelta", "Simple8b"}
    /\ Codec = "Simple8b" => blocks = 1
    /\ ~SomeWide
    => IF Refused THEN ~DecodeValues(Codec, dtype, enc.out, Len(block)).ok
       ELSE ReadsBackAs(Codec)

(* The time column of a mini-block has every timestamp although its loop   *)
(* also asks the decoder whether there is more: padding never looks like   *)
(* data and a word still held never looks like the end.                    *)
TimesReadBack ==
    phase = "flushed" /\ Codec = "DeltaOfDelta" /\ dtype = "Int64" /\ ~SomeWide
    => DecodeTimes(enc.out, Len(block)).values = block

(* Gorilla and Chimp128 lose no bit of a block whose writes all fitted the *)
(* bit buffer and their fields, across partial bytes, refills and blocks,  *)
(* where the page reader takes the type at all.                            *)
XorReadsBack ==
    /\ phase = "flushed" /\ Codec \in {"Gorilla", "Chimp128"}
    /\ ~enc.spilled /\ ~Refused
    => ReadsBackAs(Codec)

(* No write of a float or a 32-bit integer ever spills: what is left of a  *)
(* byte and the longest field of such a value fit in the buffer.           *)
FloatsNeverSpill ==
    Codec \in {"Gorilla", "Chimp128"} /\ dtype \in {"Float", "Int32"}
    => ~enc.spilled /\ enc.bits_in_buffer < ByteBits

(* Sprintz reads back every block whose prediction errors stay within half *)
(* of the range of a word, whether the block was full, cached in a group   *)
(* or cut short by the flush.                                              *)
SprintzReadsBack ==
    phase = "flushed" /\ Codec = "Sprintz" /\ ~enc.lost
    => ReadsBackAs(Codec)

(* Dictionary-RLE gives a series back exactly.  Quantized gives back       *)
(* exactly each value that is whole steps above the smallest, in a series  *)
(* with others as well, and moves these by less than a twentieth of the    *)
(* step, the tolerance under which it accepted the series.                 *)
SeriesReadBack ==
    phase = "flushed" =>
    /\ Codec = "DictionaryRleSeries" =>
          DictionaryRleDecode(enc.out).values = block
    /\ Codec = "QuantizedSeries" =>
          LET r == QuantizedDecode(enc.out)
              min  == DetectQuantization(block)[1]
              step == DetectQuantization(block)[2]
          IN /\ r.ok /\ Len(r.values) = Len(block)
             /\ \A i \in DOMAIN block :
                   IF (block[i] - min) % step = 0 THEN r.values[i] = block[i]
                   ELSE 20 * Distance(r.values[i], block[i]) < step

(* A reused encoder writes what a new one would have written, and a batch  *)
(* call what the calls one by one would have: nothing of an earlier        *)
(* mini-block is left in it.  Simple8b is the exception, whose output      *)
(* vector is never cleared.                                                *)
Packed(codec, e) == IF Pending(codec, e) = <<>> THEN e ELSE PackOne(codec, e)
Drained(codec, e, rounds) ==
    LET after[i \in 0..rounds] == IF i = 0 THEN e ELSE Packed(codec, after[i - 1])
    IN after[rounds]
WrittenAlone ==
    LET written == EncodeBatch(Codec, dtype, NewEncoder(Codec, dtype), block)
    IN FlushEncoder(Codec, Drained(Codec, written, Len(block)), block).out
ReuseIsClean ==
    phase = "flushed" /\ Codec # "Simple8b" => enc.out = WrittenAlone

(* The packing loop of a flush ends: every round takes a pending value,    *)
(* also when the value fits no selector.                                   *)
FlushEnds == phase = "finishing" ~> Pending(Codec, enc) = <<>>

(* Sprintz and Quantized as their documentation has them: lossless,        *)
(* whatever the values, of Quantized in each series it finds a step in.    *)
LosslessAsDocumented ==
    phase = "flushed" =>
    /\ Codec = "Sprintz" => ReadsBackAs(Codec)
    /\ Codec = "QuantizedSeries" => QuantizedDecode(enc.out).values = block

(* What the documentation promises of the recommended encodings: a column  *)
(* written with the encoding recommended for its type can be read back     *)
(* through create_decoder.                                                 *)
RecommendedReadsBack ==
    /\ phase = "flushed" /\ encoding = RecommendedFor(dtype)
    /\ blocks = 1 /\ ~SomeWide
    => ReadsBackAs(DecoderFor(encoding))
=============================================================================
