------------------------------ MODULE MCCodecs ------------------------------
(***************************************************************************)
(* Small words for the encoders: integers of 3 and 4 bits with words of 3  *)
(* payload bits, doubles of 16 bits over bytes of 4, Sprintz words of 4    *)
(* bits in blocks of three predictions and groups of two.                  *)
(***************************************************************************)
EXTENDS Codecs

MCSelectors == (0 :> <<8, 0>>) @@ (1 :> <<4, 0>>) @@ (2 :> <<3, 1>>)
               @@ (3 :> <<1, 3>>)
MCFireBits == (32 :> 1) @@ (64 :> 2)

MCColumns ==
    {"Plain"} \X {"Int32", "Text", "Boolean"}
      \cup {"Rle"} \X {"Boolean", "Int32", "Text"}
      \cup {"Zigzag"} \X {"Int32", "Int64", "Float"}
      \cup {"Dictionary"} \X {"Text", "Int64"}
      \cup {"Simple8b"} \X {"Int32", "Int64", "Double"}
      \cup {"DeltaOfDelta"} \X {"Int64", "Int32", "Date", "Float", "Double", "Boolean"}
      \cup {"Chimp128"} \X {"Float", "Double", "Int32"}
      \cup {"Gorilla"} \X {"Float", "Double", "Int32", "Date", "Boolean", "Text"}
      \cup {"Sprintz"} \X {"Int32", "Int64", "Float", "Double", "Boolean"}
      \cup {"Quantized", "DictionaryRLE", "Bitmap"} \X {"Float"}
      \cup {"DictionaryRleSeries", "QuantizedSeries"} \X {"Double"}

RecommendedColumns ==
    {<<RecommendedFor(t), t>> : t \in {"Int32", "Int64", "Boolean", "Text"}}
LosslessColumns == {"Sprintz"} \X SprintzTypes \cup {<<"QuantizedSeries", "Double">>}

(* Selector 1 is reached by eight zeros, the fallback by -4, whose zigzag  *)
(* needs more than the payload; floats and doubles are bit patterns.       *)
MCSample(e, t) ==
    CASE e = "Simple8b" /\ t = "Int32" -> {-2, 0}
      [] e = "Simple8b" -> {-8, 0, 1}
      [] e = "DeltaOfDelta" /\ t \in {"Int32", "Date"} -> {-4, 0, 3}
      [] e = "DeltaOfDelta" /\ t = "Float" -> {0, 3, 7}
      [] e = "DeltaOfDelta" /\ t = "Double" -> {0, 7, 15}
      [] e = "DeltaOfDelta" -> {-8, 0, 7}
      [] e = "DictionaryRleSeries" -> 0..2
      [] e = "QuantizedSeries" -> {0, 40, 81, 95}
      [] e = "Sprintz" /\ t = "Int32" -> {0, 2}
      [] e = "Sprintz" /\ t = "Int64" -> {-2, 0, 7}
      [] e = "Sprintz" /\ t = "Double" -> {3, 7}
      [] e = "Sprintz" -> {0, 3, 15}
      [] e \in {"Gorilla", "Chimp128", "Quantized", "DictionaryRLE"}
           /\ t = "Float" -> {0, 6, 12, 128}
      [] e \in {"Gorilla", "Chimp128"} /\ t = "Double" ->
            {0, 96, 192, 65535, 32768}
      [] t = "Boolean" -> {0, 1}
      [] t = "Int32" -> {-4, 0, 3}
      [] OTHER -> {0, 1, 5}

MCMaxLen(e, t, b) ==
    IF b > 1 THEN 2
    ELSE CASE e = "Simple8b" /\ t = "Int32" -> 9
           [] e = "Simple8b" -> 5
           [] e = "Sprintz" /\ t \in {"Int32", "Double"} -> 8
           [] e = "Sprintz" -> 5
           [] e = "DeltaOfDelta" /\ t = "Int64" -> 6
           [] e = "DictionaryRleSeries" -> 5
           [] OTHER -> 4
=============================================================================
