--------------------------- MODULE WriterOps_proofs ---------------------------
(* What the operations of the writers keep, for every page size, every page cut *)
(* and any points.  First the chunk writer: how a page is cut, and that the     *)
(* sealed pages and the open one hold exactly what the writer was given, so     *)
(* that a reader of the pages gets it back in order.  Then the calls of the     *)
(* file writer: a whole write, batch or serialization of one chunk writer, and  *)
(* the regions and the metadata of the physical file.                           *)
EXTENDS IOWriter, ChunkState, Induction, SequenceTheorems, FiniteSetTheorems


-------------------------------------------------------------------------------
(* split_into_ranges tiles every page, for every configuration.                *)

(* Division as the two properties of it the proofs use.                        *)
LEMMA DivMod ==
    ASSUME NEW x \in Nat, NEW n \in Nat \ {0}
    PROVE  /\ x \div n \in Nat
           /\ x % n \in 0..(n - 1)
           /\ x = n * (x \div n) + (x % n)
  OBVIOUS

(* A quotient is positive once the dividend reaches the divisor.               *)
LEMMA DivPositive ==
    ASSUME NEW x \in Nat, NEW n \in Nat \ {0}, x >= n
    PROVE  x \div n >= 1
  BY DivMod

(* There is at least one block, and never more blocks than points.             *)
LEMMA BlockCount ==
    ASSUME NEW total \in Nat \ {0}
    PROVE  /\ CalculateMiniblockCount(total) \in Nat \ {0}
           /\ CalculateMiniblockCount(total) <= total
           /\ CalculateMiniblockCount(total) <= MiniBlocksPerPage
<1> DEFINE ppb == total \div MiniBlocksPerPage
           few == total \div MinPointsPerMiniBlock
<1>1. /\ MiniBlocksPerPage \in Nat \ {0}
      /\ MinPointsPerMiniBlock \in Nat \ {0}
  BY MiniBlockAssumption
<1>2. /\ ppb \in Nat
      /\ total >= MiniBlocksPerPage * ppb
  BY <1>1, DivMod
<1>3. /\ few \in Nat
      /\ total >= MinPointsPerMiniBlock * few
  BY <1>1, DivMod
<1>4. few <= total
  BY <1>1, <1>3
<1>5. ppb >= MinPointsPerMiniBlock => MiniBlocksPerPage <= total
  BY <1>1, <1>2
<1> HIDE DEF ppb, few
<1>6. CalculateMiniblockCount(total) =
          IF total < MinPointsPerMiniBlock THEN 1
          ELSE IF ppb < MinPointsPerMiniBlock
               THEN Smaller(Larger(few, 1), MiniBlocksPerPage)
               ELSE MiniBlocksPerPage
  BY DEF CalculateMiniblockCount, ppb, few
<1> QED
  BY <1>1, <1>2, <1>3, <1>4, <1>5, <1>6 DEF Smaller, Larger

(* The block boundaries start at zero, end at the number of points and grow    *)
(* strictly.                                                                   *)
LEMMA BlockEndGrows ==
    ASSUME NEW total \in Nat, NEW n \in Nat \ {0}, n <= total
    PROVE  /\ BlockEnd(total, n, 0) = 0
           /\ BlockEnd(total, n, n) = total
           /\ \A i \in 0..n : BlockEnd(total, n, i) \in 0..total
           /\ \A i \in 1..n : BlockEnd(total, n, i - 1) < BlockEnd(total, n, i)
<1> DEFINE base == total \div n
           rem  == total % n
<1>1. /\ base \in Nat /\ base >= 1
      /\ rem \in 0..(n - 1)
      /\ total = n * base + rem
  BY DivMod, DivPositive
<1> HIDE DEF base, rem
<1>2. \A i \in 0..n : BlockEnd(total, n, i) = i * base + Smaller(i, rem)
  BY DEF BlockEnd, base, rem
<1>3. BlockEnd(total, n, 0) = 0 /\ BlockEnd(total, n, n) = total
  BY <1>1, <1>2 DEF Smaller
<1>4. ASSUME NEW i \in 0..n PROVE BlockEnd(total, n, i) \in 0..total
  <2>1. i * base \in Nat /\ (n - i) * base \in Nat
    BY <1>1
  <2>2. n * base = i * base + (n - i) * base
    BY <1>1
  <2> QED BY <1>1, <1>2, <2>1, <2>2 DEF Smaller
<1>5. ASSUME NEW i \in 1..n PROVE BlockEnd(total, n, i - 1) < BlockEnd(total, n, i)
  <2>1. i * base = (i - 1) * base + base
    BY <1>1
  <2>2. (i - 1) * base \in Nat
    BY <1>1
  <2> QED BY <1>1, <1>2, <2>1, <2>2 DEF Smaller
<1> QED BY <1>3, <1>4, <1>5

(* Every page is cut into non-empty, adjoining ranges that cover it exactly,   *)
(* at most MiniBlocksPerPage of them (split_into_ranges).                      *)
THEOREM RangesTile ==
    ASSUME NEW total \in Nat \ {0}
    PROVE  LET ranges == SplitIntoRanges(total)
               n      == CalculateMiniblockCount(total)
           IN  /\ n \in 1..MiniBlocksPerPage
               /\ DOMAIN ranges = 1..n
               /\ ranges[1].start = 0
               /\ ranges[n].end = total
               /\ \A i \in 1..n : /\ ranges[i].start \in Nat /\ ranges[i].end \in 1..total
                                   /\ ranges[i].start < ranges[i].end
               /\ \A i \in 1..(n - 1) : ranges[i].end = ranges[i + 1].start
<1> DEFINE n == CalculateMiniblockCount(total)
<1>1. n \in Nat \ {0} /\ n <= total /\ n <= MiniBlocksPerPage
  BY BlockCount
<1>2. SplitIntoRanges(total) =
        [i \in 1..n |-> [start |-> BlockEnd(total, n, i - 1), end |-> BlockEnd(total, n, i)]]
  BY DEF SplitIntoRanges
<1> HIDE DEF n
<1>3. /\ BlockEnd(total, n, 0) = 0
      /\ BlockEnd(total, n, n) = total
      /\ \A i \in 0..n : BlockEnd(total, n, i) \in 0..total
      /\ \A i \in 1..n : BlockEnd(total, n, i - 1) < BlockEnd(total, n, i)
  BY <1>1, BlockEndGrows
<1>4. \A i \in 1..n : /\ i - 1 \in 0..n /\ i \in 0..n
  BY <1>1
<1>5. n \in 1..MiniBlocksPerPage
  BY <1>1, MiniBlockAssumption
<1> QED BY <1>1, <1>2, <1>3, <1>4, <1>5 DEF n
-------------------------------------------------------------------------------
(* The operations of a chunk writer.                                           *)

(* Assigning one field of a writer.                                            *)
LEMMA SetPages == \A w \in Writer : \A x \in Seq(Page) : [w EXCEPT !.pages = x] \in Writer
  BY DEF Writer

LEMMA SetTimes == \A w \in Writer : \A x \in Seq(Times) : [w EXCEPT !.times = x] \in Writer
  BY DEF Writer

LEMMA SetVals == \A w \in Writer : \A x \in Seq(Values) : [w EXCEPT !.vals = x] \in Writer
  BY DEF Writer

LEMMA SetStat == \A w \in Writer : \A x \in Stat : [w EXCEPT !.stat = x] \in Writer
  BY DEF Writer

LEMMA SetSize == \A w \in Writer : \A x \in Nat : [w EXCEPT !.size = x] \in Writer
  BY DEF Writer

(* A temporary vector whose timestamps have a least and a greatest one.  Every *)
(* finite sequence has them; that it does is an induction over its length,     *)
(* which the steps of the batch loop make one point at a time.                 *)
HasExtremes(acc) ==
    acc # <<>> =>
        \E lo, hi \in 1..Len(acc) :
            \A k \in 1..Len(acc) : acc[lo].t <= acc[k].t /\ acc[k].t <= acc[hi].t

(* What every step keeps of a writer w, its cuts c and its history g.          *)
Good(w, c, g) ==
    /\ w \in Writer
    /\ Len(w.vals) <= Len(w.times)
    /\ g \in Seq(Points)
    /\ c \in Seq(Nat) /\ Len(c) = Len(w.pages) + 1
    /\ \A i \in 1..Len(c) : c[i] <= Len(g)
    /\ PagesHold(w, c, g)

(* The cuts c of writer w after it became the writer r.                        *)
After(w, c, r, g) == IF Len(r.pages) = Len(w.pages) THEN c ELSE Append(c, Len(g))

Outs == {"ok", "err", "panic"}
-------------------------------------------------------------------------------
(* Points are pairs of a timestamp in the range of an i64 and a value.         *)
LEMMA PointsAreTyped ==
    ASSUME NEW p \in Points
    PROVE  p.t \in Times /\ p.t \in Stamps /\ p.v \in Values /\ p.t \in Int
<1>1. p.t \in Times /\ p.v \in Values
  BY DEF Times, Values
<1>2. p \in [t : Stamps, v : Values]
  BY PointAssumption
<1>3. p.t \in Stamps
  BY <1>2
<1>4. Stamps \subseteq Int
  BY SizeAssumption DEF Stamps
<1> QED BY <1>1, <1>3, <1>4

(* Min and Max choose a member as soon as one qualifies: of {a}, or of {a}     *)
(* and a set of integers with a least and a greatest element.                  *)
LEMMA SingletonExtremes ==
    ASSUME NEW a \in Int
    PROVE  Min({a}) \in {a} /\ Max({a}) \in {a}
<1>1. \E x \in {a} : \A y \in {a} : x <= y /\ x >= y
  OBVIOUS
<1> QED BY <1>1 DEF Min, Max

LEMMA MinIsMember ==
    ASSUME NEW S \in SUBSET Int, NEW a \in Int, NEW lo \in S, \A y \in S : lo <= y
    PROVE  Min({a} \cup S) \in {a} \cup S
<1> DEFINE T == {a} \cup S
           x == IF a <= lo THEN a ELSE lo
<1>1. x \in T /\ x \in Int
  OBVIOUS
<1>2. ASSUME NEW y \in T PROVE x <= y
  <2>1. CASE y = a
    BY <2>1
  <2>2. CASE y \in S
    BY <2>2
  <2> QED BY <2>1, <2>2
<1> HIDE DEF T, x
<1>3. Min(T) \in T
  BY <1>1, <1>2 DEF Min
<1> QED BY <1>3 DEF T

LEMMA MaxIsMember ==
    ASSUME NEW S \in SUBSET Int, NEW a \in Int, NEW hi \in S, \A y \in S : y <= hi
    PROVE  Max({a} \cup S) \in {a} \cup S
<1> DEFINE T == {a} \cup S
           x == IF a >= hi THEN a ELSE hi
<1>1. x \in T /\ x \in Int
  OBVIOUS
<1>2. ASSUME NEW y \in T PROVE x >= y
  <2>1. CASE y = a
    BY <2>1
  <2>2. CASE y \in S
    BY <2>2
  <2> QED BY <2>1, <2>2
<1> HIDE DEF T, x
<1>3. Max(T) \in T
  BY <1>1, <1>2 DEF Max
<1> QED BY <1>3 DEF T

(* update_time and update_x_batch keep the statistic well formed.              *)
LEMMA UpdateTimeType ==
    ASSUME NEW s \in Stat, NEW t \in Stamps
    PROVE  UpdateTime(s, t) \in Stat
  BY SizeAssumption DEF UpdateTime, Stat, Stamps, Smaller, Larger

LEMMA StatOfBatchType ==
    ASSUME NEW s \in Stat, NEW acc \in Seq(Points), HasExtremes(acc)
    PROVE  StatOfBatch(s, acc) \in Stat
<1> DEFINE stamps == {acc[i].t : i \in 1..Len(acc)}
           lows   == {s.start} \cup stamps
           highs  == {s.end} \cup stamps
<1>1. stamps \subseteq Stamps
  BY PointsAreTyped
<1>2. s.start \in Stamps /\ s.end \in Stamps /\ s.count + Len(acc) \in Nat
  BY DEF Stat
<1>3. Stamps \subseteq Int
  BY SizeAssumption DEF Stamps
<1>4. Min(lows) \in lows /\ Max(highs) \in highs
  <2>1. CASE acc = <<>>
    <3>1. stamps = {}
      BY <2>1
    <3> HIDE DEF stamps
    <3>2. lows = {s.start} /\ highs = {s.end} /\ s.start \in Int /\ s.end \in Int
      BY <1>2, <1>3, <3>1
    <3> QED BY <3>2, SingletonExtremes
  <2>2. CASE acc # <<>>
    <3>1. PICK lo, hi \in 1..Len(acc) :
            \A k \in 1..Len(acc) : acc[lo].t <= acc[k].t /\ acc[k].t <= acc[hi].t
      BY <2>2 DEF HasExtremes
    <3>2. acc[lo].t \in stamps /\ acc[hi].t \in stamps
      OBVIOUS
    <3>3. \A y \in stamps : acc[lo].t <= y /\ y <= acc[hi].t
      BY <3>1
    <3> HIDE DEF stamps
    <3>4. stamps \in SUBSET Int /\ s.start \in Int /\ s.end \in Int
      BY <1>1, <1>2, <1>3
    <3> QED BY <3>2, <3>3, <3>4, MinIsMember, MaxIsMember
  <2> QED BY <2>1, <2>2
<1>5. StatOfBatch(s, acc) = [count |-> s.count + Len(acc), start |-> Min(lows), end |-> Max(highs)]
  BY DEF StatOfBatch
<1> HIDE DEF lows, highs
<1>6. lows \subseteq Stamps /\ highs \subseteq Stamps
  BY <1>1, <1>2 DEF lows, highs
<1> QED BY <1>2, <1>4, <1>5, <1>6 DEF Stat

(* Appending a point keeps the extremes of the temporary vector.               *)
LEMMA ExtremesGrow ==
    ASSUME NEW acc \in Seq(Points), HasExtremes(acc), NEW p \in Points
    PROVE  HasExtremes(Append(acc, p))
<1> DEFINE grown == Append(acc, p)
           n     == Len(acc)
<1>1. /\ n \in Nat /\ Len(grown) = n + 1 /\ grown[n + 1] = p
      /\ \A k \in 1..n : grown[k] = acc[k]
  OBVIOUS
<1>2. p.t \in Int /\ \A k \in 1..n : acc[k].t \in Int
  BY PointsAreTyped
<1> HIDE DEF grown
<1>3. ASSUME acc = <<>> PROVE HasExtremes(grown)
  BY <1>1, <1>2, <1>3 DEF HasExtremes
<1>4. ASSUME acc # <<>> PROVE HasExtremes(grown)
  <2>1. PICK lo, hi \in 1..n : \A k \in 1..n : acc[lo].t <= acc[k].t /\ acc[k].t <= acc[hi].t
    BY <1>4 DEF HasExtremes
  <2>2. PICK low \in 1..(n + 1) : low = IF p.t <= acc[lo].t THEN n + 1 ELSE lo
    BY <1>1
  <2>3. PICK high \in 1..(n + 1) : high = IF p.t >= acc[hi].t THEN n + 1 ELSE hi
    BY <1>1
  <2>4. ASSUME NEW k \in 1..(n + 1)
        PROVE  grown[low].t <= grown[k].t /\ grown[k].t <= grown[high].t
    <3>1. grown[low].t = IF p.t <= acc[lo].t THEN p.t ELSE acc[lo].t
      BY <1>1, <2>2
    <3>2. grown[high].t = IF p.t >= acc[hi].t THEN p.t ELSE acc[hi].t
      BY <1>1, <2>3
    <3>3. CASE k = n + 1
      BY <1>1, <1>2, <3>1, <3>2, <3>3
    <3>4. CASE k \in 1..n
      BY SMTT(20), <1>1, <1>2, <2>1, <3>1, <3>2, <3>4
    <3> QED BY <1>1, <3>3, <3>4
  <2>5. \E l, h \in 1..(n + 1) : \A k \in 1..(n + 1) :
            grown[l].t <= grown[k].t /\ grown[k].t <= grown[h].t
    BY <2>4
  <2> QED BY <1>1, <2>5 DEF HasExtremes
<1> QED BY <1>3, <1>4 DEF grown
-------------------------------------------------------------------------------
(* SubSeq with the half-open, zero-based bounds of a slice.                    *)
LEMMA SliceOf ==
    ASSUME NEW S, NEW s \in Seq(S), NEW a \in Nat, NEW b \in 1..Len(s), a < b
    PROVE  /\ SubSeq(s, a + 1, b) \in Seq(S)
           /\ Len(SubSeq(s, a + 1, b)) = b - a
           /\ \A k \in 1..(b - a) : SubSeq(s, a + 1, b)[k] = s[a + k]
<1>1. \A i \in (a + 1)..b : s[i] \in S
  OBVIOUS
<1>2. PICK m \in Int : m = a + 1
  OBVIOUS
<1>3. /\ SubSeq(s, m, b) \in Seq(S)
      /\ Len(SubSeq(s, m, b)) = IF m <= b THEN b - m + 1 ELSE 0
      /\ \A i \in 1..(b - m + 1) : SubSeq(s, m, b)[i] = s[m + i - 1]
  BY <1>1, <1>2, SubSeqProperties
<1>4. b - m + 1 = b - a /\ m <= b
  BY <1>2
<1>5. \A k \in 1..(b - a) : m + k - 1 = a + k
  BY <1>2
<1> QED BY <1>2, <1>3, <1>4, <1>5

LEMMA SlicesOfPage ==
    ASSUME NEW w \in Writer, Len(w.vals) = Len(w.times),
           NEW a \in Nat, NEW b \in 1..Len(w.times), a < b
    PROVE  LET ts == SubSeq(w.times, a + 1, b)
               vs == SubSeq(w.vals, a + 1, b)
           IN  /\ ts \in Seq(Times) /\ Len(ts) = b - a
               /\ vs \in Seq(Values) /\ Len(vs) = b - a
               /\ \A k \in 1..(b - a) : ts[k] = w.times[a + k] /\ vs[k] = w.vals[a + k]
               /\ w.times[a + 1] \in Times /\ w.times[b] \in Times
<1>1. w.times \in Seq(Times) /\ w.vals \in Seq(Values)
  BY DEF Writer
<1>2. PICK ts \in Seq(Times) : ts = w.times
  BY <1>1
<1>3. PICK vs \in Seq(Values) : vs = w.vals
  BY <1>1
<1>4. /\ SubSeq(ts, a + 1, b) \in Seq(Times)
      /\ Len(SubSeq(ts, a + 1, b)) = b - a
      /\ \A k \in 1..(b - a) : SubSeq(ts, a + 1, b)[k] = ts[a + k]
  BY <1>2, SliceOf
<1>5. /\ SubSeq(vs, a + 1, b) \in Seq(Values)
      /\ Len(SubSeq(vs, a + 1, b)) = b - a
      /\ \A k \in 1..(b - a) : SubSeq(vs, a + 1, b)[k] = vs[a + k]
  BY <1>2, <1>3, SliceOf
<1>6. ts[a + 1] \in Times /\ ts[b] \in Times
  BY <1>2
<1> QED BY <1>2, <1>3, <1>4, <1>5, <1>6

(* A mini-block is a slice of the open page's two vectors.                     *)
LEMMA MiniblockIsSlice ==
    ASSUME NEW w \in Writer, Len(w.vals) = Len(w.times), NEW r,
           r.start \in Nat, r.end \in 1..Len(w.times), r.start < r.end
    PROVE  LET block == CreateMiniblock(w, r)
               size  == r.end - r.start
           IN  /\ block \in Block
               /\ Len(block.times) = size /\ Len(block.vals) = size
               /\ \A k \in 1..size : /\ block.times[k] = w.times[r.start + k]
                                    /\ block.vals[k] = w.vals[r.start + k]
<1> DEFINE ts == SubSeq(w.times, r.start + 1, r.end)
           vs == SubSeq(w.vals, r.start + 1, r.end)
           size == r.end - r.start
<1>1. /\ ts \in Seq(Times) /\ Len(ts) = size
      /\ vs \in Seq(Values) /\ Len(vs) = size
      /\ \A k \in 1..size : ts[k] = w.times[r.start + k] /\ vs[k] = w.vals[r.start + k]
      /\ w.times[r.start + 1] \in Times /\ w.times[r.end] \in Times
  BY SlicesOfPage
<1>2. CreateMiniblock(w, r) =
          [min |-> w.times[r.start + 1], max |-> w.times[r.end], times |-> ts, vals |-> vs]
  BY DEF CreateMiniblock
<1> HIDE DEF ts, vs
<1>3. CreateMiniblock(w, r) \in Block
  BY <1>1, <1>2 DEF Block
<1> QED BY <1>1, <1>2, <1>3

(* finish of a page with one value for each timestamp holds its points.        *)
LEMMA FinishedPageHolds ==
    ASSUME NEW w \in Writer, Len(w.times) > 0, Len(w.vals) = Len(w.times),
           NEW first \in Nat, NEW g,
           \A k \in 1..Len(w.times) : w.times[k] = g[first + k].t /\ w.vals[k] = g[first + k].v
    PROVE  /\ FinishedPage(w) \in Page
           /\ FinishedPage(w).num = Len(w.times)
           /\ PageHolds(FinishedPage(w), first, g)
<1> DEFINE total == Len(w.times)
           n == CalculateMiniblockCount(total)
           ranges == SplitIntoRanges(total)
           blocks == [i \in 1..n |-> CreateMiniblock(w, ranges[i])]
<1>1. total \in Nat \ {0}
  BY DEF Writer
<1>2. /\ n \in Nat
      /\ \A i \in 1..n : /\ ranges[i].start \in Nat /\ ranges[i].end \in 1..total
                          /\ ranges[i].start < ranges[i].end
  <2>1. /\ n \in 1..MiniBlocksPerPage /\ DOMAIN ranges = 1..n
        /\ \A i \in 1..n : /\ ranges[i].start \in Nat /\ ranges[i].end \in 1..total
                           /\ ranges[i].start < ranges[i].end
    <3> HIDE DEF total
    <3> QED BY <1>1, RangesTile
  <2> HIDE DEF total, n, ranges
  <2> QED BY <2>1
<1>3. Len(ranges) = n
  BY <1>2 DEF SplitIntoRanges
<1>4. FinishedPage(w) = [num |-> total, min |-> w.stat.start, max |-> w.stat.end, blocks |-> blocks]
  BY <1>3 DEF FinishedPage
<1> HIDE DEF n, ranges
<1>5. ASSUME NEW j \in 1..n
      PROVE  LET size == ranges[j].end - ranges[j].start
             IN  /\ blocks[j] \in Block
                 /\ Len(blocks[j].times) = size /\ Len(blocks[j].vals) = size
                 /\ \A k \in 1..size :
                      /\ blocks[j].times[k] = g[first + ranges[j].start + k].t
                      /\ blocks[j].vals[k] = g[first + ranges[j].start + k].v
  <2> DEFINE size == ranges[j].end - ranges[j].start
  <2>1. /\ CreateMiniblock(w, ranges[j]) \in Block
        /\ Len(CreateMiniblock(w, ranges[j]).times) = size
        /\ Len(CreateMiniblock(w, ranges[j]).vals) = size
        /\ \A k \in 1..size :
              /\ CreateMiniblock(w, ranges[j]).times[k] = w.times[ranges[j].start + k]
              /\ CreateMiniblock(w, ranges[j]).vals[k] = w.vals[ranges[j].start + k]
    BY <1>2, MiniblockIsSlice
  <2>2. \A k \in 1..size : /\ ranges[j].start + k \in 1..total
                            /\ first + (ranges[j].start + k) = first + ranges[j].start + k
    <3>1. /\ ranges[j].start \in Nat /\ ranges[j].end \in 1..total
          /\ total \in Nat
      BY <1>1, <1>2
    <3> HIDE DEF total
    <3> QED BY SMTT(20), <3>1
  <2> QED BY <2>1, <2>2
<1>6. blocks \in Seq(Block) /\ Len(blocks) = n
  BY <1>2, <1>5
<1>7. w.stat.start \in Stamps /\ w.stat.end \in Stamps
  BY DEF Writer, Stat
<1> HIDE DEF blocks
<1>8. FinishedPage(w) \in Page
  BY <1>1, <1>4, <1>6, <1>7 DEF Page
<1>9. PageHolds(FinishedPage(w), first, g)
  BY <1>1, <1>4, <1>5, <1>6 DEF PageHolds, n, ranges
<1> QED BY <1>4, <1>8, <1>9

(* What a page holds is not disturbed by later points.                         *)
LEMMA PageHoldsGrow ==
    ASSUME NEW page, page.num \in Nat, NEW first \in Nat, NEW g, NEW h,
           \A i \in 1..(first + page.num) : h[i] = g[i],
           PageHolds(page, first, g)
    PROVE  PageHolds(page, first, h)
<1> DEFINE n == CalculateMiniblockCount(page.num)
           ranges == SplitIntoRanges(page.num)
<1>1. page.num \in Nat \ {0}
  BY DEF PageHolds
<1>2. \A j \in 1..n : /\ ranges[j].start \in Nat /\ ranges[j].end \in 1..page.num
                       /\ ranges[j].start < ranges[j].end
  BY <1>1, RangesTile
<1>3. \A j \in 1..n : \A k \in 1..(ranges[j].end - ranges[j].start) :
          h[first + ranges[j].start + k] = g[first + ranges[j].start + k]
  <2> SUFFICES ASSUME NEW j \in 1..n, NEW k \in 1..(ranges[j].end - ranges[j].start)
               PROVE  first + ranges[j].start + k \in 1..(first + page.num)
    OBVIOUS
  <2> QED BY <1>2
<1> HIDE DEF n, ranges
<1>4. Len(page.blocks) = n
  BY DEF PageHolds, n
<1>5. ASSUME NEW j \in 1..n, NEW k \in 1..(ranges[j].end - ranges[j].start)
      PROVE  /\ page.blocks[j].times[k] = h[first + ranges[j].start + k].t
             /\ page.blocks[j].vals[k]  = h[first + ranges[j].start + k].v
  <2>1. /\ page.blocks[j].times[k] = g[first + ranges[j].start + k].t
        /\ page.blocks[j].vals[k]  = g[first + ranges[j].start + k].v
    BY <1>4, Zenon DEF PageHolds, n, ranges
  <2> QED BY <1>3, <2>1, Zenon
<1>6. \A j \in 1..n : LET size == ranges[j].end - ranges[j].start
                     IN  Len(page.blocks[j].times) = size /\ Len(page.blocks[j].vals) = size
  BY <1>4, Zenon DEF PageHolds, n, ranges
<1> QED BY <1>1, <1>4, <1>5, <1>6, Zenon DEF PageHolds, n, ranges
-------------------------------------------------------------------------------
(* The writer w once its open page has become a sealed one.                    *)
Sealed(w) ==
    [w EXCEPT !.pages = Append(@, FinishedPage(w)),
              !.times = <<>>, !.vals = <<>>, !.stat = EmptyStat, !.size = 0]

(* seal_current_page either leaves the writer alone or has one value for each  *)
(* timestamp and turns them into a page: with a timestamp too many, the last   *)
(* mini-block runs past the values.                                            *)
LEMMA SealCases ==
    ASSUME NEW w \in Writer, Len(w.vals) <= Len(w.times)
    PROVE  LET r == SealCurrentPage(w)
           IN  /\ r.out \in Outs
               /\ \/ r.cw = w
                  \/ /\ Len(w.times) > 0 /\ Len(w.vals) = Len(w.times)
                     /\ r.cw = Sealed(w)
<1>1. FinishOutcome(w) \in Outs
  BY DEF FinishOutcome, Outs
<1>2. CASE Len(w.times) = 0 \/ FinishOutcome(w) # "ok"
  BY <1>1, <1>2 DEF SealCurrentPage, Outcome, Outs
<1>3. CASE Len(w.times) # 0 /\ FinishOutcome(w) = "ok"
  <2> DEFINE total == Len(w.times)
             n == CalculateMiniblockCount(total)
             ranges == SplitIntoRanges(total)
  <2>1. total \in Nat \ {0} /\ Len(w.vals) \in Nat
    BY <1>3 DEF Writer
  <2>2. n \in 1..MiniBlocksPerPage /\ DOMAIN ranges = 1..n /\ ranges[n].end = total
    <3> HIDE DEF total
    <3> QED BY <2>1, RangesTile
  <2>3. n \in DOMAIN ranges
    <3> HIDE DEF n, ranges
    <3> QED BY <2>2, MiniBlockAssumption
  <2>4. ~(ranges[n].end > Smaller(total, Len(w.vals)))
    <3> HIDE DEF n
    <3> QED BY <1>3, <2>3 DEF FinishOutcome
  <2>5. Len(w.vals) = total
    <3> HIDE DEF total, n, ranges
    <3>1. total <= Smaller(total, Len(w.vals)) /\ Len(w.vals) <= total
      BY <2>1, <2>2, <2>4 DEF total, Smaller
    <3> QED BY <2>1, <3>1 DEF Smaller
  <2>6. SealCurrentPage(w) = Outcome(Sealed(w), "ok")
    <3> HIDE DEF total
    <3> QED BY <1>3, <2>1, Zenon DEF SealCurrentPage, Sealed, total
  <2> QED BY <1>3, <2>1, <2>5, <2>6 DEF Outcome, Outs
<1> QED BY <1>2, <1>3

(* A seal keeps everything; the cuts grow by the points given so far when a    *)
(* page came of it.                                                            *)
LEMMA SealKeeps ==
    ASSUME NEW w, NEW c, NEW g, Good(w, c, g), RestHolds(w, c, g, <<>>),
           NEW r, r = SealCurrentPage(w).cw
    PROVE  /\ Good(r, After(w, c, r, g), g)
           /\ RestHolds(r, After(w, c, r, g), g, <<>>)
<1>1. /\ w \in Writer /\ Len(w.vals) <= Len(w.times) /\ g \in Seq(Points)
      /\ c \in Seq(Nat) /\ Len(c) = Len(w.pages) + 1
      /\ \A i \in 1..Len(c) : c[i] <= Len(g)
      /\ PagesHold(w, c, g)
  BY DEF Good
<1>2. CASE r = w
  BY <1>2 DEF After
<1>3. CASE /\ Len(w.times) > 0 /\ Len(w.vals) = Len(w.times)
           /\ r = Sealed(w)
  <2> DEFINE n == Len(w.pages)
             first == c[Len(c)]
             page == FinishedPage(w)
             d == Append(c, Len(g))
  <2>1. /\ n \in Nat /\ w.pages \in Seq(Page) /\ w.times \in Seq(Times)
        /\ Len(w.times) \in Nat /\ Len(g) \in Nat /\ first \in Nat /\ first = c[n + 1]
    BY <1>1 DEF Writer
  <2>2. first + Len(w.times) = Len(g)
    BY <1>3, <2>1 DEF RestHolds
  <2>3. \A k \in 1..Len(w.times) : w.times[k] = g[first + k].t /\ w.vals[k] = g[first + k].v
    BY <1>3 DEF RestHolds
  <2>4. page \in Page /\ page.num = Len(w.times) /\ PageHolds(page, first, g)
    <3>1. w \in Writer /\ Len(w.times) > 0 /\ Len(w.vals) = Len(w.times) /\ first \in Nat
      BY <1>1, <1>3, <2>1
    <3> HIDE DEF first, page
    <3>2. /\ FinishedPage(w) \in Page
          /\ FinishedPage(w).num = Len(w.times)
          /\ PageHolds(FinishedPage(w), first, g)
      BY <2>3, <3>1, FinishedPageHolds
    <3> QED BY <3>2 DEF page
  <2> HIDE DEF page
  <2>5. /\ r.pages = Append(w.pages, page)
        /\ r.times = <<>> /\ r.vals = <<>> /\ r.stat = EmptyStat /\ r.size = 0
        /\ r.name = w.name /\ r.encodes = w.encodes
    BY <1>1, <1>3 DEF page, Sealed, Writer
  <2>6. r \in Writer
    <3>1. EmptyStat \in Stat
      BY SizeAssumption DEF EmptyStat, Stat, Stamps
    <3>2. Append(w.pages, page) \in Seq(Page)
      BY <2>1, <2>4
    <3>3. <<>> \in Seq(Times) /\ <<>> \in Seq(Values) /\ 0 \in Nat
      OBVIOUS
    <3>4. Sealed(w) \in Writer
      BY <1>1, <3>1, <3>2, <3>3, SetPages, SetTimes, SetVals, SetStat, SetSize, Zenon
         DEF page, Sealed
    <3> QED BY <1>3, <3>4
  <2>7. /\ Len(r.pages) = n + 1 /\ r.pages[n + 1] = page
        /\ \A i \in 1..n : r.pages[i] = w.pages[i]
    BY <2>1, <2>4, <2>5
  <2>8. After(w, c, r, g) = d
    BY <2>1, <2>7 DEF After
  <2>9. /\ d \in Seq(Nat) /\ Len(d) = n + 2 /\ d[n + 2] = Len(g)
        /\ \A i \in 1..(n + 1) : d[i] = c[i]
    BY <1>1, <2>1
  <2>10. n \in Nat /\ Len(w.pages) = n /\ Len(c) = n + 1
    BY <1>1, <2>1
  <2> HIDE DEF d, n, first
  <2>11. \A i \in 1..Len(d) : d[i] <= Len(g)
    <3> SUFFICES ASSUME NEW i \in 1..(n + 2) PROVE d[i] <= Len(g)
      BY <2>9
    <3>1. CASE i \in 1..(n + 1)
      BY <1>1, <2>9, <2>10, <3>1
    <3>2. CASE i = n + 2
      BY <2>1, <2>9, <3>2
    <3> QED BY <2>10, <3>1, <3>2
  <2>12. PagesHold(r, d, g)
    <3> SUFFICES ASSUME NEW i \in 1..(n + 1)
                 PROVE  r.pages[i].num = d[i + 1] - d[i] /\ PageHolds(r.pages[i], d[i], g)
      BY <2>7 DEF PagesHold
    <3>1. CASE i \in 1..n
      <4>1. i \in 1..(n + 1) /\ i + 1 \in 1..(n + 1)
        BY <2>10, <3>1
      <4>2. w.pages[i].num = c[i + 1] - c[i] /\ PageHolds(w.pages[i], c[i], g)
        BY <1>1, <2>10, <3>1 DEF PagesHold
      <4> QED BY <2>7, <2>9, <3>1, <4>1, <4>2
    <3>2. CASE i = n + 1
      <4>1. d[i] = first /\ d[i + 1] = Len(g) /\ r.pages[i] = page
        BY <2>1, <2>7, <2>9, <2>10, <3>2
      <4>2. page.num = Len(g) - first
        BY <2>1, <2>2, <2>4
      <4> QED BY <2>4, <4>1, <4>2
    <3> QED BY <2>10, <3>1, <3>2
  <2>13. RestHolds(r, d, g, <<>>)
    BY <2>1, <2>5, <2>9 DEF RestHolds
  <2> QED BY <1>1, <2>1, <2>5, <2>6, <2>7, <2>8, <2>9, <2>10, <2>11, <2>12, <2>13 DEF Good
<1> QED BY <1>1, <1>2, <1>3, SealCases

(* So does the seal that check_page_size_and_flush may make.                   *)
LEMMA CheckKeeps ==
    ASSUME NEW w, NEW c, NEW g, Good(w, c, g), RestHolds(w, c, g, <<>>),
           NEW r, r = CheckPageSizeAndFlush(w).cw
    PROVE  /\ Good(r, After(w, c, r, g), g)
           /\ RestHolds(r, After(w, c, r, g), g, <<>>)
           /\ CheckPageSizeAndFlush(w).out \in Outs
<1>1. CASE w.size >= MaxPageSize
  BY SMTT(20), <1>1, SealKeeps, SealCases DEF CheckPageSizeAndFlush, Good
<1>2. CASE ~(w.size >= MaxPageSize)
  BY <1>2 DEF CheckPageSizeAndFlush, Outcome, Outs, After
<1> QED BY <1>1, <1>2
-------------------------------------------------------------------------------
(* A step that seals nothing and only adds to the history keeps the pages.     *)
LEMMA GoodCarries ==
    ASSUME NEW w, NEW c, NEW g, Good(w, c, g),
           NEW r \in Writer, r.pages = w.pages, Len(r.vals) <= Len(r.times),
           NEW h \in Seq(Points), Len(g) <= Len(h), \A i \in 1..Len(g) : h[i] = g[i]
    PROVE  Good(r, c, h)
<1>1. /\ w \in Writer /\ g \in Seq(Points)
      /\ c \in Seq(Nat) /\ Len(c) = Len(w.pages) + 1
      /\ \A i \in 1..Len(c) : c[i] <= Len(g)
      /\ PagesHold(w, c, g)
  BY DEF Good
<1> DEFINE n == Len(w.pages)
<1>2. n \in Nat /\ Len(g) \in Nat /\ Len(h) \in Nat
  BY <1>1 DEF Writer
<1>3. \A i \in 1..Len(c) : c[i] <= Len(h)
  <2> SUFFICES ASSUME NEW i \in 1..Len(c) PROVE c[i] <= Len(h)
    OBVIOUS
  <2>1. c[i] \in Nat /\ c[i] <= Len(g)
    BY <1>1
  <2> QED BY <1>2, <2>1
<1>4. PagesHold(r, c, h)
  <2> SUFFICES ASSUME NEW i \in 1..n
               PROVE  w.pages[i].num = c[i + 1] - c[i] /\ PageHolds(w.pages[i], c[i], h)
    BY DEF PagesHold
  <2>1. w.pages[i].num = c[i + 1] - c[i] /\ PageHolds(w.pages[i], c[i], g)
    BY <1>1 DEF PagesHold
  <2>2. w.pages[i].num \in Nat
    <3>1. w.pages \in Seq(Page)
      BY <1>1 DEF Writer
    <3>2. w.pages[i] \in Page
      BY <3>1
    <3> QED BY <3>2 DEF Page
  <2>3. i \in 1..Len(c) /\ i + 1 \in 1..Len(c)
    BY <1>1, <1>2
  <2>4. c[i] \in Nat /\ c[i + 1] \in Nat /\ c[i + 1] <= Len(g)
    <3>1. c[i] \in Nat /\ c[i + 1] \in Nat
      BY <1>1, <2>3, ElementOfSeq, Zenon
    <3>2. c[i + 1] <= Len(g)
      BY <1>1, <2>3
    <3> QED BY <3>1, <3>2
  <2>5. c[i] + w.pages[i].num = c[i + 1]
    BY <2>1, <2>4
  <2>6. \A k \in 1..(c[i] + w.pages[i].num) : h[k] = g[k]
    <3> SUFFICES ASSUME NEW k \in 1..c[i + 1] PROVE h[k] = g[k]
      BY <2>5
    <3>1. k \in 1..Len(g)
      BY <1>2, <2>4
    <3> QED BY <3>1
  <2> QED BY <2>1, <2>2, <2>4, <2>6, PageHoldsGrow
<1> QED BY <1>1, <1>3, <1>4 DEF Good

(* The size estimate of an open page.                                          *)
LEMMA EstimatedSizeType ==
    ASSUME NEW w \in Writer
    PROVE  EstimatedSize(w) \in Nat
<1>1. w.times \in Seq(Times) /\ w.vals \in Seq(Values)
  BY DEF Writer
<1>2. PICK nt \in Nat : nt = Len(w.times)
  BY <1>1
<1>3. PICK nv \in Nat : nv = Len(w.vals)
  BY <1>1
<1>4. TimeBytes * nt + ValueBytes * nv \in Nat
  BY SizeAssumption
<1> QED BY <1>2, <1>3, <1>4 DEF EstimatedSize

(* PageWriter::write_x with a value of the column's type.                      *)
LEMMA PushMatching ==
    ASSUME NEW w, NEW c, NEW g, Good(w, c, g), RestHolds(w, c, g, <<>>), NEW p \in Points
    PROVE  LET r == PushPoint(w, p, TRUE).cw
           IN  /\ r.pages = w.pages
               /\ Good(r, c, Append(g, p)) /\ RestHolds(r, c, Append(g, p), <<>>)
               /\ PushPoint(w, p, TRUE).out = "ok"
<1> DEFINE r == PushPoint(w, p, TRUE).cw
<1>1. /\ w \in Writer /\ Len(w.vals) <= Len(w.times) /\ g \in Seq(Points)
      /\ c \in Seq(Nat) /\ Len(c) = Len(w.pages) + 1
  BY DEF Good
<1>2. p.t \in Times /\ p.t \in Stamps /\ p.v \in Values
  BY PointsAreTyped
<1>3. w.times \in Seq(Times) /\ w.vals \in Seq(Values) /\ w.stat \in Stat /\ Len(w.pages) \in Nat
  BY <1>1 DEF Writer
<1> DEFINE h == Append(g, p)
           pushed == [w EXCEPT !.times = Append(@, p.t), !.vals = Append(@, p.v),
                               !.stat = UpdateTime(@, p.t)]
<1>4. pushed \in Writer
  <2>1. /\ Append(w.times, p.t) \in Seq(Times)
        /\ Append(w.vals, p.v) \in Seq(Values)
        /\ UpdateTime(w.stat, p.t) \in Stat
    BY <1>2, <1>3, UpdateTimeType
  <2> QED BY <1>1, <2>1, SetTimes, SetVals, SetStat, Zenon
<1>5. EstimatedSize(pushed) \in Nat
  BY <1>4, EstimatedSizeType
<1>6. /\ pushed.pages = w.pages
      /\ pushed.times = Append(w.times, p.t)
      /\ pushed.vals = Append(w.vals, p.v)
  BY <1>1 DEF Writer
<1>7. r = [pushed EXCEPT !.size = EstimatedSize(pushed)] /\ PushPoint(w, p, TRUE).out = "ok"
  BY DEF PushPoint, Outcome
<1> HIDE DEF pushed, r
<1>8. r \in Writer
  BY <1>4, <1>5, <1>7, SetSize
<1>9. /\ r.pages = w.pages
      /\ r.times = Append(w.times, p.t)
      /\ r.vals = Append(w.vals, p.v)
  BY <1>4, <1>6, <1>7 DEF Writer
<1>10. /\ h \in Seq(Points) /\ Len(h) = Len(g) + 1 /\ h[Len(g) + 1] = p
       /\ \A i \in 1..Len(g) : h[i] = g[i]
  BY <1>1
<1> DEFINE nv == Len(w.vals)
           nt == Len(w.times)
           first == c[Len(c)]
<1>11. /\ Len(r.times) = nt + 1 /\ Len(r.vals) = nv + 1
       /\ r.times[nt + 1] = p.t /\ r.vals[nv + 1] = p.v
       /\ \A k \in 1..nt : r.times[k] = w.times[k]
       /\ \A k \in 1..nv : r.vals[k] = w.vals[k]
       /\ nv \in Nat /\ nt \in Nat /\ Len(g) \in Nat /\ first \in Nat
  <2>1. nv \in Nat /\ nt \in Nat /\ Len(g) \in Nat
    BY <1>1, <1>3
  <2>2. first \in Nat
    BY <1>1, <1>3
  <2>3. /\ Len(r.times) = nt + 1 /\ r.times[nt + 1] = p.t
        /\ \A k \in 1..nt : r.times[k] = w.times[k]
    BY <1>2, <1>3, <1>9, AppendProperties
  <2>4. /\ Len(r.vals) = nv + 1 /\ r.vals[nv + 1] = p.v
        /\ \A k \in 1..nv : r.vals[k] = w.vals[k]
    BY <1>2, <1>3, <1>9, AppendProperties
  <2> QED BY <2>1, <2>2, <2>3, <2>4
<1>12. Good(r, c, h)
  <2>1. Len(r.vals) <= Len(r.times)
    <3>1. nv \in Nat /\ nt \in Nat /\ nv <= nt /\ Len(r.times) = nt + 1 /\ Len(r.vals) = nv + 1
      BY <1>1, <1>11
    <3> HIDE DEF nv, nt
    <3> QED BY <3>1
  <2>2. Len(g) <= Len(h)
    BY <1>10, <1>11
  <2> HIDE DEF h
  <2> QED BY <1>8, <1>9, <1>10, <2>1, <2>2, GoodCarries
<1>13. RestHolds(r, c, h, <<>>)
  <2>1. /\ first + nv = Len(g)
        /\ \A k \in 1..nv : /\ w.vals[k] = g[first + k].v
                            /\ nt = nv => w.times[k] = g[first + k].t
    <3>1. /\ first + nv + Len(<<>>) = Len(g)
          /\ \A k \in 1..nv : /\ w.vals[k] = g[first + k].v
                              /\ nt = nv => w.times[k] = g[first + k].t
      BY DEF RestHolds
    <3>2. first + nv + Len(<<>>) = first + nv
      <4> HIDE DEF first, nv
      <4> QED BY <1>11
    <3> QED BY <3>1, <3>2
  <2> HIDE DEF nv, nt, first, h
  <2>2. ASSUME NEW k \in 1..(nv + 1)
        PROVE  /\ r.vals[k] = h[first + k].v
               /\ nt + 1 = nv + 1 => r.times[k] = h[first + k].t
    <3>1. CASE k \in 1..nv
      <4>1. first + k \in 1..Len(g)
        BY <1>11, <2>1, <3>1
      <4>2. nt + 1 = nv + 1 => nt = nv /\ k \in 1..nt
        BY <1>11, <3>1
      <4> QED BY <1>10, <1>11, <2>1, <3>1, <4>1, <4>2
    <3>2. CASE k = nv + 1
      <4>1. first + k = Len(g) + 1
        BY <1>11, <2>1, <3>2
      <4>2. nt + 1 = nv + 1 => k = nt + 1
        BY <1>11, <3>2
      <4> QED BY <1>10, <1>11, <3>2, <4>1, <4>2
    <3>3. nv \in Nat
      BY <1>11
    <3> QED BY <3>1, <3>2, <3>3
  <2>3. first + (nv + 1) + 0 = Len(h)
    BY <1>10, <1>11, <2>1
  <2>4. Len(r.times) = nt + 1 /\ Len(r.vals) = nv + 1 /\ Len(<<>>) = 0
    BY <1>11
  <2> QED BY <2>2, <2>3, <2>4 DEF RestHolds, first
<1> QED BY <1>7, <1>9, <1>12, <1>13 DEF r

(* A refused write leaves timestamps without values: the pages and the values  *)
(* of the open page still hold.                                                *)
LEMMA GhostKeeps ==
    ASSUME NEW w, NEW c, NEW g, Good(w, c, g), RestHolds(w, c, g, <<>>),
           NEW r \in Writer, r.pages = w.pages, r.vals = w.vals, Len(r.times) > Len(r.vals)
    PROVE  Good(r, c, g) /\ RestHolds(r, c, g, <<>>)
<1>1. Len(r.times) \in Nat /\ Len(r.vals) \in Nat
  BY DEF Writer
<1>2. g \in Seq(Points) /\ Len(g) \in Nat
  BY DEF Good
<1>3. Good(r, c, g)
  BY <1>1, <1>2, GoodCarries
<1>4. Len(r.times) # Len(r.vals)
  BY <1>1
<1> QED BY <1>3, <1>4 DEF RestHolds

(* PageWriter::write_x with a value of another type.                           *)
LEMMA PushMismatched ==
    ASSUME NEW w, NEW c, NEW g, Good(w, c, g), RestHolds(w, c, g, <<>>), NEW p \in Points
    PROVE  LET r == PushPoint(w, p, FALSE).cw
           IN  /\ r.pages = w.pages
               /\ Good(r, c, g) /\ RestHolds(r, c, g, <<>>)
               /\ PushPoint(w, p, FALSE).out = "err"
<1> DEFINE r == [w EXCEPT !.times = Append(@, p.t)]
<1>1. w \in Writer /\ Len(w.vals) <= Len(w.times)
  BY DEF Good
<1>2. w.times \in Seq(Times) /\ w.vals \in Seq(Values)
  BY <1>1 DEF Writer
<1>3. Append(w.times, p.t) \in Seq(Times) /\ Len(Append(w.times, p.t)) = Len(w.times) + 1
  BY <1>2, PointsAreTyped, AppendProperties
<1>4. r \in Writer
  BY <1>1, <1>3, SetTimes
<1>5. r.pages = w.pages /\ r.vals = w.vals /\ r.times = Append(w.times, p.t)
  BY <1>1 DEF Writer
<1>6. PushPoint(w, p, FALSE).cw = r /\ PushPoint(w, p, FALSE).out = "err"
  BY DEF PushPoint, Outcome
<1> HIDE DEF r
<1>7. Len(r.times) > Len(r.vals)
  BY <1>1, <1>2, <1>3, <1>5
<1>8. Good(r, c, g) /\ RestHolds(r, c, g, <<>>)
  BY <1>4, <1>5, <1>7, GhostKeeps
<1> QED BY <1>5, <1>6, <1>8, Zenon

(* What a concatenation holds, part by part.                                   *)
LEMMA ConcatParts ==
    ASSUME NEW S, NEW s \in Seq(S), NEW t \in Seq(S)
    PROVE  /\ s \o t \in Seq(S)
           /\ Len(s \o t) = Len(s) + Len(t)
           /\ \A k \in 1..Len(s) : (s \o t)[k] = s[k]
           /\ \A k \in 1..Len(t) : (s \o t)[Len(s) + k] = t[k]
  OBVIOUS

(* The two vectors that write_x_batch appends.                                 *)
LEMMA Columns ==
    ASSUME NEW acc \in Seq(Points)
    PROVE  LET ts == [i \in 1..Len(acc) |-> acc[i].t]
               vs == [i \in 1..Len(acc) |-> acc[i].v]
           IN  /\ ts \in Seq(Times) /\ Len(ts) = Len(acc)
               /\ vs \in Seq(Values) /\ Len(vs) = Len(acc)
<1>1. \A i \in 1..Len(acc) : acc[i].t \in Times /\ acc[i].v \in Values
  BY PointsAreTyped
<1>2. Len(acc) \in Nat
  OBVIOUS
<1> QED BY <1>1, <1>2

(* PageWriter::write_x_batch with values of another type.                      *)
LEMMA AppendMismatched ==
    ASSUME NEW w, NEW c, NEW g, Good(w, c, g), RestHolds(w, c, g, <<>>),
           NEW acc \in Seq(Points), acc # <<>>
    PROVE  LET r == AppendBatch(w, acc, FALSE).cw
           IN  /\ r.pages = w.pages
               /\ Good(r, c, g) /\ RestHolds(r, c, g, <<>>)
               /\ AppendBatch(w, acc, FALSE).out = "err"
<1> DEFINE ts == [i \in 1..Len(acc) |-> acc[i].t]
           r == [w EXCEPT !.times = @ \o ts]
<1>1. w \in Writer /\ Len(w.vals) <= Len(w.times)
  BY DEF Good
<1>2. w.times \in Seq(Times) /\ w.vals \in Seq(Values)
  BY <1>1 DEF Writer
<1>3. ts \in Seq(Times) /\ Len(ts) = Len(acc) /\ Len(acc) > 0
  BY Columns, EmptySeq
<1>4. AppendBatch(w, acc, FALSE).cw = r /\ AppendBatch(w, acc, FALSE).out = "err"
  BY DEF AppendBatch, Outcome
<1> HIDE DEF ts
<1>5. w.times \o ts \in Seq(Times) /\ Len(w.times \o ts) = Len(w.times) + Len(acc)
  <2>1. PICK s \in Seq(Times) : s = w.times
    BY <1>2
  <2>2. PICK t \in Seq(Times) : t = ts
    BY <1>3
  <2>3. s \o t \in Seq(Times) /\ Len(s \o t) = Len(s) + Len(t)
    OBVIOUS
  <2> QED BY <1>3, <2>1, <2>2, <2>3, Zenon
<1>6. r \in Writer
  BY <1>1, <1>5, SetTimes
<1>7. r.pages = w.pages /\ r.vals = w.vals /\ r.times = w.times \o ts
  BY <1>1 DEF Writer
<1> HIDE DEF r
<1>8. Len(r.times) > Len(r.vals)
  BY <1>1, <1>2, <1>3, <1>5, <1>7
<1>9. Good(r, c, g) /\ RestHolds(r, c, g, <<>>)
  BY <1>6, <1>7, <1>8, GhostKeeps
<1> QED BY <1>4, <1>7, <1>9, Zenon

(* PageWriter::write_x_batch: the temporary vector moves into the open page.   *)
AppendTyped(w, acc) == AppendBatch(w, acc, TRUE)

LEMMA AppendMatching ==
    ASSUME NEW w, NEW c, NEW g, NEW acc \in Seq(Points), HasExtremes(acc),
           Good(w, c, g), RestHolds(w, c, g, acc)
    PROVE  LET r == AppendTyped(w, acc).cw
           IN  /\ r.pages = w.pages
               /\ Good(r, c, g) /\ RestHolds(r, c, g, <<>>)
               /\ AppendTyped(w, acc).out = "ok"
<1> DEFINE ts == [i \in 1..Len(acc) |-> acc[i].t]
           vs == [i \in 1..Len(acc) |-> acc[i].v]
           pushed == [[w EXCEPT !.times = @ \o ts] EXCEPT !.vals = @ \o vs,
                                                          !.stat = StatOfBatch(@, acc)]
           r == [pushed EXCEPT !.size = EstimatedSize(pushed)]
<1>1. /\ w \in Writer /\ Len(w.vals) <= Len(w.times) /\ g \in Seq(Points)
      /\ c \in Seq(Nat) /\ Len(c) = Len(w.pages) + 1
  BY DEF Good
<1>2. /\ w.times \in Seq(Times) /\ w.vals \in Seq(Values) /\ w.stat \in Stat
      /\ Len(w.pages) \in Nat
  BY <1>1 DEF Writer
<1>3. ts \in Seq(Times) /\ Len(ts) = Len(acc) /\ vs \in Seq(Values) /\ Len(vs) = Len(acc)
  BY Columns
<1>4. \A k \in 1..Len(acc) : ts[k] = acc[k].t /\ vs[k] = acc[k].v
  OBVIOUS
<1>5. AppendTyped(w, acc).cw = r /\ AppendTyped(w, acc).out = "ok"
  <2>1. AppendTyped(w, acc) = Outcome(r, "ok")
    BY Zenon DEF AppendBatch, AppendTyped
  <2> HIDE DEF r
  <2>2. Outcome(r, "ok").cw = r /\ Outcome(r, "ok").out = "ok"
    BY DEF Outcome
  <2> QED BY <2>1, <2>2, Zenon
<1> HIDE DEF ts, vs
<1>6. pushed \in Writer
  <2>1. /\ w.times \o ts \in Seq(Times) /\ w.vals \o vs \in Seq(Values)
        /\ StatOfBatch(w.stat, acc) \in Stat
    BY <1>2, <1>3, ConcatProperties, StatOfBatchType
  <2>2. [w EXCEPT !.times = @ \o ts].vals = w.vals
    BY <1>1 DEF Writer
  <2>3. [w EXCEPT !.times = @ \o ts].stat = w.stat
    BY <1>1 DEF Writer
  <2> QED BY <1>1, <2>1, <2>2, <2>3, SetTimes, SetVals, SetStat, Zenon
<1>7. /\ pushed.pages = w.pages
      /\ pushed.times = w.times \o ts
      /\ pushed.vals = w.vals \o vs
  BY <1>1 DEF Writer
<1> HIDE DEF pushed
<1>8. r \in Writer
  BY <1>6, EstimatedSizeType, SetSize
<1>9. /\ r.pages = w.pages
      /\ r.times = w.times \o ts
      /\ r.vals = w.vals \o vs
  BY <1>6, <1>7 DEF Writer
<1> HIDE DEF r
<1> DEFINE nv == Len(w.vals)
           nt == Len(w.times)
           na == Len(acc)
           first == c[Len(c)]
<1>10. nv \in Nat /\ nt \in Nat /\ na \in Nat /\ nv <= nt /\ first \in Nat
  <2>1. nv \in Nat /\ nt \in Nat /\ na \in Nat /\ nv <= nt
    BY <1>1, <1>2
  <2>2. first \in Nat
    BY <1>1, <1>2
  <2> QED BY <2>1, <2>2
<1>11. /\ Len(r.times) = nt + na
       /\ \A k \in 1..nt : r.times[k] = w.times[k]
       /\ \A k \in 1..na : r.times[nt + k] = ts[k]
  <2>1. /\ Len(w.times \o ts) = Len(w.times) + Len(ts)
        /\ \A k \in 1..Len(w.times) : (w.times \o ts)[k] = w.times[k]
        /\ \A k \in 1..Len(ts) : (w.times \o ts)[Len(w.times) + k] = ts[k]
    <3>1. PICK s \in Seq(Times) : s = w.times
      BY <1>2
    <3>2. PICK t \in Seq(Times) : t = ts
      BY <1>3
    <3>3. /\ Len(s \o t) = Len(s) + Len(t)
          /\ \A k \in 1..Len(s) : (s \o t)[k] = s[k]
          /\ \A k \in 1..Len(t) : (s \o t)[Len(s) + k] = t[k]
      BY ConcatParts
    <3> QED BY <3>1, <3>2, <3>3, Zenon
  <2> QED BY <1>3, <1>9, <2>1, Zenon
<1>12. /\ Len(r.vals) = nv + na
       /\ \A k \in 1..nv : r.vals[k] = w.vals[k]
       /\ \A k \in 1..na : r.vals[nv + k] = vs[k]
  <2>1. /\ Len(w.vals \o vs) = Len(w.vals) + Len(vs)
        /\ \A k \in 1..Len(w.vals) : (w.vals \o vs)[k] = w.vals[k]
        /\ \A k \in 1..Len(vs) : (w.vals \o vs)[Len(w.vals) + k] = vs[k]
    <3>1. PICK s \in Seq(Values) : s = w.vals
      BY <1>2
    <3>2. PICK t \in Seq(Values) : t = vs
      BY <1>3
    <3>3. /\ Len(s \o t) = Len(s) + Len(t)
          /\ \A k \in 1..Len(s) : (s \o t)[k] = s[k]
          /\ \A k \in 1..Len(t) : (s \o t)[Len(s) + k] = t[k]
      BY ConcatParts
    <3> QED BY <3>1, <3>2, <3>3, Zenon
  <2> QED BY <1>3, <1>9, <2>1, Zenon
<1>13. Good(r, c, g)
  <2>1. Len(r.vals) <= Len(r.times)
    BY <1>10, <1>11, <1>12
  <2>2. Len(g) <= Len(g)
    BY <1>1
  <2> QED BY <1>1, <1>8, <1>9, <2>1, <2>2, GoodCarries
<1>14. /\ first + nv + na = Len(g)
       /\ \A k \in 1..nv : /\ w.vals[k] = g[first + k].v
                           /\ nt = nv => w.times[k] = g[first + k].t
       /\ \A k \in 1..na : acc[k] = g[first + nv + k]
  BY Zenon DEF RestHolds
<1>15. RestHolds(r, c, g, <<>>)
  <2> HIDE DEF nv, nt, na, first
  <2>1. ASSUME NEW k \in 1..(nv + na)
        PROVE  /\ r.vals[k] = g[first + k].v
               /\ nt + na = nv + na => r.times[k] = g[first + k].t
    <3>1. CASE k \in 1..nv
      <4>1. r.vals[k] = w.vals[k] /\ (nt = nv => r.times[k] = w.times[k])
        BY <1>11, <1>12, <3>1, Zenon
      <4>2. nt + na = nv + na => nt = nv
        BY <1>10
      <4> QED BY <1>14, <3>1, <4>1, <4>2
    <3>2. CASE k \in (nv + 1)..(nv + na)
      <4> DEFINE j == k - nv
      <4>1. j \in 1..na /\ first + nv + j = first + k /\ nv + j = k
        BY <1>10, <3>2
      <4> HIDE DEF j
      <4>2. r.vals[nv + j] = vs[j] /\ r.times[nt + j] = ts[j]
        BY <1>11, <1>12, <4>1, Zenon
      <4>3. nt + na = nv + na => nt = nv
        BY <1>10
      <4> QED BY <1>4, <1>14, <4>1, <4>2, <4>3 DEF na
    <3>3. k \in 1..nv \/ k \in (nv + 1)..(nv + na)
      BY <1>10
    <3> QED BY <3>1, <3>2, <3>3
  <2>2. first + (nv + na) + 0 = Len(g)
    BY <1>10, <1>14
  <2>3. Len(r.times) = nt + na /\ Len(r.vals) = nv + na /\ Len(<<>>) = 0
    BY <1>11, <1>12
  <2> QED BY <2>1, <2>2, <2>3 DEF RestHolds, first
<1> QED BY <1>5, <1>9, <1>13, <1>15, Zenon

(* One more point given, and not yet handed to the page.                       *)
LEMMA GiveToBatch ==
    ASSUME NEW w, NEW c, NEW g, NEW acc \in Seq(Points), NEW p \in Points,
           Good(w, c, g), RestHolds(w, c, g, acc)
    PROVE  /\ Good(w, c, Append(g, p))
           /\ RestHolds(w, c, Append(g, p), Append(acc, p))
<1> DEFINE h == Append(g, p)
           grown == Append(acc, p)
           nv == Len(w.vals)
           na == Len(acc)
           first == c[Len(c)]
<1>1. /\ w \in Writer /\ Len(w.vals) <= Len(w.times) /\ g \in Seq(Points)
      /\ c \in Seq(Nat) /\ Len(c) = Len(w.pages) + 1
  BY DEF Good
<1>2. Len(w.pages) \in Nat /\ nv \in Nat /\ na \in Nat
  BY <1>1 DEF Writer
<1>3. first \in Nat /\ Len(g) \in Nat
  BY <1>1, <1>2
<1>4. /\ h \in Seq(Points) /\ Len(h) = Len(g) + 1 /\ h[Len(g) + 1] = p
      /\ \A i \in 1..Len(g) : h[i] = g[i]
  BY <1>1
<1>5. /\ Len(grown) = na + 1 /\ grown[na + 1] = p
      /\ \A k \in 1..na : grown[k] = acc[k]
  OBVIOUS
<1>6. /\ first + nv + na = Len(g)
      /\ \A k \in 1..nv : /\ w.vals[k] = g[first + k].v
                          /\ Len(w.times) = nv => w.times[k] = g[first + k].t
      /\ \A k \in 1..na : acc[k] = g[first + nv + k]
  BY Zenon DEF RestHolds
<1>7. Good(w, c, h)
  <2>1. Len(g) <= Len(h)
    BY <1>3, <1>4
  <2> HIDE DEF h
  <2> QED BY <1>1, <1>4, <2>1, GoodCarries
<1> HIDE DEF h, grown, nv, na, first
<1>8. \A k \in 1..nv : first + k \in 1..Len(g)
  <2>1. first + nv <= Len(g)
    BY <1>2, <1>3, <1>6
  <2> QED BY <1>2, <1>3, <2>1
<1>9. \A k \in 1..na : first + nv + k \in 1..Len(g)
  <2>1. first + nv + na = Len(g)
    BY <1>6
  <2> QED BY <1>2, <1>3, <2>1
<1>10. first + nv + (na + 1) = Len(g) + 1
  <2>1. first + nv + na = Len(g)
    BY <1>6
  <2> QED BY <1>2, <1>3, <2>1
<1>11. ASSUME NEW k \in 1..(na + 1) PROVE grown[k] = h[first + nv + k]
  <2>1. CASE k \in 1..na
    BY <1>4, <1>5, <1>6, <1>9, <2>1
  <2>2. CASE k = na + 1
    BY <1>4, <1>5, <1>10, <2>2
  <2> QED BY <1>2, <2>1, <2>2
<1>12. \A k \in 1..nv : /\ w.vals[k] = h[first + k].v
                        /\ Len(w.times) = nv => w.times[k] = h[first + k].t
  BY <1>4, <1>6, <1>8
<1>13. RestHolds(w, c, h, grown)
  BY <1>4, <1>5, <1>10, <1>11, <1>12 DEF RestHolds, nv, first
<1> QED BY <1>7, <1>13 DEF h, grown
-------------------------------------------------------------------------------
(* The cuts depend on the pages alone.                                         *)
LEMMA AfterSamePages ==
    ASSUME NEW w, NEW c, NEW g, NEW r, NEW x, r.pages = x.pages
    PROVE  After(w, c, r, g) = After(w, c, x, g)
  BY DEF After

(* ChunkWriter::write_x with a value of the column's type.                     *)
LEMMA WriteMatchingKeeps ==
    ASSUME NEW w, NEW c, NEW g, Good(w, c, g), RestHolds(w, c, g, <<>>), NEW p \in Points
    PROVE  LET r == WriteValue(w, p, TRUE)
               h == IF r.out = "ok" THEN Append(g, p) ELSE g
               d == After(w, c, r.cw, g)
           IN  Good(r.cw, d, h) /\ RestHolds(r.cw, d, h, <<>>) /\ r.out \in Outs
<1> DEFINE checked == CheckPageSizeAndFlush(w)
           x == checked.cw
           e == After(w, c, x, g)
           r == WriteValue(w, p, TRUE)
<1>1. Good(x, e, g) /\ RestHolds(x, e, g, <<>>) /\ checked.out \in Outs
  BY CheckKeeps
<1>2. CASE checked.out # "ok"
  <2>1. r = checked
    BY <1>2, Zenon DEF WriteValue
  <2> HIDE DEF checked, r
  <2> QED BY <1>1, <1>2, <2>1, Zenon DEF r
<1>3. CASE checked.out = "ok"
  <2>1. r = PushPoint(x, p, TRUE)
    BY <1>3, Zenon DEF WriteValue
  <2> HIDE DEF x, e, checked, r
  <2>2. /\ PushPoint(x, p, TRUE).cw.pages = x.pages
        /\ Good(PushPoint(x, p, TRUE).cw, e, Append(g, p))
        /\ RestHolds(PushPoint(x, p, TRUE).cw, e, Append(g, p), <<>>)
        /\ PushPoint(x, p, TRUE).out = "ok"
    BY <1>1, PushMatching, Zenon
  <2>3. /\ r.cw.pages = x.pages
        /\ Good(r.cw, e, Append(g, p)) /\ RestHolds(r.cw, e, Append(g, p), <<>>)
        /\ r.out = "ok"
    BY <2>1, <2>2, Zenon
  <2>4. After(w, c, r.cw, g) = e
    BY <2>3, AfterSamePages DEF e
  <2> QED BY <2>3, <2>4, Zenon DEF Outs, r
<1> QED BY <1>2, <1>3

(* ChunkWriter::write_x with a value of another type.                          *)
LEMMA WriteMismatchedKeeps ==
    ASSUME NEW w, NEW c, NEW g, Good(w, c, g), RestHolds(w, c, g, <<>>), NEW p \in Points
    PROVE  LET r == WriteValue(w, p, FALSE)
               d == After(w, c, r.cw, g)
           IN  Good(r.cw, d, g) /\ RestHolds(r.cw, d, g, <<>>) /\ r.out \in Outs
<1> DEFINE checked == CheckPageSizeAndFlush(w)
           x == checked.cw
           e == After(w, c, x, g)
           r == WriteValue(w, p, FALSE)
<1>1. Good(x, e, g) /\ RestHolds(x, e, g, <<>>) /\ checked.out \in Outs
  BY CheckKeeps
<1>2. CASE checked.out # "ok"
  <2>1. r = checked
    BY <1>2, Zenon DEF WriteValue
  <2> HIDE DEF checked, r
  <2> QED BY <1>1, <2>1, Zenon DEF r
<1>3. CASE checked.out = "ok"
  <2>1. r = PushPoint(x, p, FALSE)
    BY <1>3, Zenon DEF WriteValue
  <2> HIDE DEF x, e, checked, r
  <2>2. /\ PushPoint(x, p, FALSE).cw.pages = x.pages
        /\ Good(PushPoint(x, p, FALSE).cw, e, g)
        /\ RestHolds(PushPoint(x, p, FALSE).cw, e, g, <<>>)
        /\ PushPoint(x, p, FALSE).out = "err"
    BY <1>1, PushMismatched, Zenon
  <2>3. /\ r.cw.pages = x.pages
        /\ Good(r.cw, e, g) /\ RestHolds(r.cw, e, g, <<>>)
        /\ r.out = "err"
    BY <2>1, <2>2, Zenon
  <2>4. After(w, c, r.cw, g) = e
    BY <2>3, AfterSamePages DEF e
  <2> QED BY <2>3, <2>4, Zenon DEF Outs, r
<1> QED BY <1>2, <1>3

(* A row is null or carries one of the caller's points.                        *)
IsRow(row) == ~row.null => row.p \in Points

LEMMA RowPoint ==
    ASSUME NEW row, IsRow(row), ~row.null
    PROVE  row.p \in Points
  BY DEF IsRow

(* An empty vector has nothing to bound.                                       *)
LEMMA NoExtremes == HasExtremes(<<>>)
  BY DEF HasExtremes

(* One iteration of the batch loop, over values of the column's type.          *)
LEMMA RowMatchingKeeps ==
    ASSUME NEW w, NEW c, NEW g, NEW acc \in Seq(Points), HasExtremes(acc),
           Good(w, c, g), RestHolds(w, c, g, acc), NEW row, IsRow(row)
    PROVE  LET r == BatchRow(w, acc, row, TRUE)
               h == IF row.null THEN g ELSE Append(g, row.p)
               d == After(w, c, r.cw, h)
           IN  /\ Good(r.cw, d, h)
               /\ RestHolds(r.cw, d, h, IF r.out = "ok" THEN r.acc ELSE <<>>)
               /\ r.acc \in Seq(Points) /\ HasExtremes(r.acc)
               /\ r.out \in Outs
<1> DEFINE grown == Append(acc, row.p)
           flushed == AppendTyped(w, grown)
           x == flushed.cw
           sealed == SealCurrentPage(x)
           y == sealed.cw
           r == BatchRow(w, acc, row, TRUE)
           h == IF row.null THEN g ELSE Append(g, row.p)
           rest == IF r.out = "ok" THEN r.acc ELSE <<>>
<1> SUFFICES /\ Good(r.cw, After(w, c, r.cw, h), h)
             /\ RestHolds(r.cw, After(w, c, r.cw, h), h, rest)
             /\ r.acc \in Seq(Points) /\ HasExtremes(r.acc)
             /\ r.out \in Outs
  OBVIOUS
<1>1. CASE row.null
  <2>1. r = BatchState(w, acc, "ok") /\ h = g
    BY <1>1, Zenon DEF BatchRow
  <2>2. /\ BatchState(w, acc, "ok").cw = w /\ BatchState(w, acc, "ok").acc = acc
        /\ BatchState(w, acc, "ok").out = "ok"
    BY DEF BatchState
  <2> HIDE DEF r, h
  <2>3. r.cw = w /\ r.acc = acc /\ r.out = "ok" /\ rest = acc
    BY <2>1, <2>2
  <2>4. After(w, c, w, g) = c
    BY DEF After
  <2> QED BY <2>1, <2>3, <2>4, Zenon DEF Outs
<1>2. CASE ~row.null
  <2>1. row.p \in Points /\ h = Append(g, row.p)
    BY <1>2, RowPoint
  <2>2. grown \in Seq(Points) /\ HasExtremes(grown) /\ Good(w, c, h) /\ RestHolds(w, c, h, grown)
    BY <2>1, ExtremesGrow, GiveToBatch
  <2>3. CASE ~BatchIsFull(w, Len(grown))
    <3>1. r = BatchState(w, grown, "ok")
      BY <1>2, <2>3, Zenon DEF BatchRow
    <3>2. /\ BatchState(w, grown, "ok").cw = w /\ BatchState(w, grown, "ok").acc = grown
          /\ BatchState(w, grown, "ok").out = "ok"
      BY DEF BatchState
    <3> HIDE DEF r, h, grown
    <3>3. r.cw = w /\ r.acc = grown /\ r.out = "ok" /\ rest = grown
      BY <3>1, <3>2
    <3>4. After(w, c, w, h) = c
      BY DEF After
    <3> QED BY <2>2, <3>3, <3>4, Zenon DEF Outs
  <2>4. CASE BatchIsFull(w, Len(grown))
    <3> HIDE DEF h, grown
    <3>1. /\ x.pages = w.pages /\ Good(x, c, h) /\ RestHolds(x, c, h, <<>>)
          /\ flushed.out = "ok"
      BY <2>2, AppendMatching
    <3> HIDE DEF flushed
    <3>2. r = BatchState(y, <<>>, sealed.out)
      BY <1>2, <2>4, <3>1, Zenon DEF BatchRow, AppendTyped, grown, flushed
    <3> HIDE DEF x
    <3>3. Good(y, After(x, c, y, h), h) /\ RestHolds(y, After(x, c, y, h), h, <<>>)
      BY <3>1, SealKeeps
    <3>4. sealed.out \in Outs
      BY <3>1, SealCases DEF Good
    <3>5. After(w, c, y, h) = After(x, c, y, h)
      BY <3>1 DEF After
    <3> HIDE DEF y, sealed, r
    <3>6. r.cw = y /\ r.acc = <<>> /\ r.out = sealed.out /\ rest = <<>>
      BY <3>2 DEF BatchState
    <3>7. <<>> \in Seq(Points)
      OBVIOUS
    <3> QED BY <3>3, <3>4, <3>5, <3>6, <3>7, NoExtremes, Zenon
  <2> QED BY <2>3, <2>4
<1> QED BY <1>1, <1>2

(* The same over values of another type, which never reach the page.           *)
LEMMA RowMismatchedKeeps ==
    ASSUME NEW w, NEW c, NEW g, NEW acc \in Seq(Points), HasExtremes(acc),
           Good(w, c, g), RestHolds(w, c, g, <<>>), NEW row, IsRow(row)
    PROVE  LET r == BatchRow(w, acc, row, FALSE)
               d == After(w, c, r.cw, g)
           IN  /\ Good(r.cw, d, g) /\ RestHolds(r.cw, d, g, <<>>)
               /\ r.acc \in Seq(Points) /\ HasExtremes(r.acc)
               /\ r.out \in Outs
<1> DEFINE grown == Append(acc, row.p)
           flushed == AppendBatch(w, grown, FALSE)
           x == flushed.cw
           r == BatchRow(w, acc, row, FALSE)
<1> SUFFICES /\ Good(r.cw, After(w, c, r.cw, g), g)
             /\ RestHolds(r.cw, After(w, c, r.cw, g), g, <<>>)
             /\ r.acc \in Seq(Points) /\ HasExtremes(r.acc)
             /\ r.out \in Outs
  OBVIOUS
<1>1. After(w, c, w, g) = c
  BY DEF After
<1>2. CASE row.null
  <2>1. r = BatchState(w, acc, "ok")
    BY <1>2, Zenon DEF BatchRow
  <2> HIDE DEF r
  <2>2. r.cw = w /\ r.acc = acc /\ r.out = "ok"
    BY <2>1 DEF BatchState
  <2> QED BY <1>1, <2>2, Zenon DEF Outs
<1>3. CASE ~row.null
  <2>1. row.p \in Points
    BY <1>3, RowPoint
  <2>2. grown \in Seq(Points) /\ HasExtremes(grown) /\ grown # <<>>
    BY <2>1, ExtremesGrow, AppendProperties
  <2>3. CASE ~BatchIsFull(w, Len(grown))
    <3>1. r = BatchState(w, grown, "ok")
      BY <1>3, <2>3, Zenon DEF BatchRow
    <3> HIDE DEF r, grown
    <3>2. r.cw = w /\ r.acc = grown /\ r.out = "ok"
      BY <3>1 DEF BatchState
    <3> QED BY <1>1, <2>2, <3>2, Zenon DEF Outs
  <2>4. CASE BatchIsFull(w, Len(grown))
    <3> HIDE DEF grown
    <3>1. /\ x.pages = w.pages /\ Good(x, c, g) /\ RestHolds(x, c, g, <<>>)
          /\ flushed.out = "err"
      BY <2>2, AppendMismatched, Zenon
    <3> HIDE DEF flushed
    <3>2. r = BatchState(x, <<>>, "err")
      BY <1>3, <2>4, <3>1, Zenon DEF BatchRow, grown, flushed
    <3> HIDE DEF x, r
    <3>3. r.cw = x /\ r.acc = <<>> /\ r.out = "err"
      BY <3>2 DEF BatchState
    <3>4. After(w, c, x, g) = c
      BY <3>1 DEF After
    <3>5. <<>> \in Seq(Points)
      OBVIOUS
    <3> QED BY <3>1, <3>3, <3>4, <3>5, NoExtremes, Zenon DEF Outs
  <2> QED BY <2>3, <2>4
<1> QED BY <1>2, <1>3
-------------------------------------------------------------------------------
(* Where panics come from.  finish panics on a page with a timestamp too many  *)
(* only: the ranges tile the timestamps, so none is empty and none runs past   *)
(* a value vector of the same length.                                          *)
LEMMA FinishPanics ==
    ASSUME NEW w \in Writer, Len(w.vals) <= Len(w.times), Len(w.times) # 0,
           FinishOutcome(w) = "panic"
    PROVE  Len(w.vals) < Len(w.times)
<1> DEFINE total == Len(w.times)
           n == CalculateMiniblockCount(total)
           ranges == SplitIntoRanges(total)
<1>1. total \in Nat \ {0} /\ Len(w.vals) \in Nat
  BY DEF Writer
<1>2. /\ n \in 1..MiniBlocksPerPage /\ DOMAIN ranges = 1..n
      /\ \A i \in 1..n : /\ ranges[i].start \in Nat /\ ranges[i].end \in 1..total
                         /\ ranges[i].start < ranges[i].end
  <2> HIDE DEF total
  <2> QED BY <1>1, RangesTile
<1>3. 1 \in DOMAIN ranges
  <2> HIDE DEF n, ranges
  <2> QED BY <1>2, MiniBlockAssumption
<1>4. \E i \in DOMAIN ranges : \/ ranges[i].start >= ranges[i].end
                              \/ ranges[i].end > Smaller(total, Len(w.vals))
  <2> HIDE DEF n
  <2> QED BY <1>3 DEF FinishOutcome
<1>5. PICK i \in 1..n : \/ ranges[i].start >= ranges[i].end
                        \/ ranges[i].end > Smaller(total, Len(w.vals))
  <2> HIDE DEF total, n, ranges
  <2> QED BY <1>2, <1>4
<1>6. /\ ranges[i].start \in Nat /\ ranges[i].end \in 1..total
      /\ ranges[i].start < ranges[i].end
  <2> HIDE DEF total, n, ranges
  <2> QED BY <1>2
<1> HIDE DEF n, ranges
<1>7. Len(w.vals) # total
  <2> HIDE DEF total
  <2> QED BY <1>1, <1>5, <1>6 DEF Smaller
<1> QED BY <1>1, <1>7

(* A seal that panics leaves the page as it was, timestamp and all.            *)
LEMMA SealPanics ==
    ASSUME NEW w, NEW c, NEW g, Good(w, c, g), NEW r, r = SealCurrentPage(w),
           r.out = "panic"
    PROVE  Len(r.cw.vals) < Len(r.cw.times)
<1>1. w \in Writer /\ Len(w.vals) <= Len(w.times)
  BY DEF Good
<1>2. Len(w.times) # 0 /\ FinishOutcome(w) = "panic" /\ r.cw = w
  BY DEF SealCurrentPage, Outcome
<1> QED BY <1>1, <1>2, FinishPanics

(* The same for the seal that check_page_size_and_flush may make.              *)
LEMMA CheckPanics ==
    ASSUME NEW w, NEW c, NEW g, Good(w, c, g), NEW r, r = CheckPageSizeAndFlush(w),
           r.out = "panic"
    PROVE  Len(r.cw.vals) < Len(r.cw.times)
<1>1. r = SealCurrentPage(w)
  BY DEF CheckPageSizeAndFlush, Outcome
<1> QED BY <1>1, SealPanics

(* PushPoint itself never panics, so a panic of write_x is one of its seal.    *)
LEMMA WritePanics ==
    ASSUME NEW w, NEW c, NEW g, Good(w, c, g), NEW p, NEW matches,
           NEW r, r = WriteValue(w, p, matches), r.out = "panic"
    PROVE  Len(r.cw.vals) < Len(r.cw.times)
<1>1. PushPoint(CheckPageSizeAndFlush(w).cw, p, matches).out # "panic"
  BY DEF PushPoint, Outcome
<1>2. r = CheckPageSizeAndFlush(w)
  <2> HIDE DEF CheckPageSizeAndFlush, PushPoint
  <2> QED BY <1>1, Zenon DEF WriteValue
<1> QED BY <1>2, CheckPanics

(* A row of a batch whose values have the column's type.                       *)
RowTyped(w, acc, row) == BatchRow(w, acc, row, TRUE)

(* Of such a batch, only the seal of the page it fills panics.                 *)
LEMMA RowMatchingPanics ==
    ASSUME NEW w, NEW c, NEW g, NEW acc \in Seq(Points), HasExtremes(acc),
           Good(w, c, g), RestHolds(w, c, g, acc), NEW row, IsRow(row),
           NEW r, r = RowTyped(w, acc, row), r.out = "panic"
    PROVE  Len(r.cw.vals) < Len(r.cw.times)
<1> DEFINE grown == Append(acc, row.p)
           flushed == AppendTyped(w, grown)
           x == flushed.cw
           sealed == SealCurrentPage(x)
           h == Append(g, row.p)
<1>1. ~row.null /\ BatchIsFull(w, Len(grown))
  <2>1. \A y, z : BatchState(y, z, "ok").out # "panic"
    BY DEF BatchState
  <2> QED BY <2>1, Zenon DEF RowTyped, BatchRow
<1>2. row.p \in Points
  BY <1>1, RowPoint
<1>3. grown \in Seq(Points) /\ grown # <<>> /\ HasExtremes(grown)
      /\ Good(w, c, h) /\ RestHolds(w, c, h, grown)
  BY <1>2, ExtremesGrow, GiveToBatch, AppendProperties
<1> HIDE DEF h, grown
<1>4. Good(x, c, h) /\ flushed.out = "ok"
  BY <1>3, AppendMatching
<1> HIDE DEF flushed
<1>5. r = BatchState(sealed.cw, <<>>, sealed.out)
  BY <1>1, <1>4, Zenon DEF RowTyped, BatchRow, AppendTyped, grown, flushed
<1> HIDE DEF x, sealed
<1>6. r.cw = sealed.cw /\ sealed.out = "panic"
  BY <1>5 DEF BatchState
<1> QED BY <1>4, <1>6, SealPanics DEF sealed

(* A batch of another type never gets to a seal.                               *)
LEMMA RowMismatchedReturns ==
    ASSUME NEW w, NEW acc, NEW row
    PROVE  BatchRow(w, acc, row, FALSE).out # "panic"
<1> DEFINE grown == Append(acc, row.p)
           flushed == AppendBatch(w, grown, FALSE)
<1>1. flushed.out = "err"
  BY DEF AppendBatch, Outcome
<1>2. \A y, z : BatchState(y, z, "ok").out # "panic" /\ BatchState(y, z, "err").out # "panic"
  BY DEF BatchState
<1> QED BY <1>1, <1>2, Zenon DEF BatchRow

-------------------------------------------------------------------------------
(* Joined follows its recursion: that such a function exists is an induction.  *)
Joins(join, seqs) ==
    join = [n \in 0..Len(seqs) |-> IF n = 0 THEN <<>> ELSE join[n - 1] \o seqs[n]]

LEMMA JoinedRecursion ==
    ASSUME NEW X, NEW seqs \in Seq(Seq(X))
    PROVE  \E join \in [0..Len(seqs) -> Seq(X)] :
               Joins(join, seqs) /\ Joined(seqs) = join[Len(seqs)]
<1> DEFINE N == Len(seqs)
           step == [n \in 1..N |-> [s \in Seq(X) |-> s \o seqs[n]]]
           join == CHOOSE f : Joins(f, seqs)
<1>1. N \in Nat /\ \A n \in 1..N : seqs[n] \in Seq(X)
  OBVIOUS
<1>2. \A n \in 1..N : \A s \in Seq(X) : s \o seqs[n] \in Seq(X)
  <2> SUFFICES ASSUME NEW n \in 1..N, NEW s \in Seq(X) PROVE s \o seqs[n] \in Seq(X)
    OBVIOUS
  <2>1. PICK t \in Seq(X) : t = seqs[n]
    BY <1>1
  <2>2. s \o t \in Seq(X)
    OBVIOUS
  <2> QED BY <2>1, <2>2
<1>3. step \in [1..N -> [Seq(X) -> Seq(X)]] /\ <<>> \in Seq(X)
  BY <1>2
<1> HIDE DEF N, step
<1>4. PICK f \in [0..N -> Seq(X)] : Follows(f, N, <<>>, step)
  BY <1>1, <1>3, RecursionDefines, Zenon
<1>5. \A n \in 0..N : f[n] = IF n = 0 THEN <<>> ELSE f[n - 1] \o seqs[n]
  <2>1. ASSUME NEW n \in 1..N PROVE step[n][f[n - 1]] = f[n - 1] \o seqs[n]
    <3>1. f[n - 1] \in Seq(X)
      BY <1>1
    <3> QED BY <3>1 DEF step
  <2>2. \A n \in 0..N : f[n] = IF n = 0 THEN <<>> ELSE step[n][f[n - 1]]
    BY <1>4 DEF Follows
  <2>3. \A n \in 0..N : n # 0 => n \in 1..N
    BY <1>1
  <2> QED BY <2>1, <2>2, <2>3
<1>6. Joins(f, seqs)
  <2>1. f = [n \in 0..N |-> IF n = 0 THEN <<>> ELSE f[n - 1] \o seqs[n]]
    BY <1>5
  <2> QED BY <2>1 DEF Joins, N
<1>7. Joins(join, seqs)
  BY <1>6, Zenon
<1>8. Joined(seqs) = join[N]
  BY Zenon DEF Joined, Joins, N
<1> HIDE DEF join
<1>9. join = f
  <2>1. \A n \in 0..N : join[n] = f[n]
    <3> DEFINE T == {n \in Nat : n <= N => join[n] = f[n]}
    <3>1. \A n \in 0..N : join[n] = IF n = 0 THEN <<>> ELSE join[n - 1] \o seqs[n]
      BY <1>7 DEF Joins, N
    <3>2. 0 \in T
      <4>1. 0 \in 0..N
        BY <1>1
      <4>2. f[0] = <<>> /\ join[0] = <<>>
        BY <1>5, <3>1, <4>1
      <4> QED BY <4>2
    <3>3. ASSUME NEW n \in Nat, n \in T PROVE n + 1 \in T
      <4> SUFFICES ASSUME n + 1 <= N PROVE join[n + 1] = f[n + 1]
        OBVIOUS
      <4>1. n + 1 \in 0..N /\ n + 1 # 0 /\ (n + 1) - 1 = n /\ n <= N
        BY <1>1
      <4>2. join[n] = f[n]
        BY <3>3, <4>1
      <4>3. f[n + 1] = f[n] \o seqs[n + 1]
        BY <1>5, <4>1
      <4>4. join[n + 1] = join[n] \o seqs[n + 1]
        BY <3>1, <4>1
      <4> QED BY <4>2, <4>3, <4>4
    <3> HIDE DEF T
    <3>4. Nat \subseteq T
      BY <3>2, <3>3, InductiveSet
    <3> QED BY <1>1, <3>4 DEF T
  <2>2. DOMAIN join = 0..N /\ join = [n \in 0..N |-> join[n]]
    BY <1>7 DEF Joins, N
  <2> QED BY <2>1, <2>2
<1> QED BY <1>6, <1>8, <1>9 DEF N

(* Sequence i of seqs holds what g does between the ends of i - 1 and of i.    *)
Stretches(seqs, ends, g) ==
    /\ ends \in [0..Len(seqs) -> Nat]
    /\ \A i \in 1..Len(seqs) :
         /\ ends[i] = ends[i - 1] + Len(seqs[i]) /\ ends[i] <= Len(g)
         /\ \A k \in 1..Len(seqs[i]) : seqs[i][k] = g[ends[i - 1] + k]

(* Sequences that hold the stretches of g between the `ends` join to the       *)
(* stretch between the first and the last of them.                             *)
LEMMA JoinedIsSlice ==
    ASSUME NEW X, NEW seqs \in Seq(Seq(X)), NEW g \in Seq(X),
           NEW ends, Stretches(seqs, ends, g)
    PROVE  /\ Joined(seqs) \in Seq(X)
           /\ Len(Joined(seqs)) = ends[Len(seqs)] - ends[0]
           /\ \A k \in 1..Len(Joined(seqs)) : Joined(seqs)[k] = g[ends[0] + k]
<1> DEFINE N == Len(seqs)
<1>1. N \in Nat /\ Len(g) \in Nat /\ \A i \in 1..N : seqs[i] \in Seq(X)
  OBVIOUS
<1>2. PICK join \in [0..N -> Seq(X)] : Joins(join, seqs) /\ Joined(seqs) = join[N]
  BY JoinedRecursion
<1>3. /\ join[0] = <<>>
      /\ \A n \in 1..N : join[n] = join[n - 1] \o seqs[n]
  <2>1. \A n \in 0..N : join[n] = IF n = 0 THEN <<>> ELSE join[n - 1] \o seqs[n]
    BY <1>2 DEF Joins
  <2> HIDE DEF N
  <2>2. 0 \in 0..N /\ \A n \in 1..N : n \in 0..N /\ n # 0
    BY <1>1
  <2> QED BY <2>1, <2>2
<1> DEFINE Holds(n) == /\ Len(join[n]) = ends[n] - ends[0]
                       /\ \A k \in 1..Len(join[n]) : join[n][k] = g[ends[0] + k]
           T == {n \in Nat : n <= N => Holds(n)}
<1>4. \A i \in 1..N :
          /\ ends[i] = ends[i - 1] + Len(seqs[i]) /\ ends[i] <= Len(g)
          /\ \A k \in 1..Len(seqs[i]) : seqs[i][k] = g[ends[i - 1] + k]
  BY DEF Stretches
<1>9. ends \in [0..N -> Nat]
  BY DEF Stretches
<1> HIDE DEF N
<1>5. 0 \in T
  <2>1. ends[0] \in Nat
    BY <1>1, <1>9
  <2> QED BY <1>3, <2>1
<1>6. ASSUME NEW n \in Nat, n \in T PROVE n + 1 \in T
  <2> HIDE DEF Holds
  <2> SUFFICES ASSUME n + 1 <= N PROVE Holds(n + 1)
    OBVIOUS
  <2>1. n + 1 \in 1..N /\ n \in 0..N /\ (n + 1) - 1 = n /\ Holds(n)
    BY <1>1, <1>6
  <2>2. PICK s \in Seq(X) : s = join[n]
    BY <2>1
  <2>3. PICK t \in Seq(X) : t = seqs[n + 1]
    BY <1>1, <2>1
  <2>4. join[n + 1] = s \o t
    BY <1>3, <2>1, <2>2, <2>3
  <2>5. ends[n + 1] = ends[n] + Len(t) /\ \A k \in 1..Len(t) : t[k] = g[ends[n] + k]
    BY <1>4, <2>1, <2>3
  <2> DEFINE a == ends[0]
             b == ends[n]
  <2>6. a \in Nat /\ b \in Nat
    BY <1>1, <1>9, <2>1
  <2>7. Len(s) = b - a /\ \A k \in 1..Len(s) : s[k] = g[a + k]
    BY <2>1, <2>2 DEF Holds
  <2> HIDE DEF a, b
  <2>8. /\ Len(s \o t) = Len(s) + Len(t) /\ Len(s) \in Nat /\ Len(t) \in Nat
        /\ \A k \in 1..Len(s) : (s \o t)[k] = s[k]
        /\ \A k \in 1..Len(t) : (s \o t)[Len(s) + k] = t[k]
    BY ConcatParts
  <2>9. Len(s \o t) = ends[n + 1] - a
    <3>1. ends[n + 1] = b + Len(t)
      BY <2>5 DEF b
    <3> QED BY <2>6, <2>7, <2>8, <3>1
  <2>10. ASSUME NEW k \in 1..Len(s \o t) PROVE (s \o t)[k] = g[a + k]
    <3>1. CASE k \in 1..Len(s)
      <4>1. (s \o t)[k] = s[k]
        BY <2>8, <3>1
      <4>2. s[k] = g[a + k]
        BY <2>7, <3>1
      <4> QED BY <4>1, <4>2
    <3>2. CASE k \notin 1..Len(s)
      <4>1. PICK j \in 1..Len(t) : k = Len(s) + j
        <5>1. k - Len(s) \in 1..Len(t) /\ k = Len(s) + (k - Len(s))
          BY <2>8, <3>2
        <5> QED BY <5>1
      <4>2. (s \o t)[k] = t[j] /\ t[j] = g[b + j]
        BY <2>5, <2>8, <4>1 DEF b
      <4>3. b + j = a + k
        BY SMTT(30), <2>6, <2>7, <2>8, <4>1
      <4> QED BY <4>2, <4>3
    <3> QED BY <3>1, <3>2
  <2> QED BY <2>4, <2>9, <2>10 DEF Holds, a
<1>7. N \in T
  <2> HIDE DEF T
  <2> QED BY <1>1, <1>5, <1>6, InductiveSet
<1>8. Holds(N) /\ join[N] \in Seq(X)
  BY <1>1, <1>7
<1> QED BY <1>2, <1>8 DEF N

BlockHolds(block, from, size, g) ==
    /\ Len(block.times) = size
    /\ \A k \in 1..size : /\ block.times[k] = g[from + k].t
                          /\ block.vals[k] = g[from + k].v

(* A block's points are the pairs of its two vectors.                          *)
LEMMA BlockPointsAre ==
    ASSUME NEW g \in Seq(Points), NEW from \in Nat, NEW size \in Nat, from + size <= Len(g),
           NEW block, BlockHolds(block, from, size, g)
    PROVE  /\ BlockPoints(block) \in Seq(Points) /\ Len(BlockPoints(block)) = size
           /\ \A k \in 1..size : BlockPoints(block)[k] = g[from + k]
<1>1. ASSUME NEW k \in 1..size
      PROVE  /\ [t |-> block.times[k], v |-> block.vals[k]] = g[from + k]
             /\ g[from + k] \in Points
  <2>1. from + k \in 1..Len(g)
    OBVIOUS
  <2>2. g[from + k] \in Points
    BY <2>1
  <2>3. PICK p \in [t : Stamps, v : Values] : p = g[from + k]
    BY <2>2, PointAssumption
  <2>4. p = [t |-> p.t, v |-> p.v]
    OBVIOUS
  <2> QED BY <2>2, <2>3, <2>4 DEF BlockHolds
<1>2. BlockPoints(block) = [k \in 1..size |-> [t |-> block.times[k], v |-> block.vals[k]]]
  BY DEF BlockPoints, BlockHolds
<1>3. BlockPoints(block) = [k \in 1..size |-> g[from + k]]
  BY <1>1, <1>2
<1> QED BY <1>1, <1>3

(* What a reader decodes of a page that holds the points of g after `first`.   *)
LEMMA PagePointsAre ==
    ASSUME NEW g \in Seq(Points), NEW first \in Nat, NEW page, page.num \in Nat,
           page.blocks \in Seq(Block),
           first + page.num <= Len(g), PageHolds(page, first, g)
    PROVE  /\ PagePoints(page) \in Seq(Points)
           /\ Len(PagePoints(page)) = page.num
           /\ \A k \in 1..page.num : PagePoints(page)[k] = g[first + k]
<1> DEFINE total == page.num
           n == CalculateMiniblockCount(total)
           ranges == SplitIntoRanges(total)
           seqs == [j \in 1..Len(page.blocks) |-> BlockPoints(page.blocks[j])]
           ends == [i \in 0..n |-> first + BlockEnd(total, n, i)]
<1>1. total \in Nat \ {0} /\ Len(page.blocks) = n
  BY DEF PageHolds
<1>2. /\ n \in 1..MiniBlocksPerPage /\ DOMAIN ranges = 1..n
      /\ ranges[1].start = 0 /\ ranges[n].end = total
      /\ \A i \in 1..n : /\ ranges[i].start \in Nat /\ ranges[i].end \in 1..total
                         /\ ranges[i].start < ranges[i].end
  BY <1>1, RangesTile
<1>3. ranges = [i \in 1..n |-> [start |-> BlockEnd(total, n, i - 1), end |-> BlockEnd(total, n, i)]]
  BY DEF SplitIntoRanges
<1> HIDE DEF n, ranges
<1>4. /\ \A i \in 1..n : ranges[i].start = BlockEnd(total, n, i - 1) /\ ranges[i].end = BlockEnd(total, n, i)
      /\ n \in Nat \ {0}
  BY <1>2, <1>3, MiniBlockAssumption
<1>5. \A i \in 0..n : BlockEnd(total, n, i) \in 0..total
  <2> SUFFICES ASSUME NEW i \in 0..n PROVE BlockEnd(total, n, i) \in 0..total
    OBVIOUS
  <2>1. CASE i = 0
    <3>1. 1 \in 1..n /\ 1 - 1 = 0
      BY <1>4
    <3>2. BlockEnd(total, n, 0) = ranges[1].start
      BY <1>4, <3>1
    <3> QED BY <1>1, <1>2, <2>1, <3>2
  <2>2. CASE i \in 1..n
    <3>1. BlockEnd(total, n, i) = ranges[i].end
      BY <1>4, <2>2
    <3>2. ranges[i].end \in 1..total
      BY <1>2, <2>2
    <3> QED BY <1>1, <3>1, <3>2
  <2> QED BY <1>4, <2>1, <2>2
<1>6. /\ ends[0] = first /\ ends[n] = first + total
      /\ ends \in [0..n -> Nat]
      /\ \A i \in 1..n : /\ ends[i - 1] = first + ranges[i].start
                         /\ ends[i] = first + ranges[i].end
  <2>1. 1 \in 1..n /\ n \in 1..n /\ 0 \in 0..n /\ n \in 0..n /\ 1 - 1 = 0
    BY <1>4
  <2>2. BlockEnd(total, n, 0) = 0 /\ BlockEnd(total, n, n) = total
    BY <1>2, <1>4, <2>1
  <2>3. \A i \in 1..n : i - 1 \in 0..n /\ i \in 0..n
    BY <1>4
  <2>4. \A i \in 0..n : first + BlockEnd(total, n, i) \in Nat
    BY <1>1, <1>5
  <2> QED BY SMTT(30), <1>4, <2>1, <2>2, <2>3, <2>4
<1> HIDE DEF ends
<1>7. ASSUME NEW j \in 1..n
      PROVE  LET size == ranges[j].end - ranges[j].start
                 s    == BlockPoints(page.blocks[j])
             IN  /\ s \in Seq(Points) /\ Len(s) = size
                 /\ ends[j] = ends[j - 1] + size /\ ends[j] <= Len(g)
                 /\ \A k \in 1..size : s[k] = g[ends[j - 1] + k]
  <2> DEFINE size == ranges[j].end - ranges[j].start
             block == page.blocks[j]
             from == first + ranges[j].start
  <2>1. /\ size \in Nat /\ from \in Nat /\ from + size = ends[j]
        /\ ends[j - 1] = from /\ from + size <= first + total
    <3>1. /\ ranges[j].start \in Nat /\ ranges[j].end \in 1..total
          /\ ranges[j].start < ranges[j].end
          /\ ends[j - 1] = first + ranges[j].start /\ ends[j] = first + ranges[j].end
      BY <1>2, <1>6
    <3>2. PICK a \in Nat : a = ranges[j].start
      BY <3>1
    <3>3. PICK b \in Nat : b = ranges[j].end
      BY <1>1, <3>1
    <3>4. a < b /\ b <= total /\ total \in Nat
      BY <1>1, <3>1, <3>2, <3>3
    <3>5. size = b - a /\ from = first + a /\ ends[j - 1] = first + a /\ ends[j] = first + b
      BY <3>1, <3>2, <3>3
    <3> HIDE DEF total, size, from
    <3> QED BY <3>4, <3>5
  <2>4. from + size <= Len(g) /\ ends[j] <= Len(g)
    <3>1. \A a, b, c \in Nat : a <= b /\ b <= c => a <= c
      OBVIOUS
    <3>2. first + total <= Len(g) /\ first + total \in Nat /\ Len(g) \in Nat
      BY <1>1
    <3>3. from + size \in Nat
      BY <2>1
    <3> HIDE DEF from, size, total
    <3> QED BY <2>1, <3>1, <3>2, <3>3
  <2>2. BlockHolds(block, from, size, g)
    BY <1>1 DEF PageHolds, BlockHolds, n, ranges
  <2> HIDE DEF size, block, from
  <2>3. /\ BlockPoints(block) \in Seq(Points) /\ Len(BlockPoints(block)) = size
        /\ \A k \in 1..size : BlockPoints(block)[k] = g[from + k]
    BY <2>1, <2>2, <2>4, BlockPointsAre
  <2> QED BY <2>1, <2>3, <2>4 DEF size, block
<1>8. seqs = [j \in 1..n |-> BlockPoints(page.blocks[j])]
  BY <1>1
<1> HIDE DEF seqs
<1>9. seqs \in Seq(Seq(Points)) /\ Len(seqs) = n
  BY <1>4, <1>7, <1>8
<1>10. \A i \in 1..Len(seqs) :
          /\ ends[i] = ends[i - 1] + Len(seqs[i]) /\ ends[i] <= Len(g)
          /\ \A k \in 1..Len(seqs[i]) : seqs[i][k] = g[ends[i - 1] + k]
  <2> SUFFICES ASSUME NEW i \in 1..n
               PROVE  /\ ends[i] = ends[i - 1] + Len(seqs[i]) /\ ends[i] <= Len(g)
                      /\ \A k \in 1..Len(seqs[i]) : seqs[i][k] = g[ends[i - 1] + k]
    BY <1>9
  <2>1. seqs[i] = BlockPoints(page.blocks[i])
    BY <1>8
  <2> QED BY <1>7, <2>1
<1>14. Stretches(seqs, ends, g)
  BY <1>6, <1>9, <1>10 DEF Stretches
<1>11. /\ Joined(seqs) \in Seq(Points)
       /\ Len(Joined(seqs)) = ends[n] - ends[0]
       /\ \A k \in 1..Len(Joined(seqs)) : Joined(seqs)[k] = g[ends[0] + k]
  BY <1>9, <1>14, JoinedIsSlice
<1>12. PagePoints(page) = Joined(seqs)
  BY DEF PagePoints, seqs
<1>13. ends[n] - ends[0] = total
  BY <1>1, <1>6
<1> QED BY <1>6, <1>11, <1>12, <1>13

(* A reader of the sealed pages gets the points given before the last cut.     *)
LEMMA ReadChunkIs ==
    ASSUME NEW w, NEW c, NEW g, Good(w, c, g), c[1] = 0
    PROVE  /\ ReadChunk(w.pages) \in Seq(Points)
           /\ c[Len(c)] \in 0..Len(g)
           /\ Len(ReadChunk(w.pages)) = c[Len(c)]
           /\ \A k \in 1..c[Len(c)] : ReadChunk(w.pages)[k] = g[k]
<1> DEFINE n == Len(w.pages)
           seqs == [i \in 1..n |-> PagePoints(w.pages[i])]
           ends == [i \in 0..n |-> c[i + 1]]
<1>1. /\ w \in Writer /\ g \in Seq(Points) /\ c \in Seq(Nat) /\ Len(c) = n + 1
      /\ \A i \in 1..Len(c) : c[i] <= Len(g)
      /\ PagesHold(w, c, g)
  BY DEF Good
<1>2. /\ n \in Nat /\ Len(g) \in Nat
      /\ \A i \in 1..n : w.pages[i].num \in Nat /\ w.pages[i].blocks \in Seq(Block)
  <2>1. PICK ps \in Seq(Page) : ps = w.pages
    BY <1>1 DEF Writer
  <2>2. n \in Nat /\ \A i \in 1..n : ps[i] \in Page
    BY <2>1
  <2>3. Len(g) \in Nat
    BY <1>1
  <2> QED BY <2>1, <2>2, <2>3 DEF Page
<1>3. \A i \in 1..n : w.pages[i].num = c[i + 1] - c[i] /\ PageHolds(w.pages[i], c[i], g)
  BY <1>1 DEF PagesHold
<1> HIDE DEF n
<1>4. \A i \in 1..(n + 1) : c[i] \in Nat /\ c[i] <= Len(g)
  BY <1>1
<1>5. ASSUME NEW i \in 1..n
      PROVE  /\ PagePoints(w.pages[i]) \in Seq(Points)
             /\ Len(PagePoints(w.pages[i])) = c[i + 1] - c[i]
             /\ \A k \in 1..Len(PagePoints(w.pages[i])) : PagePoints(w.pages[i])[k] = g[c[i] + k]
  <2>1. i \in 1..(n + 1) /\ i + 1 \in 1..(n + 1)
    BY <1>2
  <2>2. c[i] \in Nat /\ c[i + 1] \in Nat /\ c[i + 1] <= Len(g)
    BY <1>4, <2>1
  <2> DEFINE page == w.pages[i]
  <2>3. /\ page.num \in Nat /\ page.blocks \in Seq(Block)
        /\ page.num = c[i + 1] - c[i] /\ PageHolds(page, c[i], g)
    BY <1>2, <1>3
  <2>4. c[i] + page.num <= Len(g)
    BY <2>2, <2>3
  <2> HIDE DEF page
  <2>5. /\ PagePoints(page) \in Seq(Points)
        /\ Len(PagePoints(page)) = page.num
        /\ \A k \in 1..page.num : PagePoints(page)[k] = g[c[i] + k]
    BY <1>1, <2>2, <2>3, <2>4, PagePointsAre
  <2> QED BY <2>3, <2>5 DEF page
<1>6. seqs \in Seq(Seq(Points)) /\ Len(seqs) = n
  BY <1>2, <1>5
<1>7. ends \in [0..n -> Nat] /\ ends[0] = 0 /\ ends[n] = c[n + 1]
  <2>1. \A i \in 0..n : i + 1 \in 1..(n + 1)
    BY <1>2
  <2>2. 0 \in 0..n /\ n \in 0..n /\ 0 + 1 = 1
    BY <1>2
  <2> QED BY <1>4, <2>1, <2>2
<1>8. \A i \in 1..n : /\ ends[i] = ends[i - 1] + Len(seqs[i]) /\ ends[i] <= Len(g)
                      /\ \A k \in 1..Len(seqs[i]) : seqs[i][k] = g[ends[i - 1] + k]
  <2> SUFFICES ASSUME NEW i \in 1..n
               PROVE  /\ ends[i] = ends[i - 1] + Len(seqs[i]) /\ ends[i] <= Len(g)
                      /\ \A k \in 1..Len(seqs[i]) : seqs[i][k] = g[ends[i - 1] + k]
    OBVIOUS
  <2>1. i \in 0..n /\ i - 1 \in 0..n /\ (i - 1) + 1 = i /\ i + 1 \in 1..(n + 1) /\ i \in 1..(n + 1)
    BY <1>2
  <2>2. ends[i] = c[i + 1] /\ ends[i - 1] = c[i] /\ seqs[i] = PagePoints(w.pages[i])
    BY <2>1
  <2>3. c[i] \in Nat /\ c[i + 1] \in Nat /\ c[i + 1] <= Len(g)
    BY <1>4, <2>1
  <2> HIDE DEF ends, seqs
  <2> DEFINE s == PagePoints(w.pages[i])
  <2>4. Len(s) = c[i + 1] - c[i] /\ \A k \in 1..Len(s) : s[k] = g[c[i] + k]
    BY <1>5
  <2> HIDE DEF s
  <2>5. c[i + 1] = c[i] + Len(s)
    BY <2>3, <2>4
  <2>6. seqs[i] = s /\ ends[i] = c[i + 1] /\ ends[i - 1] = c[i]
    BY <2>2 DEF s
  <2> QED BY <2>3, <2>4, <2>5, <2>6
<1>9. Stretches(seqs, ends, g)
  <2> HIDE DEF ends, seqs
  <2> QED BY <1>6, <1>7, <1>8 DEF Stretches
<1>10. ReadChunk(w.pages) = Joined(seqs)
  BY DEF ReadChunk, n
<1> HIDE DEF seqs, ends
<1>11. /\ Joined(seqs) \in Seq(Points)
       /\ Len(Joined(seqs)) = ends[Len(seqs)] - ends[0]
       /\ \A k \in 1..Len(Joined(seqs)) : Joined(seqs)[k] = g[ends[0] + k]
  BY <1>1, <1>6, <1>9, JoinedIsSlice
<1>12. c[n + 1] \in Nat /\ c[n + 1] <= Len(g) /\ c[Len(c)] = c[n + 1]
  <2>1. n + 1 \in 1..(n + 1)
    BY <1>2
  <2> QED BY <1>1, <1>4, <2>1
<1>13. ends[Len(seqs)] - ends[0] = c[n + 1] /\ \A k \in 1..c[n + 1] : ends[0] + k = k
  BY <1>6, <1>7, <1>12
<1> QED BY <1>2, <1>10, <1>11, <1>12, <1>13

(* The points after place m of a history.                                      *)
LEMMA RestIs ==
    ASSUME NEW X, NEW g \in Seq(X), NEW m \in 0..Len(g)
    PROVE  /\ SubSeq(g, m + 1, Len(g)) \in Seq(X)
           /\ Len(SubSeq(g, m + 1, Len(g))) = Len(g) - m
           /\ \A k \in 1..(Len(g) - m) : SubSeq(g, m + 1, Len(g))[k] = g[m + k]
<1>1. PICK a \in Int : a = m + 1
  OBVIOUS
<1>2. PICK b \in Nat : b = Len(g)
  OBVIOUS
<1>3. \A i \in a..b : g[i] \in X
  BY <1>1, <1>2
<1>4. /\ SubSeq(g, a, b) \in Seq(X)
      /\ Len(SubSeq(g, a, b)) = IF a <= b THEN b - a + 1 ELSE 0
      /\ \A i \in 1..(b - a + 1) : SubSeq(g, a, b)[i] = g[a + i - 1]
  BY <1>2, <1>3, SubSeqProperties
<1>5. /\ (IF a <= b THEN b - a + 1 ELSE 0) = b - m /\ b - a + 1 = b - m
      /\ \A k \in 1..(b - m) : a + k - 1 = m + k
  BY <1>1, <1>2
<1> QED BY <1>1, <1>2, <1>4, <1>5

(* Two sequences with the same elements are the same.                          *)
LEMMA SameSequence ==
    ASSUME NEW X, NEW s \in Seq(X), NEW t \in Seq(X), Len(s) = Len(t),
           \A k \in 1..Len(s) : s[k] = t[k]
    PROVE  s = t
  BY SeqEqual
-------------------------------------------------------------------------------
(* The writer refines the append-only series.  `At` is what Log sees of a      *)
(* writer w with the cuts c and the history g.                                 *)
StoredOf(w) == ReadChunk(w.pages)
PendingOf(c, g) == SubSeq(g, c[Len(c)] + 1, Len(g))

(* Stored and pending points are, together and in order, all that were given.  *)
LEMMA StoredAndPending ==
    ASSUME NEW w, NEW c, NEW g, Good(w, c, g), c[1] = 0
    PROVE  /\ StoredOf(w) \in Seq(Points) /\ PendingOf(c, g) \in Seq(Points)
           /\ StoredOf(w) \o PendingOf(c, g) = g
<1> DEFINE m == c[Len(c)]
           s == StoredOf(w)
           t == PendingOf(c, g)
<1>1. g \in Seq(Points)
  BY DEF Good
<1>2. s \in Seq(Points) /\ m \in 0..Len(g) /\ Len(s) = m /\ \A k \in 1..m : s[k] = g[k]
  BY ReadChunkIs DEF StoredOf
<1>3. t \in Seq(Points) /\ Len(t) = Len(g) - m /\ \A k \in 1..(Len(g) - m) : t[k] = g[m + k]
  BY <1>1, <1>2, RestIs DEF PendingOf
<1> HIDE DEF m, s, t
<1>4. /\ s \o t \in Seq(Points) /\ Len(s \o t) = Len(s) + Len(t)
      /\ \A k \in 1..Len(s) : (s \o t)[k] = s[k]
      /\ \A k \in 1..Len(t) : (s \o t)[Len(s) + k] = t[k]
  BY <1>2, <1>3, ConcatParts
<1>5. Len(s \o t) = Len(g)
  BY <1>1, <1>2, <1>3, <1>4
<1>6. ASSUME NEW k \in 1..Len(s \o t) PROVE (s \o t)[k] = g[k]
  <2>1. CASE k \in 1..m
    BY <1>2, <1>4, <2>1
  <2>2. CASE k \notin 1..m
    <3>1. PICK j \in Int : k = m + j
      <4>1. k - m \in Int /\ k = m + (k - m)
        BY <1>2
      <4> QED BY <4>1
    <3>2. j \in 1..Len(t)
      BY <1>1, <1>2, <1>3, <1>5, <2>2, <3>1
    <3> QED BY <1>2, <1>3, <1>4, <3>1, <3>2
  <2> QED BY <2>1, <2>2
<1>7. s \o t = g
  BY <1>1, <1>4, <1>5, <1>6, SameSequence
<1> QED BY <1>2, <1>3, <1>7 DEF s, t

(* Once the last cut is at the end of the history, everything is stored.       *)
LEMMA AllStored ==
    ASSUME NEW w, NEW c, NEW g, Good(w, c, g), c[1] = 0, c[Len(c)] = Len(g)
    PROVE  StoredOf(w) = g /\ PendingOf(c, g) = <<>>
<1>1. g \in Seq(Points) /\ Len(g) \in Nat
  BY DEF Good
<1>2. StoredOf(w) = g
  BY <1>1, ReadChunkIs, SameSequence DEF StoredOf
<1>3. PendingOf(c, g) = <<>>
  BY <1>1, SubSeqEmpty DEF PendingOf
<1> QED BY <1>2, <1>3

(* Without a new cut, nothing more is stored and one more point is pending.    *)
LEMMA StoredSame ==
    ASSUME NEW w, NEW c, NEW g, Good(w, c, g), c[1] = 0,
           NEW r, NEW h, Good(r, c, h), \A k \in 1..c[Len(c)] : h[k] = g[k]
    PROVE  StoredOf(r) = StoredOf(w)
<1>1. /\ StoredOf(w) \in Seq(Points) /\ Len(StoredOf(w)) = c[Len(c)]
      /\ \A k \in 1..c[Len(c)] : StoredOf(w)[k] = g[k]
  BY ReadChunkIs DEF StoredOf
<1>2. /\ StoredOf(r) \in Seq(Points) /\ Len(StoredOf(r)) = c[Len(c)]
      /\ \A k \in 1..c[Len(c)] : StoredOf(r)[k] = h[k]
  BY ReadChunkIs DEF StoredOf
<1> QED BY <1>1, <1>2, SameSequence

LEMMA PendingGrows ==
    ASSUME NEW g \in Seq(Points), NEW p \in Points, NEW c, c[Len(c)] \in 0..Len(g)
    PROVE  PendingOf(c, Append(g, p)) = Append(PendingOf(c, g), p)
<1> DEFINE m == c[Len(c)]
           h == Append(g, p)
           s == PendingOf(c, h)
           t == PendingOf(c, g)
<1>1. /\ h \in Seq(Points) /\ Len(h) = Len(g) + 1 /\ h[Len(g) + 1] = p
      /\ \A k \in 1..Len(g) : h[k] = g[k]
      /\ Len(g) \in Nat /\ m \in 0..Len(g) /\ m \in 0..Len(h)
  OBVIOUS
<1>2. t \in Seq(Points) /\ Len(t) = Len(g) - m /\ \A k \in 1..(Len(g) - m) : t[k] = g[m + k]
  BY <1>1, RestIs DEF PendingOf
<1> HIDE DEF h
<1>3. s \in Seq(Points) /\ Len(s) = Len(h) - m /\ \A k \in 1..(Len(h) - m) : s[k] = h[m + k]
  BY <1>1, RestIs DEF PendingOf
<1> HIDE DEF s, t, m
<1>4. /\ Append(t, p) \in Seq(Points) /\ Len(Append(t, p)) = Len(t) + 1
      /\ Append(t, p)[Len(t) + 1] = p
      /\ \A k \in 1..Len(t) : Append(t, p)[k] = t[k]
  BY <1>2, AppendProperties
<1>5. Len(s) = Len(Append(t, p))
  BY <1>1, <1>2, <1>3, <1>4
<1>6. ASSUME NEW k \in 1..Len(s) PROVE s[k] = Append(t, p)[k]
  <2>1. CASE k = Len(t) + 1
    <3>1. m + k = Len(g) + 1
      BY <1>1, <1>2, <2>1
    <3> QED BY <1>1, <1>3, <1>4, <2>1, <3>1
  <2>2. CASE k \in 1..Len(t)
    <3>1. m + k \in 1..Len(g)
      BY <1>1, <1>2, <2>2
    <3> QED BY <1>1, <1>2, <1>3, <1>4, <2>2, <3>1
  <2>3. Len(t) \in Nat /\ Len(s) = Len(t) + 1
    BY <1>2, <1>4, <1>5
  <2> QED BY <2>1, <2>2, <2>3
<1>7. s = Append(t, p)
  BY <1>3, <1>4, <1>5, <1>6, SameSequence
<1> QED BY <1>7 DEF s, t, h

--------------------------------------------------------------------------------
(* The calls of the file writer.                                                *)


(* Writer w holds exactly the points g, in its pages and its open page.        *)
Holds(w, g) == \E c : Good(w, c, g) /\ RestHolds(w, c, g, <<>>) /\ c[1] = 0

(* The open page has one value for each timestamp.                             *)
Even(w) == Len(w.vals) = Len(w.times)

(* s is t without some of its elements.                                        *)
Sub(s, t) ==
    \E f \in [1..Len(s) -> 1..Len(t)] :
        /\ \A i \in 1..Len(s) : s[i] = t[f[i]]
        /\ \A i, j \in 1..Len(s) : i < j => f[i] < f[j]
-------------------------------------------------------------------------------
LEMMA SubRefl ==
    ASSUME NEW X, NEW s \in Seq(X)
    PROVE  Sub(s, s)
<1> DEFINE f == [i \in 1..Len(s) |-> i]
<1>1. f \in [1..Len(s) -> 1..Len(s)]
  OBVIOUS
<1>2. \A i \in 1..Len(s) : s[i] = s[f[i]]
  OBVIOUS
<1>3. \A i, j \in 1..Len(s) : i < j => f[i] < f[j]
  OBVIOUS
<1> HIDE DEF f
<1> QED BY <1>1, <1>2, <1>3 DEF Sub

LEMMA SubEmpty ==
    ASSUME NEW t
    PROVE  Sub(<<>>, t)
<1> DEFINE f == [i \in 1..0 |-> i]
<1>1. 1..0 = {} /\ Len(<<>>) = 0
  OBVIOUS
<1>2. f \in [1..0 -> 1..Len(t)]
  BY <1>1
<1> HIDE DEF f
<1> QED BY <1>1, <1>2 DEF Sub

(* Leaving out elements of two sequences leaves them out of their              *)
(* concatenation.                                                              *)
LEMMA SubConcat ==
    ASSUME NEW X, NEW s \in Seq(X), NEW t \in Seq(X), NEW u \in Seq(X), NEW v \in Seq(X),
           Sub(s, t), Sub(u, v)
    PROVE  Sub(s \o u, t \o v)
<1>1. PICK n, m, a, b \in Nat : n = Len(s) /\ m = Len(u) /\ a = Len(t) /\ b = Len(v)
  OBVIOUS
<1>2. PICK f \in [1..n -> 1..a] :
          /\ \A i \in 1..n : s[i] = t[f[i]]
          /\ \A i, j \in 1..n : i < j => f[i] < f[j]
  BY <1>1 DEF Sub
<1>3. PICK h \in [1..m -> 1..b] :
          /\ \A i \in 1..m : u[i] = v[h[i]]
          /\ \A i, j \in 1..m : i < j => h[i] < h[j]
  BY <1>1 DEF Sub
<1>7. /\ Len(s \o u) = n + m /\ \A k \in 1..n : (s \o u)[k] = s[k]
      /\ \A k \in 1..m : (s \o u)[n + k] = u[k]
  BY <1>1, ConcatParts
<1>8. /\ Len(t \o v) = a + b /\ \A k \in 1..a : (t \o v)[k] = t[k]
      /\ \A k \in 1..b : (t \o v)[a + k] = v[k]
  BY <1>1, ConcatParts
<1> DEFINE e == [i \in 1..(n + m) |-> IF i <= n THEN f[i] ELSE a + h[i - n]]
<1>4. \A i \in 1..(n + m) : i <= n => i \in 1..n /\ e[i] = f[i] /\ f[i] \in 1..a
  OBVIOUS
<1>5. ASSUME NEW i \in 1..(n + m), i > n
      PROVE  \E k \in 1..m : i = n + k /\ e[i] = a + h[k] /\ h[k] \in 1..b
  <2>1. i - n \in 1..m /\ i = n + (i - n) /\ e[i] = a + h[i - n]
    BY <1>5
  <2> HIDE DEF e
  <2> QED BY <2>1
<1> HIDE DEF e
<1>10. ASSUME NEW i \in 1..(n + m) PROVE e[i] \in 1..(a + b)
  <2>1. CASE i <= n
    BY <1>4, <2>1
  <2>2. CASE i > n
    BY <1>5, <2>2
  <2> QED BY <2>1, <2>2
<1>11. e \in [1..(n + m) -> 1..(a + b)]
  BY <1>10 DEF e
<1>12. ASSUME NEW i \in 1..(n + m) PROVE (s \o u)[i] = (t \o v)[e[i]]
  <2>1. CASE i <= n
    <3>1. PICK k : k = e[i]
      OBVIOUS
    <3>2. i \in 1..n /\ k = f[i] /\ k \in 1..a
      BY <1>4, <2>1, <3>1
    <3>3. s[i] = t[k]
      BY <1>2, <3>2
    <3>4. (s \o u)[i] = s[i] /\ (t \o v)[k] = t[k]
      BY <1>7, <1>8, <3>2
    <3> QED BY <3>1, <3>3, <3>4
  <2>2. CASE i > n
    <3>1. PICK j \in 1..m : i = n + j /\ e[i] = a + h[j] /\ h[j] \in 1..b
      BY <1>5, <2>2
    <3>2. u[j] = v[h[j]]
      BY <1>3
    <3>3. (s \o u)[n + j] = u[j] /\ (t \o v)[a + h[j]] = v[h[j]]
      BY <1>7, <1>8, <3>1
    <3> QED BY <3>1, <3>2, <3>3
  <2>3. i <= n \/ i > n
    OBVIOUS
  <2> QED BY <2>1, <2>2, <2>3, Zenon
<1>13. ASSUME NEW i \in 1..(n + m), NEW j \in 1..(n + m), i < j PROVE e[i] < e[j]
  <2>1. CASE j <= n
    BY <1>2, <1>4, <1>13, <2>1
  <2>2. CASE i <= n /\ j > n
    <3>1. PICK k \in 1..m : e[j] = a + h[k] /\ h[k] \in 1..b
      BY <1>5, <2>2
    <3>2. e[i] \in 1..a
      BY <1>4, <2>2
    <3> QED BY <3>1, <3>2
  <2>3. CASE i > n
    <3>1. PICK k \in 1..m : i = n + k /\ e[i] = a + h[k] /\ h[k] \in 1..b
      BY <1>5, <2>3
    <3>2. PICK l \in 1..m : j = n + l /\ e[j] = a + h[l] /\ h[l] \in 1..b
      BY <1>5, <1>13, <2>3
    <3>3. h[k] < h[l]
      BY <1>3, <1>13, <3>1, <3>2
    <3> QED BY <3>1, <3>2, <3>3
  <2> QED BY <2>1, <2>2, <2>3
<1> QED BY <1>1, <1>7, <1>8, <1>11, <1>12, <1>13 DEF Sub

(* A prefix of what is left over is left over.                                 *)
LEMMA SubPrefix ==
    ASSUME NEW X, NEW s \in Seq(X), NEW u \in Seq(X), NEW t, Sub(s \o u, t)
    PROVE  Sub(s, t)
<1>1. PICK n \in Nat : n = Len(s)
  OBVIOUS
<1>2. PICK k \in Nat : k = Len(s \o u)
  OBVIOUS
<1>3. n <= k /\ \A i \in 1..n : (s \o u)[i] = s[i]
  BY <1>1, <1>2, ConcatParts
<1>4. PICK f \in [1..k -> 1..Len(t)] :
          /\ \A i \in 1..k : (s \o u)[i] = t[f[i]]
          /\ \A i, j \in 1..k : i < j => f[i] < f[j]
  BY <1>2 DEF Sub
<1>5. \A i \in 1..n : i \in 1..k
  BY <1>3
<1> DEFINE h == [i \in 1..n |-> f[i]]
<1>6. /\ h \in [1..n -> 1..Len(t)]
      /\ \A i \in 1..n : s[i] = t[h[i]]
      /\ \A i, j \in 1..n : i < j => h[i] < h[j]
  BY <1>3, <1>4, <1>5
<1> HIDE DEF h
<1> QED BY <1>1, <1>6 DEF Sub
-------------------------------------------------------------------------------
(* One writer.                                                                 *)

LEMMA HoldsTyped ==
    ASSUME NEW w, NEW g, Holds(w, g)
    PROVE  /\ w \in Writer /\ g \in Seq(Points) /\ w.name \in Measurements
           /\ w.pages \in Seq(Page)
           /\ Len(w.vals) \in Nat /\ Len(w.times) \in Nat /\ Len(w.vals) <= Len(w.times)
  BY DEF Holds, Good, Writer

LEMMA NewHolds ==
    ASSUME NEW name \in Measurements, NEW encodes \in BOOLEAN
    PROVE  LET w == NewChunkWriter(name, encodes)
           IN  Holds(w, <<>>) /\ Even(w) /\ w.name = name
<1> DEFINE w == NewChunkWriter(name, encodes)
           c == <<0>>
<1>1. /\ w.pages = <<>> /\ w.times = <<>> /\ w.vals = <<>>
      /\ w.stat = EmptyStat /\ w.size = 0 /\ w.name = name
  BY DEF NewChunkWriter
<1>2. w \in Writer
  <2>1. EmptyStat \in Stat
    BY SizeAssumption DEF EmptyStat, Stat, Stamps
  <2>2. <<>> \in Seq(Page) /\ <<>> \in Seq(Times) /\ <<>> \in Seq(Values)
    OBVIOUS
  <2> QED BY <2>1, <2>2 DEF NewChunkWriter, Writer
<1>3. c \in Seq(Nat) /\ Len(c) = 1 /\ c[1] = 0
  OBVIOUS
<1>4. <<>> \in Seq(Points)
  OBVIOUS
<1> HIDE DEF w, c
<1>5. Good(w, c, <<>>)
  BY <1>1, <1>2, <1>3, <1>4 DEF Good, PagesHold
<1>6. RestHolds(w, c, <<>>, <<>>)
  BY <1>1, <1>3 DEF RestHolds
<1> QED BY <1>1, <1>3, <1>5, <1>6 DEF Holds, Even, w

(* The cuts of a writer still begin at 0 after another one.                    *)
LEMMA FirstCut ==
    ASSUME NEW w, NEW c \in Seq(Nat), Len(c) = Len(w.pages) + 1, Len(w.pages) \in Nat,
           c[1] = 0, NEW r, NEW g, Len(g) \in Nat
    PROVE  After(w, c, r, g)[1] = 0
<1>1. Append(c, Len(g))[1] = 0
  BY AppendProperties
<1> QED BY <1>1 DEF After

(* The seal keeps the name and the parity, and panics only on an odd page.     *)
LEMMA SealParity ==
    ASSUME NEW w \in Writer, Len(w.vals) <= Len(w.times), NEW r, r = SealCurrentPage(w)
    PROVE  /\ r.cw.name = w.name
           /\ Even(w) => Even(r.cw)
           /\ r.out = "panic" => ~Even(w)
<1>1. r.cw = w \/ r.cw = Sealed(w)
  BY SealCases
<1>2. Sealed(w).name = w.name /\ Even(Sealed(w))
  BY DEF Sealed, Writer, Even
<1>3. ASSUME r.out = "panic" PROVE Len(w.vals) < Len(w.times)
  <2>1. Len(w.times) # 0 /\ FinishOutcome(w) = "panic"
    BY <1>3 DEF SealCurrentPage, Outcome
  <2> QED BY <2>1, FinishPanics
<1>4. Len(w.vals) \in Nat /\ Len(w.times) \in Nat
  BY DEF Writer
<1>5. r.out = "panic" => ~Even(w)
  BY <1>3, <1>4 DEF Even
<1> QED BY <1>1, <1>2, <1>5

LEMMA PushParity ==
    ASSUME NEW w \in Writer, NEW p \in Points, NEW matches \in BOOLEAN,
           NEW r, r = PushPoint(w, p, matches)
    PROVE  /\ r.cw.name = w.name
           /\ r.out = IF matches THEN "ok" ELSE "err"
           /\ matches /\ Even(w) => Even(r.cw)
<1>1. PICK ts \in Seq(Times) : ts = w.times
  BY DEF Writer
<1>2. PICK vs \in Seq(Values) : vs = w.vals
  BY DEF Writer
<1>3. p.t \in Times /\ p.v \in Values
  BY PointsAreTyped
<1>4. Len(Append(ts, p.t)) = Len(ts) + 1 /\ Len(Append(vs, p.v)) = Len(vs) + 1
  BY <1>3
<1>5. CASE matches
  <2>1. /\ r.out = "ok" /\ r.cw.name = w.name
        /\ r.cw.times = Append(w.times, p.t) /\ r.cw.vals = Append(w.vals, p.v)
    BY <1>5 DEF PushPoint, Outcome, Writer
  <2> QED BY <1>1, <1>2, <1>4, <1>5, <2>1 DEF Even
<1>6. CASE ~matches
  BY <1>6 DEF PushPoint, Outcome, Writer
<1> QED BY <1>5, <1>6

(* write_x keeps what the writer holds, and adds the point unless it refuses.  *)
LEMMA WriteHolds ==
    ASSUME NEW w, NEW g, Holds(w, g), NEW p \in Points, NEW matches \in BOOLEAN,
           NEW r, r = WriteValue(w, p, matches)
    PROVE  /\ r.out \in Outs
           /\ r.cw.name = w.name
           /\ Holds(r.cw, IF matches /\ r.out = "ok" THEN Append(g, p) ELSE g)
           /\ r.out = "ok" => matches
           /\ Even(w) => r.out # "panic" /\ (r.out = "ok" => Even(r.cw))
<1>1. PICK c : Good(w, c, g) /\ RestHolds(w, c, g, <<>>) /\ c[1] = 0
  BY DEF Holds
<1>2. /\ w \in Writer /\ Len(w.vals) <= Len(w.times) /\ g \in Seq(Points)
      /\ c \in Seq(Nat) /\ Len(c) = Len(w.pages) + 1
  BY <1>1 DEF Good
<1> DEFINE h == IF matches /\ r.out = "ok" THEN Append(g, p) ELSE g
           d == After(w, c, r.cw, g)
<1>3. Good(r.cw, d, h) /\ RestHolds(r.cw, d, h, <<>>) /\ r.out \in Outs
  <2>1. CASE matches
    BY <1>1, <2>1, WriteMatchingKeeps
  <2>2. CASE ~matches
    BY <1>1, <2>2, WriteMismatchedKeeps
  <2> QED BY <2>1, <2>2
<1>4. d[1] = 0
  <2>1. Len(w.pages) \in Nat /\ Len(g) \in Nat
    BY <1>2 DEF Writer
  <2> QED BY <1>1, <1>2, <2>1, FirstCut
<1> DEFINE checked == CheckPageSizeAndFlush(w)
           x == checked.cw
<1>5. /\ x \in Writer /\ x.name = w.name /\ (Even(w) => Even(x))
      /\ checked.out = "panic" => ~Even(w)
  <2>1. checked = SealCurrentPage(w) \/ checked = Outcome(w, "ok")
    BY DEF CheckPageSizeAndFlush
  <2>2. Good(x, After(w, c, x, g), g)
    BY <1>1, CheckKeeps
  <2>3. x \in Writer
    BY <2>2 DEF Good
  <2> HIDE DEF checked
  <2>4. CASE checked = SealCurrentPage(w)
    BY <1>2, <2>3, <2>4, SealParity
  <2>5. CASE checked = Outcome(w, "ok")
    BY <1>2, <2>5 DEF Outcome
  <2> QED BY <2>1, <2>4, <2>5
<1> HIDE DEF h, d
<1> DEFINE pushed == PushPoint(x, p, matches)
<1>6. /\ pushed.cw.name = x.name /\ pushed.out = (IF matches THEN "ok" ELSE "err")
      /\ matches /\ Even(x) => Even(pushed.cw)
  <2> HIDE DEF x
  <2> QED BY <1>5, PushParity
<1>7. (checked.out # "ok" /\ r = checked) \/ r = pushed
  <2> HIDE DEF PushPoint, CheckPageSizeAndFlush
  <2> QED BY Zenon DEF WriteValue
<1> HIDE DEF checked, pushed
<1>8. r.cw.name = w.name /\ (r.out = "ok" => matches)
  BY <1>5, <1>6, <1>7
<1>9. Even(w) => r.out # "panic" /\ (r.out = "ok" => Even(r.cw))
  BY <1>5, <1>6, <1>7
<1>10. Holds(r.cw, h)
  BY <1>3, <1>4, Zenon DEF Holds
<1> QED BY <1>3, <1>8, <1>9, <1>10 DEF h
-------------------------------------------------------------------------------
(* A batch.                                                                    *)

(* The rows a batch is called with.                                            *)
AreRows(rows) == Len(rows) \in Nat /\ \A n \in 1..Len(rows) : IsRow(rows[n])

Keeps(kept, rows) ==
    kept = [n \in 0..Len(rows) |->
               IF n = 0 THEN <<>>
               ELSE IF rows[n].null THEN kept[n - 1] ELSE Append(kept[n - 1], rows[n].p)]

(* NonNull follows its recursion.                                              *)
LEMMA KeptRecursion ==
    ASSUME NEW rows, AreRows(rows)
    PROVE  \E kept \in [0..Len(rows) -> Seq(Points)] :
               Keeps(kept, rows) /\ NonNull(rows) = kept[Len(rows)]
<1> DEFINE N == Len(rows)
           step == [n \in 1..N |-> [s \in Seq(Points) |->
                       IF rows[n].null THEN s ELSE Append(s, rows[n].p)]]
           kept == CHOOSE f : Keeps(f, rows)
<1>1. N \in Nat /\ <<>> \in Seq(Points)
  BY DEF AreRows
<1>2. ASSUME NEW n \in 1..N, NEW s \in Seq(Points)
      PROVE  (IF rows[n].null THEN s ELSE Append(s, rows[n].p)) \in Seq(Points)
  <2>1. ~rows[n].null => rows[n].p \in Points
    BY RowPoint DEF AreRows
  <2> QED BY <2>1
<1>3. step \in [1..N -> [Seq(Points) -> Seq(Points)]]
  BY <1>2
<1> HIDE DEF N, step
<1>4. PICK f \in [0..N -> Seq(Points)] : Follows(f, N, <<>>, step)
  BY <1>1, <1>3, RecursionDefines, Zenon
<1> DEFINE More(h, n) == IF rows[n].null THEN h[n - 1] ELSE Append(h[n - 1], rows[n].p)
<1>5. \A n \in 0..N : f[n] = IF n = 0 THEN <<>> ELSE More(f, n)
  <2>1. ASSUME NEW n \in 1..N PROVE step[n][f[n - 1]] = More(f, n)
    <3>1. f[n - 1] \in Seq(Points)
      BY <1>1
    <3> QED BY <3>1 DEF step
  <2>2. \A n \in 0..N : f[n] = IF n = 0 THEN <<>> ELSE step[n][f[n - 1]]
    BY <1>4 DEF Follows
  <2>3. \A n \in 0..N : n # 0 => n \in 1..N
    BY <1>1
  <2> HIDE DEF More
  <2> QED BY <2>1, <2>2, <2>3
<1>6. Keeps(f, rows)
  <2>1. f = [n \in 0..N |-> IF n = 0 THEN <<>> ELSE More(f, n)]
    BY <1>5
  <2> QED BY <2>1 DEF Keeps, N
<1>7. Keeps(kept, rows)
  BY <1>6, Zenon
<1>8. NonNull(rows) = kept[N]
  BY Zenon DEF NonNull, Keeps, N
<1> HIDE DEF kept
<1>9. kept = f
  <2>1. kept = [n \in 0..N |-> IF n = 0 THEN <<>> ELSE More(kept, n)]
    BY <1>7 DEF Keeps, N
  <2>2. \A n \in 0..N : kept[n] = f[n]
    <3> DEFINE T == {n \in Nat : n <= N => kept[n] = f[n]}
    <3>1. \A n \in 0..N : kept[n] = IF n = 0 THEN <<>> ELSE More(kept, n)
      BY <2>1
    <3>2. 0 \in T
      <4>1. 0 \in 0..N
        BY <1>1
      <4>2. f[0] = <<>> /\ kept[0] = <<>>
        BY <1>5, <3>1, <4>1
      <4> QED BY <4>2
    <3>3. ASSUME NEW n \in Nat, n \in T PROVE n + 1 \in T
      <4> SUFFICES ASSUME n + 1 <= N PROVE kept[n + 1] = f[n + 1]
        OBVIOUS
      <4>1. n + 1 \in 0..N /\ n + 1 # 0 /\ (n + 1) - 1 = n /\ n <= N
        BY <1>1
      <4>2. kept[n] = f[n]
        BY <3>3, <4>1
      <4>3. f[n + 1] = More(f, n + 1) /\ kept[n + 1] = More(kept, n + 1)
        BY <1>5, <3>1, <4>1
      <4> QED BY <4>1, <4>2, <4>3
    <3> HIDE DEF T
    <3>4. Nat \subseteq T
      BY <3>2, <3>3, InductiveSet
    <3> QED BY <1>1, <3>4 DEF T
  <2> DEFINE body == [n \in 0..N |-> IF n = 0 THEN <<>> ELSE More(kept, n)]
  <2>3. DOMAIN body = 0..N /\ body = [n \in 0..N |-> body[n]]
    OBVIOUS
  <2> HIDE DEF body
  <2>4. kept = [n \in 0..N |-> kept[n]]
    BY <2>1, <2>3 DEF body
  <2>5. f = [n \in 0..N |-> f[n]]
    OBVIOUS
  <2> QED BY <2>2, <2>4, <2>5
<1> QED BY <1>6, <1>8, <1>9 DEF N

(* Midway through a batch: the writer holds g, of which the last points wait   *)
(* in the temporary vector.  Of a batch of another type nothing is held.       *)
MidHolds(b, matches, g) ==
    \E c : /\ Good(b.cw, c, g) /\ c[1] = 0
           /\ RestHolds(b.cw, c, g, IF matches /\ b.out = "ok" THEN b.acc ELSE <<>>)

BatchStates(matches) ==
    {b \in [cw : Writer, acc : Seq(Points), out : Outs] :
        HasExtremes(b.acc) /\ \E g : MidHolds(b, matches, g)}

LEMMA AppendParity ==
    ASSUME NEW w \in Writer, NEW acc \in Seq(Points), NEW r, r = AppendBatch(w, acc, TRUE)
    PROVE  r.cw.name = w.name /\ (Even(w) => Even(r.cw)) /\ r.out = "ok"
<1>1. PICK ts \in Seq(Times) : ts = w.times
  BY DEF Writer
<1>2. PICK vs \in Seq(Values) : vs = w.vals
  BY DEF Writer
<1> DEFINE at == [i \in 1..Len(acc) |-> acc[i].t]
           av == [i \in 1..Len(acc) |-> acc[i].v]
<1>3. at \in Seq(Times) /\ Len(at) = Len(acc) /\ av \in Seq(Values) /\ Len(av) = Len(acc)
  BY Columns
<1>4. /\ r.out = "ok" /\ r.cw.name = w.name
      /\ r.cw.times = w.times \o at /\ r.cw.vals = w.vals \o av
  BY DEF AppendBatch, Outcome, Writer
<1> HIDE DEF at, av
<1>5. Len(ts \o at) = Len(ts) + Len(at) /\ Len(vs \o av) = Len(vs) + Len(av)
  BY <1>3, ConcatParts
<1> QED BY <1>1, <1>2, <1>3, <1>4, <1>5 DEF Even

(* One row of the loop.                                                        *)
LEMMA RowParity ==
    ASSUME NEW w, NEW c, NEW g, NEW acc \in Seq(Points), HasExtremes(acc),
           NEW matches \in BOOLEAN, Good(w, c, g),
           RestHolds(w, c, g, IF matches THEN acc ELSE <<>>),
           NEW row, IsRow(row), NEW r, r = BatchRow(w, acc, row, matches)
    PROVE  /\ r = [cw |-> r.cw, acc |-> r.acc, out |-> r.out]
           /\ r.cw.name = w.name
           /\ Even(w) => r.out # "panic" /\ (r.out = "ok" => Even(r.cw))
<1> DEFINE grown == Append(acc, row.p)
           flushed == AppendBatch(w, grown, matches)
           sealed == SealCurrentPage(flushed.cw)
<1>1. \A y, z, o : LET b == BatchState(y, z, o)
                   IN  /\ b.cw = y /\ b.acc = z /\ b.out = o
                       /\ b = [cw |-> b.cw, acc |-> b.acc, out |-> b.out]
  BY DEF BatchState
<1>2. w \in Writer
  BY DEF Good
<1>3. CASE row.null \/ (~row.null /\ ~BatchIsFull(w, Len(grown)))
  <2>1. r = BatchState(w, acc, "ok") \/ r = BatchState(w, grown, "ok")
    BY <1>3, Zenon DEF BatchRow
  <2> QED BY <1>1, <2>1
<1>4. CASE ~row.null /\ BatchIsFull(w, Len(grown)) /\ matches
  <2>1. row.p \in Points
    BY <1>4, RowPoint
  <2>2. /\ grown \in Seq(Points) /\ HasExtremes(grown)
        /\ Good(w, c, Append(g, row.p)) /\ RestHolds(w, c, Append(g, row.p), grown)
    BY <1>4, <2>1, ExtremesGrow, GiveToBatch, AppendProperties
  <2> HIDE DEF grown
  <2>3. flushed.cw.name = w.name /\ (Even(w) => Even(flushed.cw)) /\ flushed.out = "ok"
    BY <1>2, <1>4, <2>2, AppendParity
  <2>4. Good(flushed.cw, c, Append(g, row.p))
    BY <1>4, <2>2, AppendMatching DEF AppendTyped
  <2> HIDE DEF flushed
  <2>5. r = BatchState(sealed.cw, <<>>, sealed.out)
    BY <1>4, <2>3, Zenon DEF BatchRow, grown, flushed
  <2>6. flushed.cw \in Writer /\ Len(flushed.cw.vals) <= Len(flushed.cw.times)
    BY <2>4 DEF Good
  <2>7. /\ sealed.cw.name = w.name /\ (Even(w) => Even(sealed.cw))
        /\ sealed.out = "panic" => ~Even(w)
    BY <2>3, <2>6, SealParity
  <2> HIDE DEF sealed
  <2> QED BY <1>1, <2>5, <2>7
<1>5. CASE ~row.null /\ BatchIsFull(w, Len(grown)) /\ ~matches
  <2>1. flushed.out = "err" /\ flushed.cw.name = w.name
    BY <1>2, <1>5 DEF AppendBatch, Outcome, Writer
  <2> HIDE DEF flushed
  <2>2. r = BatchState(flushed.cw, <<>>, flushed.out)
    BY <1>5, <2>1, Zenon DEF BatchRow, flushed
  <2> QED BY <1>1, <2>1, <2>2
<1> QED BY <1>3, <1>4, <1>5

LEMMA RowHolds ==
    ASSUME NEW matches \in BOOLEAN, NEW b \in BatchStates(matches), b.out = "ok",
           NEW g, MidHolds(b, matches, g), NEW row, IsRow(row),
           NEW r, r = BatchRow(b.cw, b.acc, row, matches)
    PROVE  /\ r \in BatchStates(matches)
           /\ MidHolds(r, matches, IF matches /\ ~row.null THEN Append(g, row.p) ELSE g)
           /\ r.cw.name = b.cw.name
           /\ Even(b.cw) => r.out # "panic" /\ (r.out = "ok" => Even(r.cw))
<1>1. b.acc \in Seq(Points) /\ HasExtremes(b.acc)
  BY DEF BatchStates
<1>2. PICK c : /\ Good(b.cw, c, g) /\ c[1] = 0
               /\ RestHolds(b.cw, c, g, IF matches THEN b.acc ELSE <<>>)
  BY DEF MidHolds
<1>3. /\ b.cw \in Writer /\ g \in Seq(Points)
      /\ c \in Seq(Nat) /\ Len(c) = Len(b.cw.pages) + 1
  BY <1>2 DEF Good
<1>4. Len(b.cw.pages) \in Nat /\ Len(g) \in Nat
  BY <1>3 DEF Writer
<1> DEFINE h == IF matches /\ ~row.null THEN Append(g, row.p) ELSE g
           d == After(b.cw, c, r.cw, h)
<1>5. /\ Good(r.cw, d, h)
      /\ RestHolds(r.cw, d, h, IF matches /\ r.out = "ok" THEN r.acc ELSE <<>>)
      /\ r.acc \in Seq(Points) /\ HasExtremes(r.acc) /\ r.out \in Outs
  <2>1. CASE matches
    <3>1. h = IF row.null THEN g ELSE Append(g, row.p)
      BY <2>1
    <3> QED BY <1>1, <1>2, <2>1, <3>1, RowMatchingKeeps
  <2>2. CASE ~matches
    <3>1. h = g
      BY <2>2
    <3> QED BY <1>1, <1>2, <2>2, <3>1, RowMismatchedKeeps
  <2> QED BY <2>1, <2>2
<1>6. Len(h) \in Nat
  <2>1. ~row.null => row.p \in Points
    BY RowPoint
  <2> QED BY <1>3, <2>1
<1> HIDE DEF h
<1>7. d[1] = 0
  BY <1>2, <1>3, <1>4, <1>6, FirstCut
<1>8. MidHolds(r, matches, h)
  BY <1>5, <1>7, Zenon DEF MidHolds
<1>9. /\ r = [cw |-> r.cw, acc |-> r.acc, out |-> r.out]
      /\ r.cw.name = b.cw.name
      /\ Even(b.cw) => r.out # "panic" /\ (r.out = "ok" => Even(r.cw))
  BY <1>1, <1>2, RowParity
<1>10. r.cw \in Writer
  BY <1>5 DEF Good
<1>11. r \in BatchStates(matches)
  <2>1. r \in [cw : Writer, acc : Seq(Points), out : Outs]
    BY <1>5, <1>9, <1>10
  <2> QED BY <1>5, <1>8, <2>1 DEF BatchStates
<1> QED BY <1>8, <1>9, <1>11 DEF h

(* The loop of a batch follows its recursion.                                  *)
Loops(loop, w, rows, matches) ==
    loop = [n \in 0..Len(rows) |->
               IF n = 0 THEN BatchState(w, <<>>, "ok")
               ELSE IF loop[n - 1].out # "ok" THEN loop[n - 1]
               ELSE BatchRow(loop[n - 1].cw, loop[n - 1].acc, rows[n], matches)]

LEMMA BatchStarts ==
    ASSUME NEW w, NEW g, Holds(w, g), NEW matches \in BOOLEAN,
           NEW b, b = BatchState(w, <<>>, "ok")
    PROVE  /\ b \in BatchStates(matches) /\ MidHolds(b, matches, g)
           /\ b.cw = w /\ b.acc = <<>> /\ b.out = "ok"
<1>1. b.cw = w /\ b.acc = <<>> /\ b.out = "ok"
  BY DEF BatchState
<1>2. MidHolds(b, matches, g)
  BY <1>1 DEF MidHolds, Holds
<1>3. b \in [cw : Writer, acc : Seq(Points), out : Outs]
  <2>1. w \in Writer /\ <<>> \in Seq(Points)
    BY HoldsTyped
  <2> QED BY <2>1 DEF BatchState, Outs
<1> QED BY <1>1, <1>2, <1>3, NoExtremes DEF BatchStates

LEMMA LoopRecursion ==
    ASSUME NEW w, NEW g, Holds(w, g), NEW rows, AreRows(rows), NEW matches \in BOOLEAN
    PROVE  \E loop : Loops(loop, w, rows, matches)
<1> DEFINE N == Len(rows)
           S == BatchStates(matches)
           Row(b, n) == IF b.out # "ok" THEN b ELSE BatchRow(b.cw, b.acc, rows[n], matches)
           step == [n \in 1..N |-> [b \in S |-> Row(b, n)]]
           base == BatchState(w, <<>>, "ok")
<1>1. N \in Nat /\ \A n \in 1..N : IsRow(rows[n])
  BY DEF AreRows
<1>2. base \in S
  BY BatchStarts
<1> HIDE DEF N, S, base
<1>3. ASSUME NEW n \in 1..N, NEW b \in S PROVE Row(b, n) \in S
  <2>1. CASE b.out # "ok"
    BY <2>1
  <2>2. CASE b.out = "ok"
    <3>1. PICK h : MidHolds(b, matches, h)
      BY DEF S, BatchStates
    <3>2. BatchRow(b.cw, b.acc, rows[n], matches) \in S
      BY <1>1, <2>2, <3>1, RowHolds DEF S
    <3> QED BY <2>2, <3>2
  <2> QED BY <2>1, <2>2
<1> HIDE DEF Row
<1>4. step \in [1..N -> [S -> S]]
  BY <1>3
<1> HIDE DEF step
<1>5. PICK f \in [0..N -> S] : Follows(f, N, base, step)
  BY <1>1, <1>2, <1>4, RecursionDefines, Zenon
<1>6. \A n \in 0..N : f[n] = IF n = 0 THEN base ELSE Row(f[n - 1], n)
  <2>1. ASSUME NEW n \in 1..N PROVE step[n][f[n - 1]] = Row(f[n - 1], n)
    <3>1. f[n - 1] \in S
      BY <1>1
    <3> QED BY <3>1 DEF step
  <2>2. \A n \in 0..N : f[n] = IF n = 0 THEN base ELSE step[n][f[n - 1]]
    BY <1>5 DEF Follows
  <2>3. \A n \in 0..N : n # 0 => n \in 1..N
    BY <1>1
  <2> QED BY <2>1, <2>2, <2>3
<1>7. f = [n \in 0..N |-> IF n = 0 THEN base ELSE Row(f[n - 1], n)]
  BY <1>6
<1>8. Loops(f, w, rows, matches)
  BY <1>7 DEF Loops, N, base, Row
<1> QED BY <1>8

(* What the loop of a batch over w, holding g, has done to come to state b     *)
(* when the rows up to here had the points k.                                  *)
LoopFine(b, w, g, k, matches) ==
    /\ b \in BatchStates(matches)
    /\ b.cw.name = w.name
    /\ Even(w) => b.out # "panic" /\ (b.out = "ok" => Even(b.cw))
    /\ \E got \in Seq(Points) :
          /\ MidHolds(b, matches, g \o got) /\ Sub(got, k)
          /\ matches /\ b.out = "ok" => got = k

(* The points of one row more.                                                 *)
KeptNext(k, row) == IF row.null THEN k ELSE Append(k, row.p)

LEMMA SubNext ==
    ASSUME NEW got \in Seq(Points), NEW k \in Seq(Points), Sub(got, k), NEW row, IsRow(row)
    PROVE  KeptNext(k, row) \in Seq(Points) /\ Sub(got, KeptNext(k, row))
<1>1. CASE row.null
  BY <1>1 DEF KeptNext
<1>2. CASE ~row.null
  <2>1. PICK p \in Points : p = row.p
    BY <1>2, RowPoint
  <2>2. <<p>> \in Seq(Points) /\ <<>> \in Seq(Points) /\ Append(k, p) = k \o <<p>>
        /\ got = got \o <<>> /\ Append(k, p) \in Seq(Points)
    OBVIOUS
  <2>3. Sub(got \o <<>>, k \o <<p>>)
    BY <2>2, SubEmpty, SubConcat
  <2> QED BY <1>2, <2>1, <2>2, <2>3 DEF KeptNext
<1> QED BY <1>1, <1>2

LEMMA AppendConcat ==
    \A s, t \in Seq(Points), p \in Points : Append(s \o t, p) = s \o Append(t, p)
  OBVIOUS

LEMMA LoopStep ==
    ASSUME NEW w, NEW g \in Seq(Points), NEW matches \in BOOLEAN, NEW b, NEW k \in Seq(Points),
           LoopFine(b, w, g, k, matches), NEW row, IsRow(row),
           NEW r, r = IF b.out # "ok" THEN b ELSE BatchRow(b.cw, b.acc, row, matches)
    PROVE  LoopFine(r, w, g, KeptNext(k, row), matches)
<1>1. PICK got \in Seq(Points) :
          /\ MidHolds(b, matches, g \o got) /\ Sub(got, k)
          /\ matches /\ b.out = "ok" => got = k
  BY DEF LoopFine
<1>2. b \in BatchStates(matches) /\ b.cw.name = w.name
      /\ (Even(w) => b.out # "panic" /\ (b.out = "ok" => Even(b.cw)))
  BY DEF LoopFine
<1>3. Sub(got, KeptNext(k, row))
  BY <1>1, SubNext
<1>4. CASE b.out # "ok"
  BY <1>1, <1>2, <1>3, <1>4 DEF LoopFine
<1>5. CASE b.out = "ok"
  <2>1. r = BatchRow(b.cw, b.acc, row, matches)
    BY <1>5
  <2>2. /\ r \in BatchStates(matches)
        /\ MidHolds(r, matches, IF matches /\ ~row.null THEN Append(g \o got, row.p) ELSE g \o got)
        /\ r.cw.name = b.cw.name
        /\ Even(b.cw) => r.out # "panic" /\ (r.out = "ok" => Even(r.cw))
    BY <1>1, <1>2, <1>5, <2>1, RowHolds
  <2>3. /\ r.cw.name = w.name
        /\ Even(w) => r.out # "panic" /\ (r.out = "ok" => Even(r.cw))
    BY <1>2, <1>5, <2>2
  <2>4. CASE matches
    <3>1. got = k
      BY <1>1, <1>5, <2>4
    <3> DEFINE more == KeptNext(k, row)
    <3>2. more \in Seq(Points) /\ Sub(more, more)
      BY <1>1, SubNext, SubRefl
    <3>3. MidHolds(r, matches, g \o more)
      <4>1. CASE row.null
        BY <2>2, <3>1, <4>1 DEF KeptNext
      <4>2. CASE ~row.null
        <5>1. PICK p \in Points : p = row.p
          BY <4>2, RowPoint
        <5>2. Append(g \o k, p) = g \o Append(k, p)
          BY <1>1, AppendConcat, Zenon
        <5>3. MidHolds(r, matches, Append(g \o k, p))
          BY <2>2, <2>4, <3>1, <4>2, <5>1
        <5>4. more = Append(k, p)
          BY <4>2, <5>1 DEF KeptNext
        <5> HIDE DEF more
        <5> QED BY <5>2, <5>3, <5>4
      <4> QED BY <4>1, <4>2
    <3> HIDE DEF more
    <3>4. \E h \in Seq(Points) :
              /\ MidHolds(r, matches, g \o h) /\ Sub(h, more)
              /\ matches /\ r.out = "ok" => h = more
      BY <3>2, <3>3
    <3> QED BY <2>2, <2>3, <3>4 DEF LoopFine, more
  <2>5. CASE ~matches
    <3>1. MidHolds(r, matches, g \o got)
      BY <2>2, <2>5
    <3> QED BY <1>3, <2>2, <2>3, <2>5, <3>1 DEF LoopFine
  <2> QED BY <2>4, <2>5
<1> QED BY <1>4, <1>5

LEMMA LoopHolds ==
    ASSUME NEW w, NEW g, Holds(w, g), NEW rows, AreRows(rows), NEW matches \in BOOLEAN,
           NEW loop, Loops(loop, w, rows, matches),
           NEW kept \in [0..Len(rows) -> Seq(Points)], Keeps(kept, rows)
    PROVE  LoopFine(loop[Len(rows)], w, g, kept[Len(rows)], matches)
<1> DEFINE N == Len(rows)
           T == {n \in Nat : n <= N => LoopFine(loop[n], w, g, kept[n], matches)}
           Row(b, n) == IF b.out # "ok" THEN b ELSE BatchRow(b.cw, b.acc, rows[n], matches)
           base == BatchState(w, <<>>, "ok")
<1>1. N \in Nat /\ (\A n \in 1..N : IsRow(rows[n])) /\ g \in Seq(Points)
  BY HoldsTyped DEF AreRows
<1>2. \A n \in 0..N : loop[n] = IF n = 0 THEN base ELSE Row(loop[n - 1], n)
  <2>1. loop = [n \in 0..N |-> IF n = 0 THEN base ELSE Row(loop[n - 1], n)]
    BY DEF Loops
  <2> HIDE DEF N, base, Row
  <2> QED BY <2>1
<1>3. \A n \in 0..N : kept[n] = IF n = 0 THEN <<>> ELSE KeptNext(kept[n - 1], rows[n])
  <2>1. kept = [n \in 0..N |-> IF n = 0 THEN <<>> ELSE KeptNext(kept[n - 1], rows[n])]
    BY DEF Keeps, KeptNext
  <2> HIDE DEF N
  <2> QED BY <2>1
<1> HIDE DEF N, base, Row
<1>4. 0 \in T
  <2>1. loop[0] = base /\ kept[0] = <<>>
    BY <1>1, <1>2, <1>3
  <2>2. /\ base \in BatchStates(matches) /\ MidHolds(base, matches, g)
        /\ base.cw = w /\ base.out = "ok"
    BY BatchStarts DEF base
  <2>3. /\ <<>> \in Seq(Points) /\ MidHolds(base, matches, g \o <<>>) /\ Sub(<<>>, <<>>)
        /\ matches /\ base.out = "ok" => <<>> = <<>>
    <3>1. g \o <<>> = g
      BY <1>1
    <3> QED BY <2>2, <3>1, SubEmpty
  <2>4. LoopFine(base, w, g, <<>>, matches)
    BY <2>2, <2>3 DEF LoopFine
  <2> QED BY <2>1, <2>4
<1>5. ASSUME NEW n \in Nat, n \in T PROVE n + 1 \in T
  <2> SUFFICES ASSUME n + 1 <= N PROVE LoopFine(loop[n + 1], w, g, kept[n + 1], matches)
    OBVIOUS
  <2>1. /\ n + 1 \in 0..N /\ n + 1 \in 1..N /\ n + 1 # 0 /\ (n + 1) - 1 = n
        /\ n <= N /\ n \in 0..N
    BY <1>1
  <2>2. LoopFine(loop[n], w, g, kept[n], matches)
    BY <1>5, <2>1
  <2>3. loop[n + 1] = Row(loop[n], n + 1) /\ kept[n + 1] = KeptNext(kept[n], rows[n + 1])
    BY <1>2, <1>3, <2>1
  <2>4. kept[n] \in Seq(Points) /\ IsRow(rows[n + 1])
    BY <1>1, <2>1 DEF N
  <2>5. LoopFine(Row(loop[n], n + 1), w, g, KeptNext(kept[n], rows[n + 1]), matches)
    BY <1>1, <2>2, <2>4, LoopStep DEF Row
  <2> QED BY <2>3, <2>5
<1> HIDE DEF T
<1>6. Nat \subseteq T
  BY <1>4, <1>5, InductiveSet
<1> QED BY <1>1, <1>6 DEF T, N

LEMMA EndHolds ==
    ASSUME NEW matches \in BOOLEAN, NEW b \in BatchStates(matches), b.out = "ok",
           NEW g, MidHolds(b, matches, g), NEW r, r = BatchEnd(b.cw, b.acc, matches)
    PROVE  /\ r.out \in Outs /\ r.cw.name = b.cw.name
           /\ Holds(r.cw, g)
           /\ Even(b.cw) => r.out # "panic" /\ (r.out = "ok" => Even(r.cw))
<1>1. b.acc \in Seq(Points) /\ HasExtremes(b.acc) /\ b.cw \in Writer
  BY DEF BatchStates
<1>2. PICK c : /\ Good(b.cw, c, g) /\ c[1] = 0
               /\ RestHolds(b.cw, c, g, IF matches THEN b.acc ELSE <<>>)
  BY DEF MidHolds
<1>3. CASE b.acc = <<>>
  <2>1. r = Outcome(b.cw, "ok")
    BY <1>3 DEF BatchEnd
  <2>2. RestHolds(b.cw, c, g, <<>>)
    BY <1>2, <1>3
  <2> QED BY <1>2, <2>1, <2>2 DEF Outcome, Holds, Outs
<1>4. CASE b.acc # <<>> /\ matches
  <2>1. r = AppendTyped(b.cw, b.acc)
    BY <1>4 DEF BatchEnd, AppendTyped
  <2>2. RestHolds(b.cw, c, g, b.acc)
    BY <1>2, <1>4
  <2>3. Good(r.cw, c, g) /\ RestHolds(r.cw, c, g, <<>>) /\ r.out = "ok"
    BY <1>1, <1>2, <2>1, <2>2, AppendMatching
  <2>4. r.cw.name = b.cw.name /\ (Even(b.cw) => Even(r.cw))
    BY <1>1, <2>1, AppendParity DEF AppendTyped
  <2> QED BY <1>2, <2>3, <2>4 DEF Holds, Outs
<1>5. CASE b.acc # <<>> /\ ~matches
  <2>1. r = AppendBatch(b.cw, b.acc, FALSE)
    BY <1>5 DEF BatchEnd
  <2>2. RestHolds(b.cw, c, g, <<>>)
    BY <1>2, <1>5
  <2>4. PICK x \in Writer : x = b.cw
    BY <1>1
  <2>6. PICK acc \in Seq(Points) : acc = b.acc
    BY <1>1
  <2>7. Good(x, c, g) /\ RestHolds(x, c, g, <<>>) /\ acc # <<>>
    BY <1>2, <1>5, <2>2, <2>4, <2>6
  <2>8. /\ Good(AppendBatch(x, acc, FALSE).cw, c, g)
        /\ RestHolds(AppendBatch(x, acc, FALSE).cw, c, g, <<>>)
        /\ AppendBatch(x, acc, FALSE).out = "err"
    BY <2>7, AppendMismatched
  <2>3. Good(r.cw, c, g) /\ RestHolds(r.cw, c, g, <<>>) /\ r.out = "err"
    BY <2>1, <2>4, <2>6, <2>8
  <2>5. AppendBatch(x, b.acc, FALSE).cw.name = x.name
    BY DEF AppendBatch, Outcome, Writer
  <2> QED BY <1>2, <2>1, <2>3, <2>4, <2>5 DEF Holds, Outs
<1> QED BY <1>3, <1>4, <1>5

(* The loop comes to a state that holds the points of the rows, or some.       *)
LEMMA BatchLoopHolds ==
    ASSUME NEW w, NEW g, Holds(w, g), NEW rows, AreRows(rows), NEW matches \in BOOLEAN
    PROVE  /\ NonNull(rows) \in Seq(Points)
           /\ LoopFine(BatchLoop(w, rows, matches), w, g, NonNull(rows), matches)
<1> DEFINE loop == CHOOSE f : Loops(f, w, rows, matches)
           k == NonNull(rows)
<1>1. Loops(loop, w, rows, matches)
  <2>1. \E f : Loops(f, w, rows, matches)
    BY LoopRecursion
  <2> QED BY <2>1, Zenon
<1>2. PICK kept \in [0..Len(rows) -> Seq(Points)] : Keeps(kept, rows) /\ k = kept[Len(rows)]
  BY KeptRecursion
<1>3. k \in Seq(Points)
  <2>1. Len(rows) \in 0..Len(rows)
    BY DEF AreRows
  <2> QED BY <1>2, <2>1
<1>4. BatchLoop(w, rows, matches) = loop[Len(rows)]
  BY Zenon DEF BatchLoop, Loops
<1> HIDE DEF loop, k
<1>5. LoopFine(loop[Len(rows)], w, g, k, matches)
  BY <1>1, <1>2, LoopHolds
<1> QED BY <1>3, <1>4, <1>5 DEF k

(* write_x_batch_with_bitmap: when it returns Ok the writer holds the points   *)
(* of the rows that are not null, and otherwise none that was not among them.  *)
LEMMA BatchHolds ==
    ASSUME NEW w, NEW g, Holds(w, g), NEW rows, AreRows(rows), NEW matches \in BOOLEAN,
           NEW r, r = WriteBatch(w, rows, matches)
    PROVE  /\ r.out \in Outs /\ r.cw.name = w.name
           /\ Even(w) => r.out # "panic" /\ (r.out = "ok" => Even(r.cw))
           /\ NonNull(rows) \in Seq(Points)
           /\ \E got \in Seq(Points) :
                /\ Holds(r.cw, g \o got) /\ Sub(got, NonNull(rows))
                /\ matches /\ r.out = "ok" => got = NonNull(rows)
<1> DEFINE looped == BatchLoop(w, rows, matches)
           k == NonNull(rows)
<1>3. k \in Seq(Points)
  BY BatchLoopHolds
<1>4. r = IF looped.out = "ok" THEN BatchEnd(looped.cw, looped.acc, matches)
                               ELSE Outcome(looped.cw, looped.out)
  BY Zenon DEF WriteBatch
<1>5. LoopFine(looped, w, g, k, matches)
  BY BatchLoopHolds
<1> HIDE DEF k
<1> HIDE DEF looped
<1>6. looped \in BatchStates(matches) /\ looped.cw.name = w.name
      /\ (Even(w) => looped.out # "panic" /\ (looped.out = "ok" => Even(looped.cw)))
  BY <1>5 DEF LoopFine
<1>7. PICK got \in Seq(Points) :
          /\ MidHolds(looped, matches, g \o got) /\ Sub(got, k)
          /\ matches /\ looped.out = "ok" => got = k
  BY <1>5 DEF LoopFine
<1>8. CASE looped.out = "ok"
  <2>1. r = BatchEnd(looped.cw, looped.acc, matches)
    BY <1>4, <1>8
  <2>2. /\ r.out \in Outs /\ r.cw.name = looped.cw.name
        /\ Holds(r.cw, g \o got)
        /\ Even(looped.cw) => r.out # "panic" /\ (r.out = "ok" => Even(r.cw))
    BY <1>6, <1>7, <1>8, <2>1, EndHolds
  <2> QED BY <1>3, <1>6, <1>7, <1>8, <2>2 DEF k
<1>9. CASE looped.out # "ok"
  <2>1. r.cw = looped.cw /\ r.out = looped.out
    BY <1>4, <1>9 DEF Outcome
  <2>2. Holds(r.cw, g \o got)
    BY <1>7, <1>9, <2>1 DEF MidHolds, Holds
  <2>3. looped.out \in Outs
    BY <1>6 DEF BatchStates
  <2> QED BY <1>3, <1>6, <1>7, <1>9, <2>1, <2>2, <2>3 DEF k
<1> QED BY <1>8, <1>9

(* serialize_to: the pages it writes are the whole of what the writer holds.   *)
LEMMA SerializeHolds ==
    ASSUME NEW w, NEW g, Holds(w, g), NEW r, r = SerializeTo(w)
    PROVE  /\ r.out \in Outs /\ r.cw.name = w.name
           /\ Even(w) => r.out # "panic"
           /\ r.out = "ok" => /\ r.cw \in Writer /\ r.cw.pages # <<>>
                             /\ ReadChunk(r.cw.pages) = g
<1> DEFINE s == SealCurrentPage(w)
<1>1. PICK c : Good(w, c, g) /\ RestHolds(w, c, g, <<>>) /\ c[1] = 0
  BY DEF Holds
<1>2. /\ w \in Writer /\ Len(w.vals) <= Len(w.times) /\ g \in Seq(Points)
      /\ c \in Seq(Nat) /\ Len(c) = Len(w.pages) + 1
  BY <1>1 DEF Good
<1>3. /\ s.out \in Outs /\ s.cw.name = w.name /\ (s.out = "panic" => ~Even(w))
  BY <1>2, SealCases, SealParity
<1>4. /\ r.cw = s.cw
      /\ r.out = s.out \/ (r.out = "err" /\ s.out = "ok")
      /\ r.out = "ok" => s.out = "ok" /\ s.cw.pages # <<>>
  <2>1. r = IF s.out = "ok" /\ s.cw.pages = <<>> THEN Outcome(s.cw, "err") ELSE s
    BY Zenon DEF SerializeTo
  <2> HIDE DEF s
  <2> QED BY <2>1 DEF Outcome
<1>5. ASSUME s.out = "ok" PROVE s.cw.vals = <<>>
  <2>2. CASE Len(w.times) = 0
    <3>1. s = Outcome(w, "ok")
      BY <2>2, Zenon DEF SealCurrentPage
    <3>2. w.vals = <<>>
      BY <1>2, <2>2 DEF Writer
    <3> HIDE DEF s
    <3> QED BY <3>1, <3>2 DEF Outcome
  <2>3. CASE Len(w.times) # 0
    <3>1. FinishOutcome(w) = "ok"
      <4>1. FinishOutcome(w) # "ok" => s = Outcome(w, FinishOutcome(w))
        BY <2>3, Zenon DEF SealCurrentPage
      <4>2. Outcome(w, FinishOutcome(w)).out = FinishOutcome(w)
        BY DEF Outcome
      <4> HIDE DEF s
      <4> QED BY <1>5, <4>1, <4>2
    <3>2. s = Outcome(Sealed(w), "ok")
      BY <2>3, <3>1, Zenon DEF SealCurrentPage, Sealed
    <3>3. Sealed(w).vals = <<>>
      BY <1>2 DEF Sealed, Writer
    <3> HIDE DEF s
    <3> QED BY <3>2, <3>3 DEF Outcome
  <2> QED BY <2>2, <2>3
<1> DEFINE x == s.cw
           d == After(w, c, x, g)
<1>6. Good(x, d, g) /\ RestHolds(x, d, g, <<>>)
  BY <1>1, SealKeeps
<1>7. d[1] = 0
  <2>1. Len(w.pages) \in Nat /\ Len(g) \in Nat
    BY <1>2 DEF Writer
  <2> QED BY <1>1, <1>2, <2>1, FirstCut
<1>8. ASSUME s.out = "ok" PROVE ReadChunk(x.pages) = g
  <2>1. x.vals = <<>>
    BY <1>5, <1>8
  <2> HIDE DEF x, d
  <2>2. d[Len(d)] \in Nat
    BY <1>6 DEF Good, Writer
  <2>3. d[Len(d)] = Len(g)
    BY <1>6, <2>1, <2>2 DEF RestHolds
  <2> QED BY <1>6, <1>7, <2>3, AllStored DEF StoredOf
<1>9. x \in Writer
  BY <1>6 DEF Good
<1> HIDE DEF s
<1> QED BY <1>3, <1>4, <1>8, <1>9 DEF Outs
-------------------------------------------------------------------------------
(* Bytes.                                                                      *)

Sums(sum, numbers) ==
    sum = [n \in 0..Len(numbers) |-> IF n = 0 THEN 0 ELSE sum[n - 1] + numbers[n]]

LEMMA SumIsNat ==
    ASSUME NEW numbers \in Seq(Nat)
    PROVE  SumOf(numbers) \in Nat
<1> DEFINE N == Len(numbers)
           step == [n \in 1..N |-> [k \in Nat |-> k + numbers[n]]]
           sum == CHOOSE f : Sums(f, numbers)
<1>1. N \in Nat /\ \A n \in 1..N : numbers[n] \in Nat
  OBVIOUS
<1>2. step \in [1..N -> [Nat -> Nat]]
  BY <1>1
<1> HIDE DEF N, step
<1>3. PICK f \in [0..N -> Nat] : Follows(f, N, 0, step)
  BY <1>1, <1>2, RecursionDefines
<1>4. \A n \in 0..N : f[n] = IF n = 0 THEN 0 ELSE f[n - 1] + numbers[n]
  <2>1. ASSUME NEW n \in 1..N PROVE step[n][f[n - 1]] = f[n - 1] + numbers[n]
    <3>1. f[n - 1] \in Nat
      BY <1>1
    <3> QED BY <3>1 DEF step
  <2>2. \A n \in 0..N : f[n] = IF n = 0 THEN 0 ELSE step[n][f[n - 1]]
    BY <1>3 DEF Follows
  <2>3. \A n \in 0..N : n # 0 => n \in 1..N
    BY <1>1
  <2> QED BY <2>1, <2>2, <2>3
<1>5. Sums(f, numbers)
  <2>1. f = [n \in 0..N |-> IF n = 0 THEN 0 ELSE f[n - 1] + numbers[n]]
    BY <1>4
  <2> QED BY <2>1 DEF Sums, N
<1>6. Sums(sum, numbers)
  BY <1>5, Zenon
<1>7. SumOf(numbers) = sum[N]
  BY Zenon DEF SumOf, Sums, N
<1> HIDE DEF sum
<1> DEFINE T == {n \in Nat : n <= N => sum[n] \in Nat}
<1>8. \A n \in 0..N : sum[n] = IF n = 0 THEN 0 ELSE sum[n - 1] + numbers[n]
  BY <1>6 DEF Sums, N
<1>9. 0 \in T
  <2>1. 0 \in 0..N
    BY <1>1
  <2> QED BY <1>8, <2>1
<1>10. ASSUME NEW n \in Nat, n \in T PROVE n + 1 \in T
  <2> SUFFICES ASSUME n + 1 <= N PROVE sum[n + 1] \in Nat
    OBVIOUS
  <2>1. n + 1 \in 0..N /\ n + 1 \in 1..N /\ n + 1 # 0 /\ (n + 1) - 1 = n /\ n <= N
    BY <1>1
  <2>2. sum[n + 1] = sum[n] + numbers[n + 1]
    BY <1>8, <2>1
  <2>3. sum[n] \in Nat /\ numbers[n + 1] \in Nat
    BY <1>1, <1>10, <2>1
  <2> QED BY <2>2, <2>3
<1> HIDE DEF T
<1>11. Nat \subseteq T
  BY <1>9, <1>10, InductiveSet
<1> QED BY <1>1, <1>7, <1>11 DEF T

(* serialize_to counts the bytes that it writes, page by page and block by     *)
(* block, so that current_position is the end of the file.                     *)
LEMMA BytesAgree ==
    ASSUME NEW w \in Writer, Len(w.name) \in Nat
    PROVE  TotalBytes(w) = StreamBytes(w) /\ StreamBytes(w) \in Nat \ {0}
<1>1. PICK pages \in Seq(Page) : pages = w.pages
  BY DEF Writer
<1>2. ASSUME NEW i \in 1..Len(pages)
      PROVE  /\ PageWritten(pages[i]) = PageHeaderSize + 4 + BlocksCounted(pages[i])
             /\ PageWritten(pages[i]) \in Nat
  <2>0. pages[i] \in Page
    OBVIOUS
  <2>1. PICK blocks \in Seq(Block) : blocks = pages[i].blocks
    BY <2>0 DEF Page
  <2> DEFINE written == [j \in 1..Len(blocks) |-> BlockWritten(blocks[j])]
             counted == [j \in 1..Len(blocks) |->
                            MiniBlockHeader + BlockDataBytes * Len(blocks[j].times)]
  <2>2. ASSUME NEW j \in 1..Len(blocks)
        PROVE  /\ BlockWritten(blocks[j]) = MiniBlockHeader + BlockDataBytes * Len(blocks[j].times)
               /\ BlockWritten(blocks[j]) \in Nat
    <3>0. blocks[j] \in Block
      OBVIOUS
    <3>1. PICK n \in Nat : n = Len(blocks[j].times)
      BY <3>0 DEF Block
    <3>2. BlockDataBytes * n \in Nat
      BY BlockAssumption
    <3> QED BY <3>1, <3>2 DEF BlockWritten, MiniBlockHeader
  <2>3. written \in Seq(Nat) /\ written = counted
    BY <2>2
  <2>4. /\ PageWritten(pages[i]) = (4 + 4 + 4 + 8 + 8) + 4 + SumOf(written)
        /\ BlocksCounted(pages[i]) = SumOf(counted)
    BY <2>1 DEF PageWritten, BlocksCounted
  <2> HIDE DEF written, counted
  <2>5. SumOf(written) \in Nat
    BY <2>3, SumIsNat
  <2> QED BY <2>3, <2>4, <2>5 DEF PageHeaderSize
<1> DEFINE written == [i \in 1..Len(pages) |-> PageWritten(pages[i])]
           counted == [i \in 1..Len(pages) |-> PageHeaderSize + 4 + BlocksCounted(pages[i])]
<1>3. written \in Seq(Nat) /\ written = counted
  BY <1>2
<1>4. /\ StreamBytes(w) = (1 + 4 + Len(w.name) + 4 + 1 + 1 + 1 + 4) + SumOf(written)
      /\ TotalBytes(w) = 16 + Len(w.name) + SumOf(counted)
  BY <1>1 DEF StreamBytes, TotalBytes
<1> HIDE DEF written, counted
<1>5. SumOf(written) \in Nat
  BY <1>3, SumIsNat
<1> QED BY <1>3, <1>4, <1>5
-------------------------------------------------------------------------------
(* The regions of the file: each begins where or after the one before it ends. *)
IsSeq(s) == \E S : s \in Seq(S)

Regions(s) ==
    /\ IsSeq(s) /\ Len(s) \in Nat \ {0}
    /\ \A k \in 1..Len(s) : s[k].off \in Nat /\ s[k].len \in Nat \ {0}
    /\ \A k, l \in 1..Len(s) : k < l => s[k].off + s[k].len <= s[l].off

LEMMA AppendAny ==
    ASSUME NEW s, IsSeq(s), NEW x
    PROVE  /\ IsSeq(Append(s, x)) /\ Len(s) \in Nat
           /\ Len(Append(s, x)) = Len(s) + 1
           /\ Append(s, x)[Len(s) + 1] = x
           /\ \A k \in 1..Len(s) : Append(s, x)[k] = s[k]
<1>1. PICK S : s \in Seq(S)
  BY DEF IsSeq
<1> DEFINE T == S \cup {x}
<1>2. PICK t \in Seq(T) : t = s
  BY <1>1
<1>3. x \in T
  OBVIOUS
<1> HIDE DEF T
<1>4. /\ Append(t, x) \in Seq(T) /\ Len(t) \in Nat
      /\ Len(Append(t, x)) = Len(t) + 1 /\ Append(t, x)[Len(t) + 1] = x
      /\ \A k \in 1..Len(t) : Append(t, x)[k] = t[k]
  BY <1>3, AppendProperties
<1> QED BY <1>2, <1>4 DEF IsSeq

(* A new region begins where the stream ends.                                  *)
LEMMA RegionsGrow ==
    ASSUME NEW s, Regions(s), NEW x, x.off = StreamEnd(s), x.len \in Nat \ {0}
    PROVE  /\ Regions(Append(s, x))
           /\ Len(Append(s, x)) = Len(s) + 1
           /\ Append(s, x)[Len(s) + 1] = x
           /\ \A k \in 1..Len(s) : Append(s, x)[k] = s[k] /\ s[k].off < x.off
           /\ StreamEnd(Append(s, x)) = x.off + x.len
<1> DEFINE t == Append(s, x)
<1>1. PICK n \in Nat \ {0} : n = Len(s)
  BY DEF Regions
<1>2. /\ IsSeq(t) /\ Len(t) = n + 1 /\ t[n + 1] = x
      /\ \A k \in 1..n : t[k] = s[k]
  BY <1>1, AppendAny DEF Regions
<1>3. /\ \A k \in 1..n : s[k].off \in Nat /\ s[k].len \in Nat \ {0}
      /\ \A k, l \in 1..n : k < l => s[k].off + s[k].len <= s[l].off
  BY <1>1 DEF Regions
<1>4. x.off = s[n].off + s[n].len /\ x.off \in Nat
  <2>1. n \in 1..n
    BY <1>1
  <2> QED BY <1>1, <1>3, <2>1 DEF StreamEnd
<1> HIDE DEF t
<1>5. ASSUME NEW k \in 1..n PROVE s[k].off + s[k].len <= x.off /\ s[k].off < x.off
  <2>1. CASE k = n
    BY <1>3, <1>4, <2>1
  <2>2. CASE k < n
    <3>1. n \in 1..n
      BY <1>1
    <3>2. s[k].off + s[k].len <= s[n].off
      BY <1>3, <2>2, <3>1
    <3>3. /\ s[k].off \in Nat /\ s[k].len \in Nat \ {0}
          /\ s[n].off \in Nat /\ s[n].len \in Nat \ {0}
      BY <1>3, <3>1
    <3> QED BY <1>4, <3>2, <3>3
  <2> QED BY <1>1, <2>1, <2>2
<1>6. ASSUME NEW k \in 1..(n + 1) PROVE t[k].off \in Nat /\ t[k].len \in Nat \ {0}
  <2>1. CASE k \in 1..n
    BY <1>2, <1>3, <2>1
  <2>2. CASE k = n + 1
    BY <1>2, <1>4, <2>2
  <2> QED BY <1>1, <2>1, <2>2
<1>7. ASSUME NEW k \in 1..(n + 1), NEW l \in 1..(n + 1), k < l
      PROVE  t[k].off + t[k].len <= t[l].off
  <2>1. k \in 1..n
    BY <1>1, <1>7
  <2>2. CASE l \in 1..n
    BY <1>2, <1>3, <1>7, <2>1, <2>2
  <2>3. CASE l = n + 1
    BY <1>2, <1>5, <2>1, <2>3
  <2> QED BY <1>1, <2>2, <2>3
<1>8. Regions(t)
  BY <1>1, <1>2, <1>6, <1>7 DEF Regions
<1>9. StreamEnd(t) = x.off + x.len
  BY <1>2 DEF StreamEnd
<1> QED BY <1>1, <1>2, <1>5, <1>8, <1>9 DEF t

(* Regions that begin at the same place are the same.                          *)
LEMMA RegionsDiffer ==
    ASSUME NEW s, Regions(s), NEW k \in 1..Len(s), NEW l \in 1..Len(s), s[k].off = s[l].off
    PROVE  k = l
<1>1. ASSUME NEW i \in 1..Len(s), NEW j \in 1..Len(s), i < j PROVE s[i].off # s[j].off
  <2>1. /\ s[i].off \in Nat /\ s[i].len \in Nat \ {0} /\ s[j].off \in Nat
        /\ s[i].off + s[i].len <= s[j].off
    BY <1>1 DEF Regions
  <2> QED BY <2>1
<1>2. k \in Nat /\ l \in Nat
  BY DEF Regions
<1> QED BY <1>1, <1>2
-------------------------------------------------------------------------------
(* The physical file.                                                          *)
IOFields == {"stream", "pos", "groups", "first", "total", "min", "max", "dict"}

Meta == [name : Measurements, off : Nat]

\* Pages of which points are read.
PagesTyped(pages) == pages \in Seq(Page) /\ ReadChunk(pages) \in Seq(Points)

(* The metadata and the chunks of the stream are one and the same: an entry    *)
(* for each chunk, at its offset and with its name, and no two at one offset.  *)
Addressed(gs, s) ==
    /\ \A d \in DOMAIN gs : \A i \in 1..Len(gs[d]) : \E k \in 1..Len(s) :
          s[k].kind = "chunk" /\ s[k].off = gs[d][i].off /\ s[k].name = gs[d][i].name
    /\ \A k \in 1..Len(s) : s[k].kind = "chunk" =>
          /\ PagesTyped(s[k].pages)
          /\ \E d \in DOMAIN gs : \E i \in 1..Len(gs[d]) : gs[d][i].off = s[k].off
    /\ \A d, e \in DOMAIN gs : \A i \in 1..Len(gs[d]) : \A j \in 1..Len(gs[e]) :
          gs[d][i].off = gs[e][j].off => d = e /\ i = j

Named(gs, dict) ==
    \A d \in DOMAIN gs : d \in dict /\ \A i \in 1..Len(gs[d]) : gs[d][i].name \in dict

(* current_position is where the stream ends, as long as chunks are written.   *)
AtEnd(io) ==
    io.stream[Len(io.stream)].kind \in {"header", "chunk"} => io.pos = StreamEnd(io.stream)

IOFine(io, ds) ==
    /\ DOMAIN io = IOFields
    /\ Regions(io.stream)
    /\ DOMAIN io.groups \subseteq ds
    /\ io.groups \in [DOMAIN io.groups -> Seq(Meta)]
    /\ Addressed(io.groups, io.stream)
    /\ Named(io.groups, io.dict)
    /\ AtEnd(io)

\* Nothing but the header and chunks.
Plain(s) == \A k \in 1..Len(s) : s[k].kind \in {"header", "chunk"}

LEMMA NewIOFine ==
    ASSUME NEW ds
    PROVE  IOFine(NewIOWriter, ds) /\ Plain(NewIOWriter.stream)
<1> DEFINE io == NewIOWriter
           header == [kind |-> "header", off |-> 0, len |-> HeaderSize]
           s == <<header>>
<1>1. /\ DOMAIN io = IOFields /\ io.stream = s /\ io.pos = HeaderSize
      /\ io.groups = <<>> /\ io.dict = {}
  BY DEF NewIOWriter, IOFields
<1>2. IsSeq(s) /\ Len(s) = 1 /\ s[1] = header
  <2>1. s \in Seq({header})
    OBVIOUS
  <2> QED BY <2>1 DEF IsSeq
<1>3. header.kind = "header" /\ header.off = 0 /\ header.len = 128
  BY DEF HeaderSize
<1> HIDE DEF s, header, io
<1>4. Regions(s) /\ StreamEnd(s) = 128
  <2>1. \A k \in 1..1 : k = 1
    OBVIOUS
  <2> QED BY <1>2, <1>3, <2>1 DEF Regions, StreamEnd
<1>5. DOMAIN <<>> = {}
  OBVIOUS
<1>6. <<>> \in [DOMAIN <<>> -> Seq(Meta)]
  BY <1>5
<1>7. \A k \in 1..Len(s) : s[k].kind = "header"
  <2>1. \A k \in 1..1 : k = 1
    OBVIOUS
  <2> QED BY <1>2, <1>3, <2>1
<1>8. Addressed(<<>>, s)
  BY <1>5, <1>7 DEF Addressed
<1>9. Named(io.groups, io.dict) /\ AtEnd(io)
  BY <1>1, <1>4, <1>5 DEF Named, AtEnd, HeaderSize
<1> QED BY <1>1, <1>4, <1>5, <1>6, <1>7, <1>8, <1>9 DEF IOFine, Plain, io

LEMMA StartGroupIs ==
    ASSUME NEW io, DOMAIN io = IOFields, NEW d, NEW x, x = StartChunkGroup(io, d)
    PROVE  /\ DOMAIN x = IOFields /\ x.stream = io.stream /\ x.pos = io.pos
           /\ x.dict = io.dict \cup {d}
           /\ x.groups = IF d \in DOMAIN io.groups THEN io.groups ELSE With(io.groups, d, <<>>)
  BY DEF StartChunkGroup, IOFields

LEMMA CountChunkIs ==
    ASSUME NEW io, DOMAIN io = IOFields, NEW w, NEW x, x = CountChunk(io, w)
    PROVE  /\ DOMAIN x = IOFields /\ x.stream = io.stream /\ x.pos = io.pos
           /\ x.dict = io.dict \cup {w.name} /\ x.groups = io.groups
  BY DEF CountChunk, IOFields

(* An open group's device has an entry list in the metadata.                   *)
LEMMA StartGroupFine ==
    ASSUME NEW io, NEW ds, IOFine(io, ds), NEW d \in ds, NEW x, x = StartChunkGroup(io, d)
    PROVE  /\ IOFine(x, ds) /\ x.stream = io.stream
           /\ DOMAIN x.groups = DOMAIN io.groups \cup {d}
           /\ \A e \in DOMAIN io.groups : x.groups[e] = io.groups[e]
           /\ d \notin DOMAIN io.groups => x.groups[d] = <<>>
<1>1. /\ DOMAIN x = IOFields /\ x.stream = io.stream /\ x.pos = io.pos
      /\ x.dict = io.dict \cup {d}
      /\ x.groups = IF d \in DOMAIN io.groups THEN io.groups ELSE With(io.groups, d, <<>>)
  BY StartGroupIs DEF IOFine
<1> DEFINE gs == io.groups
           hs == x.groups
<1>2. gs \in [DOMAIN gs -> Seq(Meta)] /\ DOMAIN gs \subseteq ds
  BY DEF IOFine
<1>3. /\ DOMAIN hs = DOMAIN gs \cup {d}
      /\ \A e \in DOMAIN gs : hs[e] = gs[e]
      /\ d \notin DOMAIN gs => hs[d] = <<>>
      /\ hs \in [DOMAIN hs -> Seq(Meta)]
  <2>1. CASE d \in DOMAIN gs
    BY <1>1, <1>2, <2>1
  <2>2. CASE d \notin DOMAIN gs
    <3>1. hs = [k \in DOMAIN gs \cup {d} |-> IF k = d THEN <<>> ELSE gs[k]]
      BY <1>1, <2>2 DEF With
    <3>2. <<>> \in Seq(Meta) /\ \A e \in DOMAIN gs : e # d /\ gs[e] \in Seq(Meta)
      BY <1>2, <2>2
    <3> HIDE DEF hs, gs
    <3> QED BY <2>2, <3>1, <3>2
  <2> QED BY <2>1, <2>2
<1> HIDE DEF hs, gs
<1>4. \A e \in DOMAIN hs : e \in DOMAIN gs \/ 1..Len(hs[e]) = {}
  BY <1>3
<1>5. Addressed(hs, x.stream)
  <2>1. Addressed(gs, io.stream)
    BY DEF IOFine, gs
  <2>2. ASSUME NEW e \in DOMAIN hs, NEW i \in 1..Len(hs[e])
        PROVE  e \in DOMAIN gs /\ i \in 1..Len(gs[e]) /\ hs[e] = gs[e]
    BY <1>3, <1>4
  <2>3. \A e \in DOMAIN gs : e \in DOMAIN hs /\ hs[e] = gs[e]
    BY <1>3
  <2>4. \A e \in DOMAIN hs : \A i \in 1..Len(hs[e]) : \E k \in 1..Len(io.stream) :
          io.stream[k].kind = "chunk" /\ io.stream[k].off = hs[e][i].off
          /\ io.stream[k].name = hs[e][i].name
    <3> SUFFICES ASSUME NEW e \in DOMAIN hs, NEW i \in 1..Len(hs[e])
                 PROVE  \E k \in 1..Len(io.stream) :
                           /\ io.stream[k].kind = "chunk" /\ io.stream[k].off = hs[e][i].off
                           /\ io.stream[k].name = hs[e][i].name
      OBVIOUS
    <3>1. e \in DOMAIN gs /\ i \in 1..Len(gs[e]) /\ hs[e] = gs[e]
      BY <2>2
    <3>2. \E k \in 1..Len(io.stream) :
              /\ io.stream[k].kind = "chunk" /\ io.stream[k].off = gs[e][i].off
              /\ io.stream[k].name = gs[e][i].name
      BY <2>1, <3>1 DEF Addressed
    <3> QED BY <3>1, <3>2
  <2>5. \A k \in 1..Len(io.stream) : io.stream[k].kind = "chunk" =>
          /\ PagesTyped(io.stream[k].pages)
          /\ \E e \in DOMAIN hs : \E i \in 1..Len(hs[e]) : hs[e][i].off = io.stream[k].off
    <3> SUFFICES ASSUME NEW k \in 1..Len(io.stream), io.stream[k].kind = "chunk"
                 PROVE  /\ PagesTyped(io.stream[k].pages)
                        /\ \E e \in DOMAIN hs : \E i \in 1..Len(hs[e]) :
                              hs[e][i].off = io.stream[k].off
      OBVIOUS
    <3>1. PICK e \in DOMAIN gs : \E i \in 1..Len(gs[e]) : gs[e][i].off = io.stream[k].off
      BY <2>1 DEF Addressed
    <3>2. PICK i \in 1..Len(gs[e]) : gs[e][i].off = io.stream[k].off
      BY <3>1
    <3>3. e \in DOMAIN hs /\ i \in 1..Len(hs[e]) /\ hs[e][i].off = io.stream[k].off
      BY <2>3, <3>2
    <3>4. PagesTyped(io.stream[k].pages)
      BY <2>1 DEF Addressed
    <3> QED BY <3>3, <3>4
  <2>6. \A e, f \in DOMAIN hs : \A i \in 1..Len(hs[e]) : \A j \in 1..Len(hs[f]) :
          hs[e][i].off = hs[f][j].off => e = f /\ i = j
    BY <2>1, <2>2 DEF Addressed
  <2> QED BY <1>1, <2>4, <2>5, <2>6 DEF Addressed
<1>6. Named(hs, x.dict)
  <2>1. Named(gs, io.dict)
    BY DEF IOFine, gs
  <2> QED BY <1>1, <1>3, <1>4, <2>1 DEF Named
<1>7. AtEnd(x) /\ Regions(x.stream)
  BY <1>1 DEF IOFine, AtEnd
<1>8. DOMAIN hs \subseteq ds
  BY <1>2, <1>3 DEF gs
<1> QED BY <1>1, <1>3, <1>5, <1>6, <1>7, <1>8 DEF IOFine, gs, hs

(* One more chunk and its entry: what a written chunk does to the file.        *)
Grew(io, x, d, name, g) ==
    \E region, entry :
        /\ x.stream = Append(io.stream, region)
        /\ x.groups = [io.groups EXCEPT ![d] = Append(@, entry)]
        /\ region.kind = "chunk" /\ region.off = StreamEnd(io.stream)
        /\ region.len \in Nat \ {0} /\ region.name = name
        /\ ReadChunk(region.pages) = g /\ PagesTyped(region.pages)
        /\ entry \in Meta /\ entry.off = region.off /\ entry.name = name

Wrote(io, d, w, x) ==
    \E region, entry :
        /\ DOMAIN x = IOFields /\ x.dict = io.dict
        /\ x.stream = Append(io.stream, region)
        /\ x.pos = io.pos + TotalBytes(w)
        /\ x.groups = [io.groups EXCEPT ![d] = Append(@, entry)]
        /\ region.kind = "chunk" /\ region.off = StreamEnd(io.stream)
        /\ region.len = StreamBytes(w) /\ region.name = w.name
        /\ region.pages = w.pages
        /\ entry = [name |-> w.name, off |-> io.pos]

LEMMA ChunkWrittenIs ==
    ASSUME NEW io, DOMAIN io = IOFields, NEW d, NEW r, r.out = "ok",
           NEW x, x = ChunkWritten(io, d, r).io
    PROVE  Wrote(io, d, r.cw, x)
<1> DEFINE region == [kind |-> "chunk", off |-> StreamEnd(io.stream),
                      len |-> StreamBytes(r.cw), name |-> r.cw.name, pages |-> r.cw.pages]
           entry  == [name |-> r.cw.name, off |-> io.pos]
           bytes  == TotalBytes(r.cw)
           whole  == [io EXCEPT !.stream = Append(@, region), !.pos = @ + bytes,
                                !.groups[d] = Append(@, entry)]
<1>1. ChunkWritten(io, d, r) = [out |-> r.out, io |-> IF r.out # "ok" THEN io ELSE whole]
  BY Zenon DEF ChunkWritten
<1>2. /\ region.kind = "chunk" /\ region.off = StreamEnd(io.stream)
      /\ region.len = StreamBytes(r.cw) /\ region.name = r.cw.name
      /\ region.pages = r.cw.pages
  OBVIOUS
<1>3. entry = [name |-> r.cw.name, off |-> io.pos]
  OBVIOUS
<1> HIDE DEF region, entry
<1>4. whole.stream = Append(io.stream, region)
  BY DEF IOFields
<1>5. whole.pos = io.pos + bytes
  BY DEF IOFields
<1>6. whole.groups = [io.groups EXCEPT ![d] = Append(@, entry)]
  BY DEF IOFields
<1>7. DOMAIN whole = IOFields /\ whole.dict = io.dict
  BY DEF IOFields
<1> HIDE DEF whole
<1>8. x = whole
  BY <1>1
<1>9. /\ DOMAIN x = IOFields /\ x.dict = io.dict
      /\ x.stream = Append(io.stream, region)
      /\ x.pos = io.pos + TotalBytes(r.cw)
      /\ x.groups = [io.groups EXCEPT ![d] = Append(@, entry)]
  BY <1>4, <1>5, <1>6, <1>7, <1>8 DEF bytes
<1> HIDE DEF bytes
<1> QED BY <1>2, <1>3, <1>9 DEF Wrote

LEMMA WriteChunkIs ==
    ASSUME NEW io, NEW ds, IOFine(io, ds), Plain(io.stream), NEW d \in DOMAIN io.groups,
           NEW w, NEW g, Holds(w, g), Len(w.name) \in Nat, NEW r, r = WriteChunk(io, d, w)
    PROVE  /\ r.out \in Outs
           /\ Even(w) => r.out # "panic"
           /\ DOMAIN r.io = IOFields /\ r.io.dict = io.dict \cup {w.name}
           /\ r.out # "ok" => /\ r.io.stream = io.stream /\ r.io.groups = io.groups
                             /\ r.io.pos = io.pos
           /\ r.out = "ok" => /\ Grew(io, r.io, d, w.name, g)
                             /\ r.io.pos = StreamEnd(r.io.stream)
<1> DEFINE c == CountChunk(io, w)
           s == SerializeTo(w)
<1>0. r = ChunkWritten(c, d, s)
  BY DEF WriteChunk
<1>1. /\ DOMAIN c = IOFields /\ c.stream = io.stream /\ c.pos = io.pos
      /\ c.dict = io.dict \cup {w.name} /\ c.groups = io.groups
  BY CountChunkIs DEF IOFine
<1>2. /\ s.out \in Outs /\ s.cw.name = w.name
      /\ Even(w) => s.out # "panic"
      /\ s.out = "ok" => s.cw \in Writer /\ s.cw.pages # <<>> /\ ReadChunk(s.cw.pages) = g
  BY SerializeHolds
<1> HIDE DEF c, s
<1>3. r.out = s.out /\ (s.out # "ok" => r.io = c)
  BY <1>0 DEF ChunkWritten
<1>4. ASSUME r.out = "ok"
      PROVE  /\ DOMAIN r.io = IOFields /\ r.io.dict = c.dict
             /\ Grew(io, r.io, d, w.name, g)
             /\ r.io.pos = StreamEnd(r.io.stream)
  <2>1. PICK region, entry :
             /\ DOMAIN r.io = IOFields /\ r.io.dict = c.dict
             /\ r.io.stream = Append(c.stream, region)
             /\ r.io.pos = c.pos + TotalBytes(s.cw)
             /\ r.io.groups = [c.groups EXCEPT ![d] = Append(@, entry)]
             /\ region.kind = "chunk" /\ region.off = StreamEnd(c.stream)
             /\ region.len = StreamBytes(s.cw) /\ region.name = s.cw.name
             /\ region.pages = s.cw.pages
             /\ entry = [name |-> s.cw.name, off |-> c.pos]
    <3>1. DOMAIN c = IOFields /\ s.out = "ok" /\ r.io = ChunkWritten(c, d, s).io
      BY <1>0, <1>1, <1>3, <1>4
    <3>2. Wrote(c, d, s.cw, r.io)
      BY <3>1, ChunkWrittenIs
    <3> QED BY <3>2 DEF Wrote
  <2>2. s.cw \in Writer /\ s.cw.name = w.name /\ w.name \in Measurements
    BY <1>2, <1>3, <1>4, HoldsTyped
  <2>3. TotalBytes(s.cw) = StreamBytes(s.cw) /\ StreamBytes(s.cw) \in Nat \ {0}
    BY <2>2, BytesAgree
  <2>4. io.pos = StreamEnd(io.stream) /\ StreamEnd(io.stream) \in Nat
    <3>1. Len(io.stream) \in 1..Len(io.stream)
      BY DEF IOFine, Regions
    <3>2. io.pos = StreamEnd(io.stream)
      BY <3>1 DEF IOFine, AtEnd, Plain
    <3>3. io.stream[Len(io.stream)].off \in Nat /\ io.stream[Len(io.stream)].len \in Nat
      BY <3>1 DEF IOFine, Regions
    <3> QED BY <3>2, <3>3 DEF StreamEnd
  <2>5. entry \in Meta /\ entry.off = region.off /\ entry.name = w.name
    BY <1>1, <2>1, <2>2, <2>4 DEF Meta
  <2>6. /\ region.kind = "chunk" /\ region.off = StreamEnd(io.stream)
        /\ region.len = StreamBytes(s.cw) /\ region.name = w.name
        /\ region.pages = s.cw.pages
    BY <1>1, <2>1, <2>2
  <2>7. Grew(io, r.io, d, w.name, g)
    <3>1. region.len \in Nat \ {0} /\ ReadChunk(region.pages) = g
      BY <1>2, <1>3, <1>4, <2>3, <2>6
    <3>2. r.io.stream = Append(io.stream, region)
      BY <1>1, <2>1
    <3>3. r.io.groups = [io.groups EXCEPT ![d] = Append(@, entry)]
      BY <1>1, <2>1
    <3>4. PagesTyped(region.pages)
      <4>1. ReadChunk(region.pages) \in Seq(Points)
        BY <3>1, HoldsTyped
      <4>2. region.pages \in Seq(Page)
        BY <2>2, <2>6 DEF Writer
      <4> QED BY <4>1, <4>2 DEF PagesTyped
    <3> QED BY <2>5, <2>6, <3>1, <3>2, <3>3, <3>4 DEF Grew
  <2>8. r.io.pos = StreamEnd(r.io.stream)
    <3>1. StreamEnd(Append(io.stream, region)) = region.off + region.len
      BY <2>3, <2>6, RegionsGrow DEF IOFine
    <3> QED BY <1>1, <2>1, <2>3, <2>4, <2>6, <3>1
  <2> QED BY <2>1, <2>7, <2>8
<1> QED BY <1>1, <1>2, <1>3, <1>4

(* A chunk that was written keeps the metadata and the stream one and the same.*)
LEMMA GrewFine ==
    ASSUME NEW io, NEW ds, IOFine(io, ds), Plain(io.stream), NEW d \in DOMAIN io.groups,
           NEW name, NEW g \in Seq(Points), NEW x, Grew(io, x, d, name, g),
           DOMAIN x = IOFields, x.dict = io.dict \cup {name}, x.pos = StreamEnd(x.stream)
    PROVE  /\ IOFine(x, ds) /\ Plain(x.stream) /\ DOMAIN x.groups = DOMAIN io.groups
           /\ \A k \in 1..Len(io.stream) : x.stream[k] = io.stream[k]
           /\ Len(x.stream) = Len(io.stream) + 1
<1> DEFINE s == io.stream
           t == x.stream
           gs == io.groups
           hs == x.groups
           n == Len(s)
<1>1. PICK region, entry :
        /\ t = Append(s, region)
        /\ hs = [gs EXCEPT ![d] = Append(@, entry)]
        /\ region.kind = "chunk" /\ region.off = StreamEnd(s)
        /\ region.len \in Nat \ {0} /\ region.name = name
        /\ ReadChunk(region.pages) = g /\ PagesTyped(region.pages)
        /\ entry \in Meta /\ entry.off = region.off /\ entry.name = name
  BY DEF Grew
<1>2. Regions(s) /\ Addressed(gs, s) /\ Named(gs, io.dict)
      /\ gs \in [DOMAIN gs -> Seq(Meta)] /\ DOMAIN gs \subseteq ds /\ Plain(s)
  BY DEF IOFine
<1> HIDE DEF s, t, gs, hs
<1>3. /\ Regions(t) /\ Len(t) = n + 1 /\ t[n + 1] = region
      /\ \A k \in 1..n : t[k] = s[k] /\ s[k].off < region.off
      /\ StreamEnd(t) = region.off + region.len
  BY <1>1, <1>2, RegionsGrow
<1>4. n \in Nat \ {0} /\ region.off \in Nat /\ \A k \in 1..n : s[k].off \in Nat
  <2>1. n \in Nat \ {0} /\ \A k \in 1..n : s[k].off \in Nat
    BY <1>2 DEF Regions
  <2> QED BY <1>1, <2>1 DEF Meta
<1>5. d \in DOMAIN gs
  BY DEF gs
<1>6. PICK m \in Nat : m = Len(gs[d])
  <2>1. gs[d] \in Seq(Meta)
    BY <1>2, <1>5
  <2> QED BY <2>1
<1>7. /\ hs \in [DOMAIN gs -> Seq(Meta)] /\ DOMAIN hs = DOMAIN gs
      /\ \A e \in DOMAIN gs : e # d => hs[e] = gs[e]
      /\ Len(hs[d]) = m + 1 /\ hs[d][m + 1] = entry
      /\ \A i \in 1..m : hs[d][i] = gs[d][i]
  <2>1. gs[d] \in Seq(Meta)
    BY <1>2, <1>5
  <2>2. /\ Append(gs[d], entry) \in Seq(Meta)
        /\ Len(Append(gs[d], entry)) = m + 1 /\ Append(gs[d], entry)[m + 1] = entry
        /\ \A i \in 1..m : Append(gs[d], entry)[i] = gs[d][i]
    BY <1>1, <1>6, <2>1, AppendProperties
  <2>3. hs[d] = Append(gs[d], entry) /\ DOMAIN hs = DOMAIN gs
        /\ \A e \in DOMAIN gs : e # d => hs[e] = gs[e]
    BY <1>1, <1>2, <1>5
  <2>4. hs \in [DOMAIN gs -> Seq(Meta)]
    BY <1>1, <1>2, <1>5, <2>2
  <2> QED BY <2>2, <2>3, <2>4
\* An entry is one of before, or the new one.
<1>8. ASSUME NEW e \in DOMAIN hs, NEW i \in 1..Len(hs[e])
      PROVE  /\ e \in DOMAIN gs
             /\ \/ i \in 1..Len(gs[e]) /\ hs[e][i] = gs[e][i]
                \/ e = d /\ i = m + 1 /\ hs[e][i] = entry
  <2>1. CASE e # d
    BY <1>7, <2>1
  <2>2. CASE e = d
    <3>1. i \in 1..m \/ i = m + 1
      BY <1>6, <1>7, <2>2
    <3> QED BY <1>6, <1>7, <2>2, <3>1
  <2> QED BY <2>1, <2>2
<1>9. ASSUME NEW e \in DOMAIN gs, NEW i \in 1..Len(gs[e])
      PROVE  e \in DOMAIN hs /\ i \in 1..Len(hs[e]) /\ hs[e][i] = gs[e][i]
  <2>1. CASE e # d
    BY <1>7, <2>1
  <2>2. CASE e = d
    BY <1>6, <1>7, <2>2
  <2> QED BY <2>1, <2>2
<1>10. d \in DOMAIN hs /\ m + 1 \in 1..Len(hs[d]) /\ hs[d][m + 1] = entry
  BY <1>5, <1>6, <1>7
<1>11. \A k \in 1..(n + 1) : k \in 1..n \/ k = n + 1
  BY <1>4
<1>12. n + 1 \in 1..(n + 1) /\ \A k \in 1..n : k \in 1..(n + 1)
  BY <1>4
<1> HIDE DEF n
<1>21. \A e \in DOMAIN gs : \A i \in 1..Len(gs[e]) : \E k \in 1..n :
          s[k].kind = "chunk" /\ s[k].off = gs[e][i].off /\ s[k].name = gs[e][i].name
  <2>1. Addressed(gs, s)
    BY <1>2
  <2> QED BY <2>1 DEF Addressed, n
<1>22. \A e, f \in DOMAIN gs : \A i \in 1..Len(gs[e]) : \A j \in 1..Len(gs[f]) :
          gs[e][i].off = gs[f][j].off => e = f /\ i = j
  <2>1. Addressed(gs, s)
    BY <1>2
  <2> QED BY <2>1 DEF Addressed
\* The entries of before lie below the new offset.
<1>13. ASSUME NEW e \in DOMAIN gs, NEW i \in 1..Len(gs[e])
       PROVE  gs[e][i].off # region.off
  <2>1. PICK k \in 1..n : s[k].off = gs[e][i].off
    BY <1>21
  <2>2. s[k].off < region.off /\ s[k].off \in Nat
    BY <1>3, <1>4
  <2> QED BY <1>4, <2>1, <2>2
<1>14. ASSUME NEW e \in DOMAIN hs, NEW i \in 1..Len(hs[e])
       PROVE  \E k \in 1..(n + 1) :
                 /\ t[k].kind = "chunk" /\ t[k].off = hs[e][i].off /\ t[k].name = hs[e][i].name
  <2>1. CASE i \in 1..Len(gs[e]) /\ hs[e][i] = gs[e][i]
    <3>1. e \in DOMAIN gs
      BY <1>8
    <3>2. PICK k \in 1..n :
            /\ s[k].kind = "chunk" /\ s[k].off = gs[e][i].off /\ s[k].name = gs[e][i].name
      BY <1>21, <2>1, <3>1
    <3>3. t[k] = s[k] /\ k \in 1..(n + 1)
      BY <1>3, <1>12
    <3> QED BY <2>1, <3>2, <3>3
  <2>2. CASE hs[e][i] = entry
    BY <1>1, <1>3, <1>12, <2>2
  <2> QED BY <1>8, <2>1, <2>2
<1>15. ASSUME NEW k \in 1..(n + 1), t[k].kind = "chunk"
       PROVE  /\ PagesTyped(t[k].pages)
              /\ \E e \in DOMAIN hs : \E i \in 1..Len(hs[e]) : hs[e][i].off = t[k].off
  <2>1. CASE k \in 1..n
    <3>1. t[k] = s[k]
      BY <1>3, <2>1
    <3>2. PagesTyped(s[k].pages)
      BY <1>2, <1>15, <2>1, <3>1 DEF Addressed, n
    <3>3. PICK e \in DOMAIN gs : \E i \in 1..Len(gs[e]) : gs[e][i].off = s[k].off
      BY <1>2, <1>15, <2>1, <3>1 DEF Addressed, n
    <3>4. PICK i \in 1..Len(gs[e]) : gs[e][i].off = s[k].off
      BY <3>3
    <3>5. e \in DOMAIN hs /\ i \in 1..Len(hs[e]) /\ hs[e][i].off = t[k].off
      BY <1>9, <3>1, <3>4
    <3> QED BY <3>1, <3>2, <3>5
  <2>2. CASE k = n + 1
    <3>1. t[k] = region
      BY <1>3, <2>2
    <3>2. PagesTyped(t[k].pages)
      BY <1>1, <3>1
    <3>3. d \in DOMAIN hs /\ m + 1 \in 1..Len(hs[d]) /\ hs[d][m + 1].off = t[k].off
      BY <1>1, <1>10, <3>1
    <3> QED BY <3>2, <3>3
  <2> QED BY <1>11, <2>1, <2>2
<1>16. ASSUME NEW e \in DOMAIN hs, NEW f \in DOMAIN hs, NEW i \in 1..Len(hs[e]),
              NEW j \in 1..Len(hs[f]), hs[e][i].off = hs[f][j].off
       PROVE  e = f /\ i = j
  <2>1. CASE i \in 1..Len(gs[e]) /\ hs[e][i] = gs[e][i] /\ j \in 1..Len(gs[f]) /\ hs[f][j] = gs[f][j]
    BY <1>7, <1>16, <1>22, <2>1
  <2>2. CASE i \in 1..Len(gs[e]) /\ hs[e][i] = gs[e][i] /\ f = d /\ j = m + 1 /\ hs[f][j] = entry
    BY <1>1, <1>7, <1>13, <1>16, <2>2
  <2>3. CASE e = d /\ i = m + 1 /\ hs[e][i] = entry /\ j \in 1..Len(gs[f]) /\ hs[f][j] = gs[f][j]
    BY <1>1, <1>7, <1>13, <1>16, <2>3
  <2>4. CASE e = d /\ i = m + 1 /\ f = d /\ j = m + 1
    BY <2>4, Zenon
  <2> QED BY <1>8, <2>1, <2>2, <2>3, <2>4
<1>17. Addressed(hs, t)
  BY <1>3, <1>14, <1>15, <1>16 DEF Addressed
<1>18. Named(hs, x.dict)
  <2>1. ASSUME NEW e \in DOMAIN hs PROVE e \in x.dict
    BY <1>2, <1>7 DEF Named
  <2>2. ASSUME NEW e \in DOMAIN hs, NEW i \in 1..Len(hs[e]) PROVE hs[e][i].name \in x.dict
    <3>1. CASE i \in 1..Len(gs[e]) /\ hs[e][i] = gs[e][i]
      BY <1>2, <1>7, <3>1 DEF Named
    <3>2. CASE hs[e][i] = entry
      BY <1>1, <3>2
    <3> QED BY <1>8, <3>1, <3>2
  <2> QED BY <2>1, <2>2 DEF Named
<1>19. Plain(t)
  <2>1. ASSUME NEW k \in 1..(n + 1) PROVE t[k].kind \in {"header", "chunk"}
    <3>1. CASE k \in 1..n
      BY <1>2, <1>3, <3>1 DEF Plain, n
    <3>2. CASE k = n + 1
      BY <1>1, <1>3, <3>2
    <3> QED BY <1>11, <3>1, <3>2
  <2> QED BY <1>3, <2>1 DEF Plain
<1>20. AtEnd(x) /\ DOMAIN hs \subseteq ds
  BY <1>2, <1>7 DEF AtEnd, t
<1> QED BY <1>3, <1>7, <1>17, <1>18, <1>19, <1>20 DEF IOFine, s, t, gs, hs, n

(* A section of close leaves the chunks and their metadata as they are.        *)
Extended(io, x, region) ==
    /\ DOMAIN x = IOFields /\ x.groups = io.groups /\ x.dict = io.dict
    /\ x.stream = Append(io.stream, region)
    /\ region.off = StreamEnd(io.stream) /\ region.len \in Nat \ {0}

(* t is s and one more region.                                                 *)
Lengthened(s, t, region) ==
    /\ Len(t) = Len(s) + 1 /\ Len(s) \in Nat \ {0}
    /\ t[Len(s) + 1] = region
    /\ \A k \in 1..Len(s) : t[k] = s[k]

LEMMA ExtendedFine ==
    ASSUME NEW io, NEW ds, IOFine(io, ds), NEW region, NEW x, Extended(io, x, region),
           region.kind \notin {"header", "chunk"}
    PROVE  IOFine(x, ds) /\ Lengthened(io.stream, x.stream, region)
<1> DEFINE s == io.stream
           t == x.stream
           gs == io.groups
           n == Len(s)
<1>1. /\ DOMAIN x = IOFields /\ x.groups = gs /\ x.dict = io.dict
      /\ t = Append(s, region) /\ region.off = StreamEnd(s) /\ region.len \in Nat \ {0}
  BY DEF Extended
<1>2. /\ Regions(s) /\ Addressed(gs, s) /\ Named(gs, io.dict)
      /\ gs \in [DOMAIN gs -> Seq(Meta)] /\ DOMAIN gs \subseteq ds
  BY DEF IOFine
<1> HIDE DEF s, t, gs
<1>3. /\ Regions(t) /\ Len(t) = n + 1 /\ t[n + 1] = region
      /\ \A k \in 1..n : t[k] = s[k]
  BY <1>1, <1>2, RegionsGrow
<1>4. n \in Nat \ {0}
  BY <1>2 DEF Regions
<1>5. /\ \A k \in 1..(n + 1) : k \in 1..n \/ k = n + 1
      /\ \A k \in 1..n : k \in 1..(n + 1)
  BY <1>4
<1>6. AtEnd(x)
  BY <1>3 DEF AtEnd, t
<1> HIDE DEF n
<1>7. /\ \A d \in DOMAIN gs : \A i \in 1..Len(gs[d]) : \E k \in 1..n :
            s[k].kind = "chunk" /\ s[k].off = gs[d][i].off /\ s[k].name = gs[d][i].name
      /\ \A k \in 1..n : s[k].kind = "chunk" =>
            /\ PagesTyped(s[k].pages)
            /\ \E d \in DOMAIN gs : \E i \in 1..Len(gs[d]) : gs[d][i].off = s[k].off
      /\ \A d, e \in DOMAIN gs : \A i \in 1..Len(gs[d]) : \A j \in 1..Len(gs[e]) :
            gs[d][i].off = gs[e][j].off => d = e /\ i = j
  <2>1. Addressed(gs, s)
    BY <1>2
  <2> QED BY <2>1 DEF Addressed, n
<1>8. ASSUME NEW d \in DOMAIN gs, NEW i \in 1..Len(gs[d])
      PROVE  \E k \in 1..(n + 1) :
                t[k].kind = "chunk" /\ t[k].off = gs[d][i].off /\ t[k].name = gs[d][i].name
  <2>1. PICK k \in 1..n :
            s[k].kind = "chunk" /\ s[k].off = gs[d][i].off /\ s[k].name = gs[d][i].name
    BY <1>7
  <2>2. k \in 1..(n + 1) /\ t[k] = s[k]
    BY <1>3, <1>5
  <2> QED BY <2>1, <2>2
<1>9. ASSUME NEW k \in 1..(n + 1), t[k].kind = "chunk"
      PROVE  /\ PagesTyped(t[k].pages)
             /\ \E d \in DOMAIN gs : \E i \in 1..Len(gs[d]) : gs[d][i].off = t[k].off
  <2>1. k \in 1..n /\ t[k] = s[k]
    BY <1>3, <1>5, <1>9
  <2> QED BY <1>7, <1>9, <2>1
<1>10. Addressed(gs, t)
  BY <1>3, <1>7, <1>8, <1>9 DEF Addressed
<1>11. IOFine(x, ds)
  BY <1>1, <1>2, <1>3, <1>4, <1>6, <1>10 DEF IOFine, s, t, gs, n
<1>12. Lengthened(s, t, region)
  BY <1>3, <1>4, <1>5 DEF Lengthened, n
<1> QED BY <1>11, <1>12 DEF s, t

LEMMA WithRegionIs ==
    ASSUME NEW io, DOMAIN io = IOFields, NEW region, NEW x, x = WithRegion(io, region)
    PROVE  /\ DOMAIN x = IOFields /\ x.groups = io.groups /\ x.dict = io.dict
           /\ x.stream = Append(io.stream, [region EXCEPT !.off = StreamEnd(io.stream)])
  BY DEF WithRegion, IOFields

LEMMA DictionaryIs ==
    ASSUME NEW io, NEW ds, IOFine(io, ds), NEW x, x = WriteDictionary(io)
    PROVE  \/ x = io /\ io.dict = {}
           \/ \E region : /\ Extended(io, x, region) /\ region.kind = "dictionary"
                          /\ region.names = io.dict
<1> DEFINE section == [kind |-> "dictionary", off |-> 0, len |-> 1, names |-> io.dict]
           region == [section EXCEPT !.off = StreamEnd(io.stream)]
<1>1. region.kind = "dictionary" /\ region.names = io.dict /\ region.len = 1
      /\ region.off = StreamEnd(io.stream)
  OBVIOUS
<1>2. io.dict # {} => x = WithRegion(io, section)
  BY DEF WriteDictionary
<1>3. io.dict = {} => x = io
  BY DEF WriteDictionary
<1> HIDE DEF section
<1>4. x = WithRegion(io, section) => /\ DOMAIN x = IOFields /\ x.groups = io.groups
                                     /\ x.dict = io.dict /\ x.stream = Append(io.stream, region)
  BY WithRegionIs DEF IOFine
<1> HIDE DEF region
<1> QED BY <1>1, <1>2, <1>3, <1>4 DEF Extended

LEMMA MetadataIs ==
    ASSUME NEW io, NEW ds, IOFine(io, ds), NEW x, x = WriteMetadata(io)
    PROVE  \E region : /\ Extended(io, x, region) /\ region.kind = "metadata"
                       /\ region.groups = io.groups
<1> DEFINE section == [kind |-> "metadata", off |-> 0, len |-> 1, groups |-> io.groups]
           region == [section EXCEPT !.off = StreamEnd(io.stream)]
<1>1. region.kind = "metadata" /\ region.groups = io.groups /\ region.len = 1
      /\ region.off = StreamEnd(io.stream)
  OBVIOUS
<1>2. x = WithRegion(io, section)
  BY DEF WriteMetadata
<1> HIDE DEF section
<1>3. /\ DOMAIN x = IOFields /\ x.groups = io.groups
      /\ x.dict = io.dict /\ x.stream = Append(io.stream, region)
  BY <1>2, WithRegionIs DEF IOFine
<1> HIDE DEF region
<1> QED BY <1>1, <1>3 DEF Extended

LEMMA FooterIs ==
    ASSUME NEW io, NEW ds, IOFine(io, ds), NEW x, x = WriteFooter(io)
    PROVE  \E region : /\ Extended(io, x, region) /\ region.kind = "footer"
                       /\ region.metadata_offset = io.stream[Len(io.stream)].off
<1> DEFINE off == io.stream[Len(io.stream)].off
           section == Footer(io, off)
           region == [section EXCEPT !.off = StreamEnd(io.stream)]
<1> HIDE DEF off
<1>1. region.kind = "footer" /\ region.metadata_offset = off /\ region.len = 132
      /\ region.off = StreamEnd(io.stream)
  BY DEF Footer, FooterSize
<1>2. x = WithRegion(io, section)
  BY DEF WriteFooter, off
<1> HIDE DEF section
<1>3. /\ DOMAIN x = IOFields /\ x.groups = io.groups
      /\ x.dict = io.dict /\ x.stream = Append(io.stream, region)
  BY <1>2, WithRegionIs DEF IOFine
<1> HIDE DEF region
<1> QED BY <1>1, <1>3 DEF Extended, off
-------------------------------------------------------------------------------
(* What joining sequences gives.                                               *)
LEMMA JoinSteps ==
    ASSUME NEW X, NEW seqs \in Seq(Seq(X))
    PROVE  \E join \in [0..Len(seqs) -> Seq(X)] :
              /\ Joined(seqs) = join[Len(seqs)] /\ join[0] = <<>>
              /\ \A n \in 1..Len(seqs) : join[n] = join[n - 1] \o seqs[n]
<1>1. PICK join \in [0..Len(seqs) -> Seq(X)] :
         Joins(join, seqs) /\ Joined(seqs) = join[Len(seqs)]
  BY JoinedRecursion
<1>2. PICK N \in Nat : N = Len(seqs)
  OBVIOUS
<1>3. \A n \in 0..N : join[n] = IF n = 0 THEN <<>> ELSE join[n - 1] \o seqs[n]
  BY <1>1, <1>2 DEF Joins
<1>4. 0 \in 0..N /\ \A n \in 1..N : n \in 0..N /\ n # 0
  BY <1>2
<1>5. join[0] = <<>> /\ \A n \in 1..N : join[n] = join[n - 1] \o seqs[n]
  BY <1>3, <1>4
<1> QED BY <1>1, <1>2, <1>5

LEMMA JoinedTyped ==
    ASSUME NEW X, NEW seqs \in Seq(Seq(X))
    PROVE  Joined(seqs) \in Seq(X) /\ (seqs = <<>> => Joined(seqs) = <<>>)
<1>1. PICK join \in [0..Len(seqs) -> Seq(X)] :
         /\ Joined(seqs) = join[Len(seqs)] /\ join[0] = <<>>
         /\ \A n \in 1..Len(seqs) : join[n] = join[n - 1] \o seqs[n]
  BY JoinSteps
<1>2. Len(seqs) \in 0..Len(seqs) /\ (seqs = <<>> => Len(seqs) = 0)
  OBVIOUS
<1> QED BY <1>1, <1>2

LEMMA JoinedAppend ==
    ASSUME NEW X, NEW seqs \in Seq(Seq(X)), NEW x \in Seq(X)
    PROVE  Joined(Append(seqs, x)) = Joined(seqs) \o x
<1>1. PICK more : more = Append(seqs, x)
  OBVIOUS
<1>2. PICK N \in Nat : N = Len(seqs)
  OBVIOUS
<1>3. /\ more \in Seq(Seq(X)) /\ Len(more) = N + 1 /\ more[N + 1] = x
      /\ \A n \in 1..N : more[n] = seqs[n]
  BY <1>1, <1>2, AppendProperties
<1>4. PICK f \in [0..N -> Seq(X)] :
         /\ Joined(seqs) = f[N] /\ f[0] = <<>>
         /\ \A n \in 1..N : f[n] = f[n - 1] \o seqs[n]
  BY <1>2, JoinSteps
<1>5. PICK g :
         /\ Joined(more) = g[N + 1] /\ g[0] = <<>>
         /\ \A n \in 1..(N + 1) : g[n] = g[n - 1] \o more[n]
  <2>1. PICK g \in [0..Len(more) -> Seq(X)] :
           /\ Joined(more) = g[Len(more)] /\ g[0] = <<>>
           /\ \A n \in 1..Len(more) : g[n] = g[n - 1] \o more[n]
    BY <1>3, JoinSteps
  <2> QED BY <1>3, <2>1
<1> DEFINE T == {n \in Nat : n <= N => g[n] = f[n]}
<1>6. 0 \in T
  BY <1>4, <1>5
<1>7. ASSUME NEW n \in Nat, n \in T PROVE n + 1 \in T
  <2> SUFFICES ASSUME n + 1 <= N PROVE g[n + 1] = f[n + 1]
    OBVIOUS
  <2>1. n + 1 \in 1..N /\ n + 1 \in 1..(N + 1) /\ (n + 1) - 1 = n /\ n <= N
    BY <1>2
  <2>2. f[n + 1] = f[n] \o seqs[n + 1]
    BY <1>4, <2>1
  <2>3. g[n + 1] = g[n] \o more[n + 1]
    BY <1>5, <2>1
  <2> QED BY <1>3, <1>7, <2>1, <2>2, <2>3
<1> HIDE DEF T
<1>8. Nat \subseteq T
  BY <1>6, <1>7, InductiveSet
<1>9. g[N] = f[N]
  BY <1>8 DEF T
<1>10. g[N + 1] = g[N] \o x
  <2>1. N + 1 \in 1..(N + 1) /\ (N + 1) - 1 = N
    OBVIOUS
  <2> QED BY <1>3, <1>5, <2>1
<1> QED BY <1>1, <1>4, <1>5, <1>9, <1>10

LEMMA ConcatAssoc ==
    ASSUME NEW X, NEW s \in Seq(X), NEW t \in Seq(X), NEW u \in Seq(X)
    PROVE  (s \o t) \o u = s \o (t \o u)
<1>1. PICK a, b : a = (s \o t) \o u /\ b = s \o (t \o u)
  OBVIOUS
<1>2. PICK p, q : p = s \o t /\ q = t \o u
  OBVIOUS
<1>3. /\ p \in Seq(X) /\ Len(p) = Len(s) + Len(t)
      /\ \A k \in 1..Len(p) : p[k] = IF k <= Len(s) THEN s[k] ELSE t[k - Len(s)]
  BY <1>2
<1>4. /\ q \in Seq(X) /\ Len(q) = Len(t) + Len(u)
      /\ \A k \in 1..Len(q) : q[k] = IF k <= Len(t) THEN t[k] ELSE u[k - Len(t)]
  BY <1>2
<1>5. a = p \o u /\ b = s \o q
  BY <1>1, <1>2
<1>6. /\ a \in Seq(X) /\ Len(a) = Len(s) + Len(t) + Len(u)
      /\ \A k \in 1..Len(a) : a[k] = IF k <= Len(p) THEN p[k] ELSE u[k - Len(p)]
  BY <1>3, <1>5
<1>7. /\ b \in Seq(X) /\ Len(b) = Len(s) + Len(t) + Len(u)
      /\ \A k \in 1..Len(b) : b[k] = IF k <= Len(s) THEN s[k] ELSE q[k - Len(s)]
  <2>1. b \in Seq(X) /\ Len(b) = Len(s) + Len(q)
    <3>1. q \in Seq(X)
      BY <1>4
    <3>2. s \o q \in Seq(X) /\ Len(s \o q) = Len(s) + Len(q)
      BY <3>1
    <3> QED BY <1>5, <3>2
  <2>2. \A k \in 1..Len(b) : b[k] = IF k <= Len(s) THEN s[k] ELSE q[k - Len(s)]
    BY <1>4, <1>5
  <2>3. Len(s) \in Nat /\ Len(t) \in Nat /\ Len(u) \in Nat
    OBVIOUS
  <2> QED BY <1>4, <2>1, <2>2, <2>3
<1>8. ASSUME NEW k \in 1..Len(a) PROVE a[k] = b[k]
  <2>1. /\ Len(s) \in Nat /\ Len(t) \in Nat /\ Len(u) \in Nat
        /\ k \in Nat /\ 1 <= k /\ k <= Len(s) + Len(t) + Len(u)
    BY <1>6
  <2>2. CASE k <= Len(s)
    BY <1>3, <1>6, <1>7, <2>1, <2>2
  <2>3. CASE Len(s) < k /\ k <= Len(s) + Len(t)
    <3>1. a[k] = p[k] /\ p[k] = t[k - Len(s)]
      BY <1>3, <1>6, <2>1, <2>3
    <3>2. b[k] = q[k - Len(s)]
      BY <1>6, <1>7, <2>1, <2>3
    <3>3. q[k - Len(s)] = t[k - Len(s)]
      <4>1. k - Len(s) \in 1..Len(q) /\ k - Len(s) <= Len(t)
        BY <1>4, <2>1, <2>3
      <4> QED BY <1>4, <4>1
    <3> QED BY <3>1, <3>2, <3>3
  <2>4. CASE Len(s) + Len(t) < k
    <3>1. a[k] = u[k - (Len(s) + Len(t))]
      BY <1>3, <1>6, <2>1, <2>4
    <3>2. b[k] = q[k - Len(s)]
      BY <1>6, <1>7, <2>1, <2>4
    <3>3. q[k - Len(s)] = u[(k - Len(s)) - Len(t)]
      <4>1. k - Len(s) \in 1..Len(q) /\ ~(k - Len(s) <= Len(t))
        BY <1>4, <2>1, <2>4
      <4> QED BY <1>4, <4>1
    <3>4. (k - Len(s)) - Len(t) = k - (Len(s) + Len(t))
      BY <2>1
    <3> QED BY <3>1, <3>2, <3>3, <3>4
  <2> QED BY <2>1, <2>2, <2>3, <2>4
<1>9. a = b
  BY <1>6, <1>7, <1>8, SameSequence
<1> QED BY <1>1, <1>9

(* t begins with s.                                                            *)
Begins(s, t, X) == \E rest \in Seq(X) : t = s \o rest

LEMMA BeginsOn ==
    ASSUME NEW X, NEW s \in Seq(X), NEW t \in Seq(X), NEW u \in Seq(X), Begins(s, t, X)
    PROVE  Begins(s, t \o u, X)
<1>1. PICK rest \in Seq(X) : t = s \o rest
  BY DEF Begins
<1>2. PICK more : more = rest \o u
  OBVIOUS
<1>3. more \in Seq(X)
  BY <1>2
<1>4. t \o u = s \o more
  BY <1>1, <1>2, ConcatAssoc
<1> QED BY <1>3, <1>4 DEF Begins

(* Joined sequences start with the first of them that is not empty.            *)
LEMMA JoinedFirst ==
    ASSUME NEW X, NEW seqs \in Seq(Seq(X)), NEW i \in 1..Len(seqs),
           \A j \in 1..(i - 1) : seqs[j] = <<>>
    PROVE  Begins(seqs[i], Joined(seqs), X)
<1>1. PICK N \in Nat : N = Len(seqs)
  OBVIOUS
<1>2. PICK f \in [0..N -> Seq(X)] :
         /\ Joined(seqs) = f[N] /\ f[0] = <<>>
         /\ \A n \in 1..N : f[n] = f[n - 1] \o seqs[n]
  BY <1>1, JoinSteps
<1>3. i \in Nat /\ 1 <= i /\ i <= N /\ \A n \in 1..N : seqs[n] \in Seq(X)
  BY <1>1
<1> DEFINE T == {n \in Nat : n <= N => IF n < i THEN f[n] = <<>>
                                               ELSE Begins(seqs[i], f[n], X)}
<1>4. 0 \in T
  BY <1>2, <1>3
<1>5. ASSUME NEW n \in Nat, n \in T PROVE n + 1 \in T
  <2> SUFFICES ASSUME n + 1 <= N
               PROVE  IF n + 1 < i THEN f[n + 1] = <<>> ELSE Begins(seqs[i], f[n + 1], X)
    OBVIOUS
  <2>1. n + 1 \in 1..N /\ (n + 1) - 1 = n /\ n <= N /\ n \in 0..N
    BY <1>1
  <2>2. PICK x \in Seq(X) : x = seqs[n + 1]
    BY <1>3, <2>1
  <2>3. f[n + 1] = f[n] \o x /\ f[n] \in Seq(X) /\ seqs[i] \in Seq(X)
    <3>1. f[n] \in Seq(X)
      BY <1>2, <2>1
    <3>2. seqs[i] \in Seq(X)
      BY <1>1
    <3>3. f[n + 1] = f[(n + 1) - 1] \o seqs[n + 1]
      BY <1>2, <2>1
    <3>4. f[n + 1] = f[n] \o x
      BY <2>1, <2>2, <3>3
    <3> QED BY <3>1, <3>2, <3>4
  <2>4. IF n < i THEN f[n] = <<>> ELSE Begins(seqs[i], f[n], X)
    BY <1>5, <2>1
  <2>5. CASE n + 1 < i
    <3>1. n < i /\ n + 1 \in 1..(i - 1)
      BY <1>3, <2>5
    <3> QED BY <2>2, <2>3, <2>4, <2>5, <3>1
  <2>6. CASE n + 1 = i
    <3>1. f[n] = <<>> /\ x = seqs[i]
      <4>1. n < i
        BY <1>3, <2>6
      <4> QED BY <2>2, <2>4, <2>6, <4>1
    <3>2. f[n + 1] = seqs[i] \o <<>> /\ <<>> \in Seq(X)
      BY <2>3, <3>1
    <3>3. Begins(seqs[i], f[n + 1], X)
      BY <3>2 DEF Begins
    <3> QED BY <1>3, <2>6, <3>3
  <2>7. CASE i <= n
    <3>1. Begins(seqs[i], f[n], X)
      BY <1>3, <2>4, <2>7
    <3>2. Begins(seqs[i], f[n] \o x, X)
      BY <2>3, <3>1, BeginsOn
    <3> QED BY <1>3, <2>3, <2>7, <3>2
  <2> QED BY <1>3, <2>5, <2>6, <2>7
<1> HIDE DEF T
<1>6. Nat \subseteq T
  BY <1>4, <1>5, InductiveSet
<1>7. N \in Nat /\ N <= N /\ ~(N < i)
  BY <1>3
<1>8. Begins(seqs[i], f[N], X)
  BY <1>6, <1>7 DEF T
<1> QED BY <1>2, <1>8
-------------------------------------------------------------------------------
(* What a reader gets of a series.                                             *)
(* The region at an offset is the one that is there.                           *)
LEMMA RegionAtIs ==
    ASSUME NEW s, Regions(s), NEW k \in 1..Len(s)
    PROVE  RegionAt(s, s[k].off) = s[k]
<1>1. IsSeq(s) /\ Len(s) \in Nat
  BY DEF Regions
<1>2. PICK S : s \in Seq(S)
  BY <1>1 DEF IsSeq
<1>3. DOMAIN s = 1..Len(s)
  BY <1>2
<1>4. s[k] \in ToSet(s)
  BY <1>3 DEF ToSet
<1>5. ASSUME NEW r \in ToSet(s), r.off = s[k].off PROVE r = s[k]
  <2>1. PICK l \in 1..Len(s) : r = s[l]
    BY <1>3 DEF ToSet
  <2>2. l = k
    BY <1>5, <2>1, RegionsDiffer
  <2> QED BY <2>1, <2>2
<1> QED BY <1>4, <1>5 DEF RegionAt

Chunked(gs, f, d, m) ==
    [i \in 1..Len(gs[d]) |-> IF gs[d][i].name = m THEN ChunkContent(f, gs[d][i]) ELSE <<>>]

Longer(s, t) == \A k \in 1..Len(s) : k \in 1..Len(t) /\ t[k] = s[k]

LEMMA EntryRegion ==
    ASSUME NEW x, NEW ds, IOFine(x, ds), NEW d \in DOMAIN x.groups,
           NEW i \in 1..Len(x.groups[d])
    PROVE  \E k \in 1..Len(x.stream) :
              /\ x.stream[k].kind = "chunk" /\ x.stream[k].off = x.groups[d][i].off
              /\ ChunkContent(x.stream, x.groups[d][i]) = ReadChunk(x.stream[k].pages)
              /\ PagesTyped(x.stream[k].pages)
              /\ ReadChunk(x.stream[k].pages) \in Seq(Points)
<1>1. Regions(x.stream) /\ Addressed(x.groups, x.stream)
  BY DEF IOFine
<1>2. PICK k \in 1..Len(x.stream) :
         x.stream[k].kind = "chunk" /\ x.stream[k].off = x.groups[d][i].off
  BY <1>1 DEF Addressed
<1>3. RegionAt(x.stream, x.stream[k].off) = x.stream[k]
  BY <1>1, RegionAtIs
<1>4. PagesTyped(x.stream[k].pages)
  BY <1>1, <1>2 DEF Addressed
<1>5. ChunkContent(x.stream, x.groups[d][i]) = ReadChunk(x.stream[k].pages)
  BY <1>2, <1>3 DEF ChunkContent
<1> QED BY <1>2, <1>4, <1>5 DEF PagesTyped

LEMMA ChunkedTyped ==
    ASSUME NEW x, NEW ds, IOFine(x, ds), NEW d \in DOMAIN x.groups, NEW m
    PROVE  /\ Chunked(x.groups, x.stream, d, m) \in Seq(Seq(Points))
           /\ Len(Chunked(x.groups, x.stream, d, m)) = Len(x.groups[d])
           /\ Len(x.groups[d]) \in Nat
<1>1. x.groups[d] \in Seq(Meta)
  BY DEF IOFine
<1>2. PICK n \in Nat : n = Len(x.groups[d])
  BY <1>1
<1>3. \A i \in 1..n : ChunkContent(x.stream, x.groups[d][i]) \in Seq(Points)
  BY <1>2, EntryRegion
<1>4. <<>> \in Seq(Points)
  OBVIOUS
<1>5. \A i \in 1..n : (IF x.groups[d][i].name = m THEN ChunkContent(x.stream, x.groups[d][i])
                                                 ELSE <<>>) \in Seq(Points)
  BY <1>3, <1>4
<1>6. Chunked(x.groups, x.stream, d, m) \in [1..n -> Seq(Points)]
  BY <1>2, <1>5 DEF Chunked
<1> QED BY <1>2, <1>6

LEMMA ContentTyped ==
    ASSUME NEW x, NEW ds, IOFine(x, ds), NEW d, NEW m
    PROVE  Content(x.groups, x.stream, d, m) \in Seq(Points)
<1>1. CASE d \in DOMAIN x.groups
  <2>1. Chunked(x.groups, x.stream, d, m) \in Seq(Seq(Points))
    BY <1>1, ChunkedTyped
  <2>2. Joined(Chunked(x.groups, x.stream, d, m)) \in Seq(Points)
    BY <2>1, JoinedTyped
  <2> QED BY <1>1, <2>2 DEF Content, Chunked
<1>2. CASE d \notin DOMAIN x.groups
  BY <1>2 DEF Content
<1> QED BY <1>1, <1>2

(* A chunk reads the same when the file grows behind it.                       *)
LEMMA SameChunk ==
    ASSUME NEW x, NEW ds, IOFine(x, ds), NEW t, Regions(t), Longer(x.stream, t),
           NEW d \in DOMAIN x.groups, NEW i \in 1..Len(x.groups[d])
    PROVE  ChunkContent(t, x.groups[d][i]) = ChunkContent(x.stream, x.groups[d][i])
<1>1. PICK k \in 1..Len(x.stream) :
              /\ x.stream[k].off = x.groups[d][i].off
              /\ ChunkContent(x.stream, x.groups[d][i]) = ReadChunk(x.stream[k].pages)
  BY EntryRegion
<1>2. k \in 1..Len(t) /\ t[k] = x.stream[k]
  BY DEF Longer
<1>3. RegionAt(t, t[k].off) = t[k]
  BY <1>2, RegionAtIs
<1> QED BY <1>1, <1>2, <1>3 DEF ChunkContent

LEMMA ContentKept ==
    ASSUME NEW x, NEW ds, IOFine(x, ds), NEW gs, NEW t, Regions(t), Longer(x.stream, t),
           NEW d, NEW m,
           \/ d \in DOMAIN x.groups /\ d \in DOMAIN gs /\ gs[d] = x.groups[d]
           \/ d \notin DOMAIN x.groups /\ (d \in DOMAIN gs => gs[d] = <<>>)
    PROVE  Content(gs, t, d, m) = Content(x.groups, x.stream, d, m)
<1>1. CASE d \in DOMAIN x.groups /\ d \in DOMAIN gs /\ gs[d] = x.groups[d]
  <2>1. Chunked(gs, t, d, m) = Chunked(x.groups, x.stream, d, m)
    <3>1. \A i \in 1..Len(x.groups[d]) :
             ChunkContent(t, x.groups[d][i]) = ChunkContent(x.stream, x.groups[d][i])
      BY <1>1, SameChunk
    <3> QED BY <1>1, <3>1 DEF Chunked
  <2> QED BY <1>1, <2>1 DEF Content, Chunked
<1>2. CASE d \notin DOMAIN x.groups /\ d \notin DOMAIN gs
  BY <1>2 DEF Content
<1>3. CASE d \notin DOMAIN x.groups /\ d \in DOMAIN gs /\ gs[d] = <<>>
  <2>1. Chunked(gs, t, d, m) = <<>>
    BY <1>3 DEF Chunked
  <2>2. Joined(<<>>) = <<>>
    <3>1. <<>> \in Seq(Seq(Points))
      OBVIOUS
    <3> QED BY <3>1, JoinedTyped
  <2>3. Content(gs, t, d, m) = Joined(Chunked(gs, t, d, m))
    BY <1>3 DEF Content, Chunked
  <2> QED BY <1>3, <2>1, <2>2, <2>3 DEF Content
<1> QED BY <1>1, <1>2, <1>3

(* A chunk that is written adds its points to its series and to no other.      *)
Gained(x, y, d, name, g, e, m) ==
    Content(y.groups, y.stream, e, m) =
        IF e = d /\ m = name THEN Content(x.groups, x.stream, e, m) \o g
                             ELSE Content(x.groups, x.stream, e, m)

LEMMA ContentGrew ==
    ASSUME NEW x, NEW y, NEW ds, IOFine(x, ds), IOFine(y, ds), NEW d \in DOMAIN x.groups,
           NEW name, NEW g \in Seq(Points), Grew(x, y, d, name, g), NEW e, NEW m
    PROVE  Gained(x, y, d, name, g, e, m)
<1> SUFFICES Content(y.groups, y.stream, e, m) =
                IF e = d /\ m = name THEN Content(x.groups, x.stream, e, m) \o g
                                     ELSE Content(x.groups, x.stream, e, m)
  BY DEF Gained
<1>1. PICK region, entry :
        /\ y.stream = Append(x.stream, region)
        /\ y.groups = [x.groups EXCEPT ![d] = Append(@, entry)]
        /\ region.kind = "chunk" /\ region.off = StreamEnd(x.stream)
        /\ region.len \in Nat \ {0} /\ region.name = name
        /\ ReadChunk(region.pages) = g
        /\ entry \in Meta /\ entry.off = region.off /\ entry.name = name
  BY DEF Grew
<1>2. /\ Regions(x.stream) /\ Regions(y.stream) /\ IsSeq(x.stream)
      /\ Len(x.stream) \in Nat \ {0}
      /\ x.groups \in [DOMAIN x.groups -> Seq(Meta)]
  BY DEF IOFine, Regions
<1>3. /\ Len(y.stream) = Len(x.stream) + 1
      /\ y.stream[Len(x.stream) + 1] = region
      /\ \A k \in 1..Len(x.stream) : y.stream[k] = x.stream[k]
  BY <1>1, <1>2, AppendAny
<1>4. Longer(x.stream, y.stream)
  BY <1>2, <1>3 DEF Longer
<1>5. CASE e # d
  <2>1. e \in DOMAIN x.groups => e \in DOMAIN y.groups /\ y.groups[e] = x.groups[e]
    BY <1>1, <1>2, <1>5
  <2>2. e \notin DOMAIN x.groups => e \notin DOMAIN y.groups
    BY <1>1
  <2>3. Content(y.groups, y.stream, e, m) = Content(x.groups, x.stream, e, m)
    BY <1>2, <1>4, <2>1, <2>2, ContentKept
  <2> QED BY <1>5, <2>3
<1>6. CASE e = d
  <2> DEFINE new == IF name = m THEN g ELSE <<>>
             old == Chunked(x.groups, x.stream, d, m)
  <2>1. old \in Seq(Seq(Points)) /\ Len(old) = Len(x.groups[d]) /\ Len(x.groups[d]) \in Nat
    BY ChunkedTyped
  <2>2. new \in Seq(Points)
    OBVIOUS
  <2>3. PICK n \in Nat : n = Len(x.groups[d])
    BY <2>1
  <2>4. /\ d \in DOMAIN y.groups /\ Len(y.groups[d]) = n + 1
        /\ y.groups[d][n + 1] = entry
        /\ \A i \in 1..n : y.groups[d][i] = x.groups[d][i]
    <3>1. x.groups[d] \in Seq(Meta)
      BY <1>2
    <3>2. d \in DOMAIN y.groups /\ y.groups[d] = Append(x.groups[d], entry)
      BY <1>1, <1>2
    <3> QED BY <1>1, <2>3, <3>1, <3>2, AppendProperties
  <2>5. ChunkContent(y.stream, entry) = g
    <3>1. Len(x.stream) + 1 \in 1..Len(y.stream)
      BY <1>2, <1>3
    <3>2. RegionAt(y.stream, region.off) = region
      BY <1>2, <1>3, <3>1, RegionAtIs
    <3> QED BY <1>1, <3>2 DEF ChunkContent
  <2>6. \A i \in 1..n :
           ChunkContent(y.stream, x.groups[d][i]) = ChunkContent(x.stream, x.groups[d][i])
    BY <1>2, <1>4, <2>3, SameChunk
  <2>7. Chunked(y.groups, y.stream, d, m) = Append(old, new)
    <3> DEFINE more == Chunked(y.groups, y.stream, d, m)
    <3>1. more \in Seq(Seq(Points)) /\ Len(more) = n + 1
      BY <2>4, ChunkedTyped
    <3>2. /\ Append(old, new) \in Seq(Seq(Points)) /\ Len(Append(old, new)) = n + 1
          /\ Append(old, new)[n + 1] = new
          /\ \A i \in 1..n : Append(old, new)[i] = old[i]
      BY <2>1, <2>2, <2>3, AppendProperties
    <3>3. \A i \in 1..n : more[i] = old[i]
      BY <2>3, <2>4, <2>6 DEF Chunked
    <3>4. more[n + 1] = new
      BY <1>1, <2>4, <2>5 DEF Chunked
    <3>5. \A i \in 1..(n + 1) : i \in 1..n \/ i = n + 1
      OBVIOUS
    <3> HIDE DEF more, old, new
    <3>6. \A i \in 1..(n + 1) : more[i] = Append(old, new)[i]
      BY <3>2, <3>3, <3>4, <3>5
    <3>7. more = Append(old, new)
      BY <3>1, <3>2, <3>6, SameSequence
    <3> QED BY <3>7 DEF more
  <2>8. Joined(Append(old, new)) = Joined(old) \o new /\ Joined(old) \in Seq(Points)
    BY <2>1, <2>2, JoinedAppend, JoinedTyped
  <2>9. /\ Content(y.groups, y.stream, d, m) = Joined(Chunked(y.groups, y.stream, d, m))
        /\ Content(x.groups, x.stream, d, m) = Joined(old)
    BY <2>4 DEF Content, Chunked
  <2>10. Content(y.groups, y.stream, d, m) = Content(x.groups, x.stream, d, m) \o new
    BY <2>7, <2>8, <2>9
  <2>11. CASE m = name
    BY <1>6, <2>10, <2>11
  <2>12. CASE m # name
    <3>1. new = <<>>
      BY <2>12
    <3>2. Content(x.groups, x.stream, d, m) \in Seq(Points)
      BY <2>8, <2>9
    <3> HIDE DEF new
    <3>3. Content(x.groups, x.stream, d, m) \o <<>> = Content(x.groups, x.stream, d, m)
      BY <3>2
    <3> QED BY <1>6, <2>10, <2>12, <3>1, <3>3
  <2> QED BY <2>11, <2>12
<1> QED BY <1>5, <1>6

================================================================================
