--------------------------- MODULE ChunkWriter_proofs ---------------------------
(* For every page size, every page cut and every interleaving of calls: the    *)
(* pages of a chunk writer hold exactly the points it was given; what their    *)
(* headers say of them, and their sizes; and that the writer implements the    *)
(* append-only series.                                                         *)
EXTENDS ChunkWriter, WriterOps_proofs

-------------------------------------------------------------------------------
(* The inductive invariant: the type invariant; what the sealed pages hold; what *)
(* the open page and the running batch hold; and that a call in progress is the  *)
(* only owner of a batch.                                                        *)
Waiting == IF batch.matches THEN batch.acc ELSE <<>>

IInv ==
    /\ TypeOK
    /\ Good(cw, cuts, given)
    /\ RestHolds(cw, cuts, given, Waiting)
    /\ HasExtremes(batch.acc)
    /\ status # "batch" => batch = NoBatch

LEMMA RowsAreRows == \A row \in Rows : IsRow(row)
<1> SUFFICES ASSUME NEW row \in Rows, ~row.null PROVE row.p \in Points
  BY DEF IsRow
<1>1. CASE row \in [p : Points, null : {FALSE}]
  BY <1>1
<1>2. CASE row \in [p : {NullCell}, null : {TRUE}]
  BY <1>2
<1> QED BY <1>1, <1>2 DEF Rows

(* CutsAfter names the cuts of After.                                          *)
LEMMA CutsAfterIs ==
    ASSUME NEW r, NEW g
    PROVE  CutsAfter(r, g) = After(cw, cuts, r, g)
  BY DEF CutsAfter, After

(* Between calls nothing waits but the open page.                              *)
LEMMA IdleWaiting ==
    ASSUME batch = NoBatch
    PROVE  Waiting = <<>> /\ batch.acc = <<>> /\ batch.matches = TRUE
  BY DEF Waiting, NoBatch

(* The type invariant of the batch and of the cuts follow from the rest.       *)
LEMMA TypeFromGood ==
    ASSUME Good(cw, cuts, given),
           status \in {"idle", "batch", "panicked"},
           batch \in [rows : Seq(Rows), next : Nat \ {0}, acc : Seq(Points), matches : BOOLEAN],
           chunk \in Seq(Page)
    PROVE  TypeOK
  BY DEF TypeOK, Good

LEMMA NoBatchType ==
    NoBatch \in [rows : Seq(Rows), next : Nat \ {0}, acc : Seq(Points), matches : BOOLEAN]
<1>1. <<>> \in Seq(Rows) /\ <<>> \in Seq(Points)
  OBVIOUS
<1> QED BY <1>1 DEF NoBatch

(* A new writer has empty vectors and no page.                                 *)
LEMMA InitIInv == Init => IInv
<1> SUFFICES ASSUME Init PROVE IInv
  OBVIOUS
<1>1. PICK name \in Measurements, encodes \in BOOLEAN : cw = NewChunkWriter(name, encodes)
  BY DEF Init
<1>2. status = "idle" /\ batch = NoBatch /\ chunk = <<>> /\ given = <<>> /\ cuts = <<0>>
  BY DEF Init
<1>3. /\ cw.pages = <<>> /\ cw.times = <<>> /\ cw.vals = <<>>
      /\ cw.stat = EmptyStat /\ cw.size = 0
  BY <1>1 DEF NewChunkWriter
<1>4. cw \in Writer
  <2>1. EmptyStat \in Stat
    BY SizeAssumption DEF EmptyStat, Stat, Stamps
  <2>2. <<>> \in Seq(Page) /\ <<>> \in Seq(Times) /\ <<>> \in Seq(Values)
    OBVIOUS
  <2> QED BY <1>1, <2>1, <2>2 DEF NewChunkWriter, Writer
<1>5. Good(cw, cuts, given)
  BY <1>2, <1>3, <1>4 DEF Good, PagesHold
<1>6. RestHolds(cw, cuts, given, <<>>)
  BY <1>2, <1>3 DEF RestHolds
<1>7. TypeOK
  <2>1. chunk \in Seq(Page)
    BY <1>2
  <2> QED BY <1>2, <1>5, <2>1, NoBatchType, TypeFromGood
<1> QED BY <1>2, <1>5, <1>6, <1>7, IdleWaiting, NoExtremes DEF IInv

LEMMA NextIInv == IInv /\ [Next]_vars => IInv'
<1> SUFFICES ASSUME IInv, [Next]_vars PROVE IInv'
  OBVIOUS
<1>1. /\ Good(cw, cuts, given) /\ RestHolds(cw, cuts, given, Waiting)
      /\ HasExtremes(batch.acc) /\ (status # "batch" => batch = NoBatch)
      /\ status \in {"idle", "batch", "panicked"}
      /\ batch \in [rows : Seq(Rows), next : Nat \ {0}, acc : Seq(Points), matches : BOOLEAN]
      /\ chunk \in Seq(Page)
  BY DEF IInv, TypeOK
<1>2. ASSUME batch' = NoBatch, chunk' \in Seq(Page), status' \in {"idle", "panicked"},
             Good(cw, cuts, given)', RestHolds(cw', cuts', given', <<>>)
      PROVE  IInv'
  <2>1. Waiting' = <<>> /\ HasExtremes(batch.acc)'
    BY <1>2, NoExtremes DEF Waiting, NoBatch
  <2>2. TypeOK'
    BY <1>2, NoBatchType DEF TypeOK, Good
  <2> QED BY <1>2, <2>1, <2>2 DEF IInv
<1>3. ASSUME NEW p \in Points, WriteMatching(p) PROVE IInv'
  <2> DEFINE r == WriteValue(cw, p, TRUE)
             h == IF r.out = "ok" THEN Append(given, p) ELSE given
  <2>1. /\ status = "idle" /\ batch' = batch /\ chunk' = chunk
        /\ cw' = r.cw /\ given' = h /\ cuts' = CutsAfter(r.cw, given)
        /\ status' = IF r.out = "panic" THEN "panicked" ELSE "idle"
    BY <1>3, Zenon DEF WriteMatching
  <2>2. batch = NoBatch /\ RestHolds(cw, cuts, given, <<>>)
    BY <1>1, <2>1, IdleWaiting
  <2>3. LET d == After(cw, cuts, r.cw, given)
        IN  Good(r.cw, d, h) /\ RestHolds(r.cw, d, h, <<>>)
    BY <1>1, <2>2, WriteMatchingKeeps, Zenon
  <2> HIDE DEF r, h
  <2>4. Good(cw, cuts, given)' /\ RestHolds(cw', cuts', given', <<>>)
    BY <2>1, <2>3, CutsAfterIs
  <2> QED BY <1>1, <1>2, <2>1, <2>2, <2>4
<1>4. ASSUME NEW p \in Points, WriteMismatched(p) PROVE IInv'
  <2> DEFINE r == WriteValue(cw, p, FALSE)
  <2>1. /\ status = "idle" /\ batch' = batch /\ chunk' = chunk
        /\ cw' = r.cw /\ given' = given /\ cuts' = CutsAfter(r.cw, given)
        /\ status' = IF r.out = "panic" THEN "panicked" ELSE "idle"
    BY <1>4, Zenon DEF WriteMismatched
  <2>2. batch = NoBatch /\ RestHolds(cw, cuts, given, <<>>)
    BY <1>1, <2>1, IdleWaiting
  <2>3. LET d == After(cw, cuts, r.cw, given)
        IN  Good(r.cw, d, given) /\ RestHolds(r.cw, d, given, <<>>)
    BY <1>1, <2>2, WriteMismatchedKeeps, Zenon
  <2> HIDE DEF r
  <2>4. Good(cw, cuts, given)' /\ RestHolds(cw', cuts', given', <<>>)
    BY <2>1, <2>3, CutsAfterIs
  <2> QED BY <1>1, <1>2, <2>1, <2>2, <2>4
<1>5. ASSUME NEW n \in 1..MaxBatch, NEW matches \in BOOLEAN, NEW rows \in [1..n -> Rows],
             StartBatch(rows, matches)
      PROVE  IInv'
  <2>1. /\ status = "idle" /\ status' = "batch"
        /\ batch' = [rows |-> rows, next |-> 1, acc |-> <<>>, matches |-> matches]
        /\ cw' = cw /\ chunk' = chunk /\ given' = given /\ cuts' = cuts
    BY <1>5 DEF StartBatch
  <2>2. rows \in Seq(Rows)
    OBVIOUS
  <2>3. batch'.acc = <<>> /\ Waiting' = <<>>
    BY <2>1 DEF Waiting
  <2>4. RestHolds(cw, cuts, given, <<>>)
    BY <1>1, <2>1, IdleWaiting
  <2>5. TypeOK'
    <3>1. <<>> \in Seq(Points)
      OBVIOUS
    <3>2. batch' \in [rows : Seq(Rows), next : Nat \ {0}, acc : Seq(Points), matches : BOOLEAN]
      BY <2>1, <2>2, <3>1
    <3> QED BY <1>1, <2>1, <3>2 DEF TypeOK, Good
  <2> QED BY <1>1, <2>1, <2>3, <2>4, <2>5, NoExtremes DEF IInv
<1>6. ASSUME NextRow PROVE IInv'
  <2> DEFINE row == batch.rows[batch.next]
             r == BatchRow(cw, batch.acc, row, batch.matches)
             rest == IF batch.matches /\ r.out = "ok" THEN r.acc ELSE <<>>
  <2>1. /\ status = "batch" /\ batch.next <= Len(batch.rows) /\ chunk' = chunk
        /\ cw' = r.cw
        /\ given' = IF batch.matches /\ ~row.null THEN Append(given, row.p) ELSE given
        /\ cuts' = CutsAfter(r.cw, given')
        /\ status' = CASE r.out = "ok"    -> "batch"
                       [] r.out = "err"   -> "idle"
                       [] r.out = "panic" -> "panicked"
        /\ batch' = IF r.out = "ok" THEN [batch EXCEPT !.next = @ + 1, !.acc = r.acc]
                                    ELSE NoBatch
    BY <1>6, Zenon DEF NextRow
  <2>2. row \in Rows /\ batch.acc \in Seq(Points) /\ batch.next \in Nat \ {0}
    BY <1>1, <2>1
  <2>3. /\ Good(r.cw, After(cw, cuts, r.cw, given'), given')
        /\ RestHolds(r.cw, After(cw, cuts, r.cw, given'), given', rest)
        /\ r.acc \in Seq(Points) /\ HasExtremes(r.acc) /\ r.out \in Outs
    <3>1. CASE batch.matches = TRUE
      <4>1. Waiting = batch.acc
        BY <3>1 DEF Waiting
      <4>2. given' = IF row.null THEN given ELSE Append(given, row.p)
        BY <2>1, <3>1
      <4> HIDE DEF row
      <4> QED BY <1>1, <2>2, <3>1, <4>1, <4>2, RowMatchingKeeps, RowsAreRows, Zenon
    <3>2. CASE batch.matches = FALSE
      <4>1. Waiting = <<>>
        BY <3>2 DEF Waiting
      <4>2. given' = given
        BY <2>1, <3>2
      <4> HIDE DEF row
      <4> QED BY <1>1, <2>2, <3>2, <4>1, <4>2, RowMismatchedKeeps, RowsAreRows, Zenon
    <3> QED BY <1>1, <3>1, <3>2
  <2> HIDE DEF row, r
  <2>4. Good(cw, cuts, given)' /\ RestHolds(cw', cuts', given', rest)
    BY <2>1, <2>3, CutsAfterIs
  <2>5. CASE r.out = "ok"
    <3>1. status' = "batch" /\ batch' = [batch EXCEPT !.next = @ + 1, !.acc = r.acc]
      BY <2>1, <2>5
    <3>2. /\ batch'.acc = r.acc /\ batch'.matches = batch.matches
          /\ batch' \in [rows : Seq(Rows), next : Nat \ {0}, acc : Seq(Points), matches : BOOLEAN]
      <4>1. batch.next + 1 \in Nat \ {0}
        BY <2>2
      <4> QED BY <1>1, <2>3, <3>1, <4>1
    <3>3. Waiting' = rest
      BY <2>5, <3>2 DEF Waiting
    <3>4. TypeOK'
      BY <1>1, <2>1, <2>4, <3>1, <3>2 DEF TypeOK, Good
    <3> QED BY <2>3, <2>4, <3>1, <3>2, <3>3, <3>4 DEF IInv
  <2>6. CASE r.out # "ok"
    <3>1. status' \in {"idle", "panicked"} /\ batch' = NoBatch /\ rest = <<>>
      BY <2>1, <2>3, <2>6 DEF Outs
    <3> QED BY <1>1, <1>2, <2>1, <2>4, <3>1
  <2> QED BY <2>5, <2>6
<1>7. ASSUME EndBatch PROVE IInv'
  <2> DEFINE r == BatchEnd(cw, batch.acc, batch.matches)
  <2>1. /\ status = "batch" /\ cw' = r.cw /\ status' = "idle" /\ batch' = NoBatch
        /\ chunk' = chunk /\ given' = given /\ cuts' = cuts
    BY <1>7, Zenon DEF EndBatch
  <2>2. batch.acc \in Seq(Points) /\ batch.matches \in BOOLEAN
    BY <1>1
  <2>3. Good(r.cw, cuts, given) /\ RestHolds(r.cw, cuts, given, <<>>)
    <3>1. CASE batch.acc = <<>>
      <4>1. r.cw = cw
        BY <3>1 DEF BatchEnd, Outcome
      <4>2. Waiting = <<>>
        BY <3>1 DEF Waiting
      <4> HIDE DEF r
      <4> QED BY <1>1, <4>1, <4>2
    <3>2. CASE batch.acc # <<>> /\ batch.matches = TRUE
      <4>1. r = AppendTyped(cw, batch.acc)
        BY <3>2, Zenon DEF BatchEnd, AppendTyped
      <4>2. Waiting = batch.acc
        BY <3>2 DEF Waiting
      <4> HIDE DEF r
      <4> QED BY <1>1, <2>2, <4>1, <4>2, AppendMatching
    <3>3. CASE batch.acc # <<>> /\ batch.matches = FALSE
      <4>1. r = AppendBatch(cw, batch.acc, FALSE)
        BY <3>3, Zenon DEF BatchEnd
      <4>2. Waiting = <<>>
        BY <3>3 DEF Waiting
      <4> HIDE DEF r
      <4> QED BY <1>1, <2>2, <3>3, <4>1, <4>2, AppendMismatched, Zenon
    <3> QED BY <2>2, <3>1, <3>2, <3>3
  <2> HIDE DEF r
  <2>4. Good(cw, cuts, given)' /\ RestHolds(cw', cuts', given', <<>>)
    BY <2>1, <2>3
  <2> QED BY <1>1, <1>2, <2>1, <2>4
<1>8. ASSUME Serialize PROVE IInv'
  <2> DEFINE s == SealCurrentPage(cw)
             r == SerializeTo(cw)
  <2>1. /\ status = "idle" /\ cw' = r.cw /\ batch' = batch /\ given' = given
        /\ status' = IF r.out = "panic" THEN "panicked" ELSE "idle"
        /\ chunk' = IF r.out = "ok" THEN r.cw.pages ELSE chunk
        /\ cuts' = CutsAfter(r.cw, given)
    BY <1>8, Zenon DEF Serialize
  <2>2. batch = NoBatch /\ RestHolds(cw, cuts, given, <<>>)
    BY <1>1, <2>1, IdleWaiting
  <2>3. r.cw = s.cw
    BY Zenon DEF SerializeTo, Outcome
  <2>4. LET d == After(cw, cuts, s.cw, given)
        IN  Good(s.cw, d, given) /\ RestHolds(s.cw, d, given, <<>>)
    BY <1>1, <2>2, SealKeeps
  <2> HIDE DEF r, s
  <2>5. Good(cw, cuts, given)' /\ RestHolds(cw', cuts', given', <<>>)
    BY <2>1, <2>3, <2>4, CutsAfterIs
  <2>6. chunk' \in Seq(Page)
    BY <1>1, <2>1, <2>5 DEF Good, Writer
  <2> QED BY <1>2, <2>1, <2>2, <2>5, <2>6
<1>9. ASSUME UNCHANGED vars PROVE IInv'
  <2>1. /\ cw' = cw /\ status' = status /\ batch' = batch /\ chunk' = chunk
        /\ given' = given /\ cuts' = cuts
    BY <1>9 DEF vars
  <2> QED BY <1>1, <2>1 DEF IInv, TypeOK, Good, Waiting
<1> QED BY <1>3, <1>4, <1>5, <1>6, <1>7, <1>8, <1>9 DEF Next

(* The inductive invariant holds throughout.                                   *)
THEOREM SpecIInv == Spec => []IInv
  BY InitIInv, NextIInv, PTL DEF Spec

(* Type correctness: the open page never has more values than timestamps, and  *)
(* the cuts count the pages (the two vectors of PageWriter, whatever call      *)
(* failed).                                                                    *)
THEOREM SpecTypeOK == Spec => []TypeOK
<1>1. IInv => TypeOK
  BY DEF IInv
<1> QED BY <1>1, SpecIInv, PTL

(* No point is lost, repeated, reordered or paired with another point's value  *)
(* on its way into a page, for every page limit and every cut into mini-blocks.*)
THEOREM SpecPagesHoldGiven == Spec => []PagesHoldGiven
<1>1. IInv => PagesHoldGiven
  BY DEF IInv, Good, PagesHoldGiven
<1> QED BY <1>1, SpecIInv, PTL

(* The points that are in no page yet are, in order, those of the open page    *)
(* and of the temporary vector of the running batch.                           *)
THEOREM SpecOpenPageHoldsRest == Spec => []OpenPageHoldsRest
<1>1. IInv => OpenPageHoldsRest
  BY DEF IInv, Waiting, OpenPageHoldsRest
<1> QED BY <1>1, SpecIInv, PTL
(* finish panics only on a page that a refused, mismatched write left with a   *)
(* timestamp too many (create_miniblock's slices), for every page limit and    *)
(* every cut into mini-blocks.                                                 *)
THEOREM SpecPanicNeedsMismatch == Spec => []PanicNeedsMismatch
<1>1. Init => PanicNeedsMismatch
  BY DEF Init, PanicNeedsMismatch
<1>2. IInv /\ PanicNeedsMismatch /\ [Next]_vars => PanicNeedsMismatch'
  <2> SUFFICES ASSUME IInv, PanicNeedsMismatch, [Next]_vars, status' = "panicked"
               PROVE  Ghosts' > 0
    BY DEF PanicNeedsMismatch
  <2>1. /\ Good(cw, cuts, given) /\ RestHolds(cw, cuts, given, Waiting)
        /\ HasExtremes(batch.acc) /\ (status # "batch" => batch = NoBatch)
        /\ batch \in [rows : Seq(Rows), next : Nat \ {0}, acc : Seq(Points), matches : BOOLEAN]
    BY DEF IInv, TypeOK
  <2>2. cw' \in Writer
    BY NextIInv DEF IInv, TypeOK
  <2>3. ASSUME Len(cw'.vals) < Len(cw'.times) PROVE Ghosts' > 0
    <3>1. Len(cw'.vals) \in Nat /\ Len(cw'.times) \in Nat
      BY <2>2 DEF Writer
    <3>2. Ghosts' = Len(cw'.times) - Len(cw'.vals)
      BY DEF Ghosts
    <3>3. \A a, b \in Nat : a < b => b - a > 0
      OBVIOUS
    <3> QED BY <2>3, <3>1, <3>2, <3>3, Zenon
  <2>4. ASSUME NEW p \in Points, WriteMatching(p) PROVE Len(cw'.vals) < Len(cw'.times)
    <3> DEFINE r == WriteValue(cw, p, TRUE)
    <3>1. cw' = r.cw /\ status' = IF r.out = "panic" THEN "panicked" ELSE "idle"
      BY <2>4, Zenon DEF WriteMatching
    <3>2. r.out = "panic" => Len(r.cw.vals) < Len(r.cw.times)
      BY <2>1, WritePanics, Zenon
    <3> HIDE DEF r
    <3> QED BY <3>1, <3>2
  <2>5. ASSUME NEW p \in Points, WriteMismatched(p) PROVE Len(cw'.vals) < Len(cw'.times)
    <3> DEFINE r == WriteValue(cw, p, FALSE)
    <3>1. cw' = r.cw /\ status' = IF r.out = "panic" THEN "panicked" ELSE "idle"
      BY <2>5, Zenon DEF WriteMismatched
    <3>2. r.out = "panic" => Len(r.cw.vals) < Len(r.cw.times)
      BY <2>1, WritePanics, Zenon
    <3> HIDE DEF r
    <3> QED BY <3>1, <3>2
  <2>6. ASSUME NEW rows, NEW matches, StartBatch(rows, matches) PROVE FALSE
    BY <2>6 DEF StartBatch
  <2>7. ASSUME NextRow PROVE Len(cw'.vals) < Len(cw'.times)
    <3> DEFINE row == batch.rows[batch.next]
               r == BatchRow(cw, batch.acc, row, batch.matches)
    <3>1. /\ batch.next <= Len(batch.rows) /\ cw' = r.cw
          /\ status' = CASE r.out = "ok"    -> "batch"
                         [] r.out = "err"   -> "idle"
                         [] r.out = "panic" -> "panicked"
      BY <2>7, Zenon DEF NextRow
    <3>2. row \in Rows /\ batch.acc \in Seq(Points)
      BY <2>1, <3>1
    <3>3. r.out \in Outs
      <4> HIDE DEF row
      <4>1. CASE batch.matches = TRUE
        <5>1. Waiting = batch.acc
          BY <4>1 DEF Waiting
        <5> QED BY <2>1, <3>2, <4>1, <5>1, RowMatchingKeeps, RowsAreRows, Zenon
      <4>2. CASE batch.matches = FALSE
        <5>1. Waiting = <<>>
          BY <4>2 DEF Waiting
        <5> QED BY <2>1, <3>2, <4>2, <5>1, RowMismatchedKeeps, RowsAreRows, Zenon
      <4> QED BY <2>1, <4>1, <4>2
    <3>4. r.out = "panic"
      <4> HIDE DEF r
      <4> QED BY <3>1, <3>3 DEF Outs
    <3>5. batch.matches = TRUE
      <4> HIDE DEF row
      <4>1. batch.matches # FALSE
        BY <3>4, RowMismatchedReturns, Zenon
      <4> HIDE DEF r
      <4> QED BY <2>1, <4>1
    <3>6. Waiting = batch.acc
      <4> HIDE DEF r
      <4> QED BY <3>5 DEF Waiting
    <3>7. Len(r.cw.vals) < Len(r.cw.times)
      <4> HIDE DEF row
      <4> QED BY <2>1, <3>2, <3>4, <3>5, <3>6, RowMatchingPanics, RowsAreRows, Zenon
             DEF RowTyped
    <3> HIDE DEF r
    <3> QED BY <3>1, <3>7
  <2>8. ASSUME EndBatch PROVE FALSE
    <3>1. status' = "idle"
      BY <2>8, Zenon DEF EndBatch
    <3> QED BY <3>1
  <2>9. ASSUME Serialize PROVE Len(cw'.vals) < Len(cw'.times)
    <3> DEFINE s == SealCurrentPage(cw)
               r == SerializeTo(cw)
    <3>1. cw' = r.cw /\ status' = IF r.out = "panic" THEN "panicked" ELSE "idle"
      BY <2>9, Zenon DEF Serialize
    <3>2. r.out = "panic" => r = s
      <4>1. \A y : Outcome(y, "err").out # "panic"
        BY DEF Outcome
      <4> QED BY <4>1, Zenon DEF SerializeTo
    <3>3. s.out = "panic" => Len(s.cw.vals) < Len(s.cw.times)
      BY <2>1, SealPanics, Zenon
    <3> HIDE DEF r, s
    <3> QED BY <3>1, <3>2, <3>3
  <2>10. ASSUME UNCHANGED vars PROVE Ghosts' > 0
    <3>1. cw' = cw /\ status' = status
      BY <2>10 DEF vars
    <3> QED BY <3>1 DEF PanicNeedsMismatch, Ghosts
  <2> QED BY <2>3, <2>4, <2>5, <2>6, <2>7, <2>8, <2>9, <2>10, Zenon DEF Next
<1> QED BY <1>1, <1>2, SpecIInv, PTL DEF Spec

-------------------------------------------------------------------------------
(* The first page begins at the first point given, whatever is cut later.      *)
RInv == IInv /\ cuts[1] = 0

CutsGrow(h) == cuts' = cuts \/ cuts' = Append(cuts, Len(h))

LEMMA NextCuts ==
    ASSUME IInv, [Next]_vars
    PROVE  /\ \/ given' = given
              \/ \E p \in Points : given' = Append(given, p)
           /\ CutsGrow(given) \/ CutsGrow(given')
           /\ chunk' = chunk \/ Serialize
<1>1. ASSUME NEW r, NEW g PROVE CutsAfter(r, g) = cuts \/ CutsAfter(r, g) = Append(cuts, Len(g))
  BY DEF CutsAfter
<1>2. ASSUME NEW p \in Points, WriteMatching(p) PROVE
          /\ given' = given \/ given' = Append(given, p)
          /\ CutsGrow(given) /\ chunk' = chunk
  <2>1. /\ given' = given \/ given' = Append(given, p)
        /\ cuts' = CutsAfter(WriteValue(cw, p, TRUE).cw, given) /\ chunk' = chunk
    BY <1>2, Zenon DEF WriteMatching
  <2> QED BY <1>1, <2>1, Zenon DEF CutsGrow
<1>3. ASSUME NEW p \in Points, WriteMismatched(p) PROVE
          given' = given /\ CutsGrow(given) /\ chunk' = chunk
  <2>1. /\ given' = given
        /\ cuts' = CutsAfter(WriteValue(cw, p, FALSE).cw, given) /\ chunk' = chunk
    BY <1>3, Zenon DEF WriteMismatched
  <2> QED BY <1>1, <2>1, Zenon DEF CutsGrow
<1>4. ASSUME NEW rows, NEW matches, StartBatch(rows, matches) PROVE
          given' = given /\ CutsGrow(given) /\ chunk' = chunk
  BY <1>4 DEF StartBatch, CutsGrow
<1>5. ASSUME NextRow PROVE
          /\ given' = given \/ \E p \in Points : given' = Append(given, p)
          /\ CutsGrow(given') /\ chunk' = chunk
  <2> DEFINE row == batch.rows[batch.next]
             r == BatchRow(cw, batch.acc, row, batch.matches)
  <2>1. /\ given' = IF batch.matches /\ ~row.null THEN Append(given, row.p) ELSE given
        /\ cuts' = CutsAfter(r.cw, given') /\ chunk' = chunk
        /\ batch.next <= Len(batch.rows)
    BY <1>5, Zenon DEF NextRow
  <2>2. row \in Rows
    BY <2>1 DEF IInv, TypeOK
  <2>3. ~row.null => row.p \in Points
    BY <2>2, RowPoint, RowsAreRows
  <2> HIDE DEF row, r
  <2> QED BY <1>1, <2>1, <2>3, Zenon DEF CutsGrow
<1>6. ASSUME EndBatch PROVE given' = given /\ CutsGrow(given) /\ chunk' = chunk
  BY <1>6, Zenon DEF EndBatch, CutsGrow
<1>7. ASSUME Serialize PROVE given' = given /\ CutsGrow(given)
  <2>1. given' = given /\ cuts' = CutsAfter(SerializeTo(cw).cw, given)
    BY <1>7, Zenon DEF Serialize
  <2> QED BY <1>1, <2>1, Zenon DEF CutsGrow
<1>8. ASSUME UNCHANGED vars PROVE given' = given /\ CutsGrow(given) /\ chunk' = chunk
  BY <1>8 DEF vars, CutsGrow
<1> QED BY <1>2, <1>3, <1>4, <1>5, <1>6, <1>7, <1>8, Zenon DEF Next

LEMMA InitRInv == Init => RInv
  BY InitIInv DEF RInv, Init

LEMMA NextRInv == RInv /\ [Next]_vars => RInv'
<1> SUFFICES ASSUME RInv, [Next]_vars PROVE cuts'[1] = 0
  BY NextIInv DEF RInv
<1>1. cuts[1] = 0 /\ IInv
  BY DEF RInv
<1>2. cuts \in Seq(Nat) /\ Len(cuts) = Len(cw.pages) + 1 /\ Len(cw.pages) \in Nat
  BY <1>1 DEF IInv, Good, Writer
<1>3. CutsGrow(given) \/ CutsGrow(given')
  BY <1>1, NextCuts
<1>4. \A x : Append(cuts, x)[1] = cuts[1]
  BY <1>2
<1> QED BY <1>1, <1>3, <1>4 DEF CutsGrow

(* serialize_to leaves no point in the open page, or refuses.                  *)
LEMMA SerializeStoresAll ==
    ASSUME RInv, Serialize
    PROVE  \/ chunk' = chunk
           \/ /\ chunk' = cw'.pages /\ cw'.pages # <<>>
              /\ given' = given /\ cuts'[Len(cuts')] = Len(given')
<1> DEFINE s == SealCurrentPage(cw)
           r == SerializeTo(cw)
<1>1. /\ status = "idle" /\ cw' = r.cw /\ batch' = batch /\ given' = given
      /\ chunk' = IF r.out = "ok" THEN r.cw.pages ELSE chunk
  BY Zenon DEF Serialize
<1>2. Good(cw, cuts, given) /\ batch = NoBatch
  BY <1>1 DEF RInv, IInv
<1>3. CASE r.out # "ok"
  <2> HIDE DEF r
  <2> QED BY <1>1, <1>3
<1>4. CASE r.out = "ok"
  <2>1. r = s /\ s.out = "ok" /\ s.cw.pages # <<>>
    <3>1. \A x : Outcome(x, "err").out # "ok"
      BY DEF Outcome
    <3>2. r = IF s.out = "ok" /\ s.cw.pages = <<>> THEN Outcome(s.cw, "err") ELSE s
      BY Zenon DEF SerializeTo
    <3> HIDE DEF r, s
    <3> QED BY <1>4, <3>1, <3>2
  <2>2. s.cw.vals = <<>>
    <3>1. cw \in Writer /\ Len(cw.vals) <= Len(cw.times)
      BY <1>2 DEF Good
    <3>2. CASE Len(cw.times) = 0
      <4>1. s = Outcome(cw, "ok")
        BY <3>2, Zenon DEF SealCurrentPage
      <4>2. cw.vals \in Seq(Values) /\ Len(cw.vals) = 0
        BY <3>1, <3>2 DEF Writer
      <4> HIDE DEF s
      <4> QED BY <4>1, <4>2 DEF Outcome
    <3>3. CASE Len(cw.times) # 0
      <4>1. FinishOutcome(cw) = "ok"
        <5>1. FinishOutcome(cw) # "ok" => s = Outcome(cw, FinishOutcome(cw))
          BY <3>3, Zenon DEF SealCurrentPage
        <5>2. Outcome(cw, FinishOutcome(cw)).out = FinishOutcome(cw)
          BY DEF Outcome
        <5> HIDE DEF s
        <5> QED BY <2>1, <5>1, <5>2
      <4>2. s = Outcome(Sealed(cw), "ok")
        BY <3>3, <4>1, Zenon DEF SealCurrentPage, Sealed
      <4>3. Sealed(cw).vals = <<>>
        BY <3>1 DEF Sealed, Writer
      <4> HIDE DEF s
      <4> QED BY <4>2, <4>3 DEF Outcome
    <3> QED BY <3>2, <3>3
  <2> HIDE DEF r, s
  <2>3. chunk' = cw'.pages /\ cw'.pages # <<>> /\ cw'.vals = <<>>
    BY <1>1, <1>4, <2>1, <2>2
  <2>4. IInv'
    BY NextIInv DEF RInv, Next
  <2>5. RestHolds(cw', cuts', given', <<>>)
    BY <1>1, <1>2, <2>4, IdleWaiting DEF IInv, Waiting
  <2>6. cuts'[Len(cuts')] \in Nat
    BY <2>4 DEF IInv, Good, Writer
  <2>7. cuts'[Len(cuts')] = Len(given')
    BY <2>3, <2>5, <2>6 DEF RestHolds
  <2> QED BY <1>1, <2>3, <2>7
<1> QED BY <1>3, <1>4

(* Each step takes a point, seals, publishes or stutters.                      *)
LEMMA LogStep == RInv /\ RInv' /\ [Next]_vars => [Log!Next]_Log!vars
<1> SUFFICES ASSUME RInv, RInv', [Next]_vars PROVE [Log!Next]_Log!vars
  OBVIOUS
<1> DEFINE s == StoredOf(cw)
           t == PendingOf(cuts, given)
           u == ReadChunk(chunk)
<1>1. Good(cw, cuts, given) /\ cuts[1] = 0
  BY DEF RInv, IInv
<1>2. Good(cw', cuts', given') /\ cuts'[1] = 0
  BY DEF RInv, IInv
<1>3. s' = StoredOf(cw') /\ t' = PendingOf(cuts', given') /\ u' = ReadChunk(chunk')
  BY DEF StoredOf, PendingOf, ReadChunk
<1>4. s \in Seq(Points) /\ t \in Seq(Points) /\ s \o t = given
  BY <1>1, StoredAndPending
<1>5. cuts \in Seq(Nat) /\ Len(cuts) \in Nat /\ cuts[Len(cuts)] \in 0..Len(given)
  <2>1. cuts[Len(cuts)] \in 0..Len(given)
    BY <1>1, ReadChunkIs
  <2> QED BY <1>1, <2>1 DEF Good
<1>6. \A x \in Nat : LET d == Append(cuts, x) IN d[Len(d)] = x
  BY <1>5
<1>7. /\ given \in Seq(Points) /\ Len(given) \in Nat
      /\ \A p \in Points : /\ Append(given, p) \in Seq(Points)
                           /\ Len(Append(given, p)) = Len(given) + 1
                           /\ \A k \in 1..Len(given) : Append(given, p)[k] = given[k]
  BY <1>1 DEF Good
<1>8. given' = given \/ \E p \in Points : given' = Append(given, p)
  BY NextCuts DEF RInv
<1>9. CutsGrow(given) \/ CutsGrow(given')
  BY NextCuts DEF RInv
<1>10. chunk' = chunk \/ Serialize
  BY NextCuts DEF RInv
<1>11. Len(given') \in Nat
  BY <1>2 DEF Good
<1>12. ASSUME cuts' = cuts PROVE s' = s
  <2>1. \A k \in 1..cuts[Len(cuts)] : given'[k] = given[k]
    BY <1>5, <1>7, <1>8
  <2>2. Good(cw', cuts, given')
    BY <1>2, <1>12
  <2> QED BY <1>1, <1>3, <2>1, <2>2, StoredSame
<1>13. ASSUME cuts' = Append(cuts, Len(given')) PROVE s' = given' /\ t' = <<>>
  <2>1. cuts'[Len(cuts')] = Len(given')
    BY <1>6, <1>11, <1>13
  <2> QED BY <1>2, <1>3, <2>1, AllStored
<1>14. Log!vars = <<s, t, u>> /\ Log!vars' = <<s', t', u'>>
  BY DEF Log!vars, StoredOf, PendingOf
<1>15. CASE chunk' = chunk
  <2>1. u' = u
    BY <1>15
  <2>2. CASE given' = given
    <3>1. CASE cuts' = cuts
      <4>1. s' = s /\ t' = t
        BY <1>12, <2>2, <3>1 DEF PendingOf
      <4> QED BY <1>14, <2>1, <4>1
    <3>2. CASE cuts' = Append(cuts, Len(given))
      <4>1. s' = s \o t /\ t' = <<>> /\ u' = u
        BY <1>4, <1>13, <2>1, <2>2, <3>2
      <4> HIDE DEF s, t, u
      <4>2. Log!Seal
        BY <4>1 DEF Log!Seal, s, t, u, StoredOf, PendingOf
      <4> QED BY <4>2 DEF Log!Next
    <3> QED BY <1>9, <2>2, <3>1, <3>2 DEF CutsGrow
  <2>3. ASSUME NEW p \in Points, given' = Append(given, p) PROVE Log!Take(p)
    <3>1. CASE cuts' = cuts
      <4>1. s' = s /\ t' = Append(t, p)
        BY <1>3, <1>5, <1>7, <1>12, <2>3, <3>1, PendingGrows
      <4> QED BY <2>1, <4>1 DEF Log!Take, StoredOf, PendingOf
    <3>2. CASE cuts' = Append(cuts, Len(given))
      <4>1. cuts'[Len(cuts')] = Len(given)
        BY <1>6, <1>7, <3>2
      <4>2. s' = given
        <5>1. /\ StoredOf(cw') \in Seq(Points) /\ Len(StoredOf(cw')) = Len(given)
              /\ \A k \in 1..Len(given) : StoredOf(cw')[k] = given'[k]
          BY <1>2, <4>1, ReadChunkIs DEF StoredOf
        <5>2. \A k \in 1..Len(given) : StoredOf(cw')[k] = given[k]
          BY <1>7, <2>3, <5>1
        <5> QED BY <1>3, <1>7, <5>1, <5>2, SameSequence
      <4>3. t' = <<p>>
        <5>1. PendingOf(cuts', Append(given, p)) = Append(PendingOf(cuts', given), p)
          BY <1>7, <2>3, <4>1, PendingGrows
        <5>2. PendingOf(cuts', given) = <<>>
          BY <1>7, <4>1, SubSeqEmpty DEF PendingOf
        <5>3. Append(<<>>, p) = <<p>>
          OBVIOUS
        <5> QED BY <1>3, <2>3, <5>1, <5>2, <5>3
      <4>4. s' = s \o t
        BY <1>4, <4>2
      <4> QED BY <2>1, <4>3, <4>4 DEF Log!Take, StoredOf, PendingOf
    <3>3. CASE cuts' = Append(cuts, Len(given'))
      <4>1. s' = Append(given, p) /\ t' = <<>>
        BY <1>13, <2>3, <3>3
      <4>2. s \o Append(t, p) = Append(s \o t, p)
        <5> HIDE DEF s, t
        <5> QED BY <1>4, AppendIsConcat, ConcatAssociative
      <4>3. s' = s \o Append(t, p)
        BY <1>4, <4>1, <4>2
      <4> QED BY <2>1, <4>1, <4>3 DEF Log!Take, StoredOf, PendingOf
    <3> QED BY <1>9, <3>1, <3>2, <3>3 DEF CutsGrow
  <2> QED BY <1>8, <2>2, <2>3 DEF Log!Next
<1>16. CASE chunk' # chunk
  <2>1. /\ chunk' = cw'.pages /\ cw'.pages # <<>>
        /\ given' = given /\ cuts'[Len(cuts')] = Len(given')
    BY <1>10, <1>16, SerializeStoresAll
  <2>2. s' = given /\ t' = <<>>
    BY <1>2, <1>3, <2>1, AllStored
  <2>3. u' = s'
    BY <1>3, <2>1 DEF StoredOf
  <2>4. s \o t # <<>>
    <3>1. /\ cuts' \in Seq(Nat) /\ Len(cuts') = Len(cw'.pages) + 1
          /\ \A i \in 1..Len(cuts') : cuts'[i] <= Len(given')
          /\ PagesHold(cw', cuts', given')
      BY <1>2 DEF Good
    <3>2. Len(cw'.pages) \in Nat /\ Len(cw'.pages) > 0
      <4>1. cw'.pages \in Seq(Page)
        BY <1>2 DEF Good, Writer
      <4> QED BY <2>1, <4>1
    <3>3. 1 \in 1..Len(cw'.pages) /\ 1 \in 1..Len(cuts') /\ 2 \in 1..Len(cuts') /\ 1 + 1 = 2
      BY <3>1, <3>2
    <3>4. cw'.pages[1].num = cuts'[2] - cuts'[1] /\ cw'.pages[1].num > 0
      BY <3>1, <3>3 DEF PagesHold, PageHolds
    <3>5. Len(given') > 0
      BY <1>2, <1>11, <3>1, <3>3, <3>4
    <3> QED BY <1>4, <2>1, <3>5
  <2>5. Log!Publish
    <3>1. s' = s \o t
      BY <1>4, <2>2
    <3> QED BY <2>2, <2>3, <2>4, <3>1 DEF Log!Publish, StoredOf, PendingOf
  <2> QED BY <2>5 DEF Log!Next
<1> QED BY <1>15, <1>16

(* The writer implements the append-only series: a point waits in the open     *)
(* page, a seal stores all that wait at the end, in order, serialize_to        *)
(* publishes everything stored, and nothing stored is ever changed.            *)
THEOREM SpecImplementsSeriesLog == Spec => ImplementsSeriesLog
<1>1. Init => Log!Init
  <2> SUFFICES ASSUME Init PROVE Log!Init
    OBVIOUS
  <2>1. Good(cw, cuts, given) /\ cuts = <<0>> /\ given = <<>> /\ chunk = <<>> /\ cw.pages = <<>>
    BY InitIInv DEF Init, IInv, NewChunkWriter
  <2>2. cuts[1] = 0 /\ cuts[Len(cuts)] = Len(given)
    BY <2>1
  <2>3. StoredOf(cw) = <<>> /\ PendingOf(cuts, given) = <<>>
    BY <2>1, <2>2, AllStored
  <2> QED BY <2>1, <2>3 DEF Log!Init, StoredOf, PendingOf
<1> QED BY <1>1, InitRInv, NextRInv, LogStep, PTL DEF Spec, ImplementsSeriesLog, Log!Spec
-------------------------------------------------------------------------------
(* The timestamps of the points of g from place a + 1 to b, and the range they *)
(* span.                                                                       *)
StampsIn(g, a, b) == {g[k].t : k \in (a + 1)..b}

Spans(lo, hi, S) == lo \in S /\ hi \in S /\ \A s \in S : lo <= s /\ s <= hi

(* The least and the greatest member are the minimum and the maximum.          *)
LEMMA SpanIsMinMax ==
    ASSUME NEW S \in SUBSET Int, NEW lo, NEW hi, Spans(lo, hi, S)
    PROVE  lo = Min(S) /\ hi = Max(S)
<1>1. /\ lo \in S /\ hi \in S /\ S \subseteq Int
      /\ \A s \in S : lo <= s /\ s <= hi
  BY DEF Spans
<1>2. Min(S) \in S /\ \A y \in S : Min(S) <= y
  BY <1>1 DEF Min
<1>3. Max(S) \in S /\ \A y \in S : Max(S) >= y
  <2>1. \E x \in S : \A y \in S : x >= y
    BY <1>1
  <2> QED BY <2>1 DEF Max
<1>4. \A x, y \in Int : x <= y /\ y <= x => x = y
  OBVIOUS
<1>5. Min(S) <= lo /\ lo <= Min(S) /\ Min(S) \in Int /\ lo \in Int
  BY <1>1, <1>2
<1>6. Max(S) <= hi /\ hi <= Max(S) /\ Max(S) \in Int /\ hi \in Int
  BY <1>1, <1>3
<1> QED BY <1>4, <1>5, <1>6

(* A range and the range of more stamps span both.                             *)
LEMMA SpanUnion ==
    ASSUME NEW S \in SUBSET Int, NEW T \in SUBSET Int, NEW a, NEW b, NEW c, NEW d,
           Spans(a, b, S), Spans(c, d, T)
    PROVE  Spans(Smaller(c, a), Larger(d, b), S \cup T)
<1>1. a \in S /\ b \in S /\ c \in T /\ d \in T /\ a \in Int /\ b \in Int /\ c \in Int /\ d \in Int
  BY DEF Spans
<1>2. Smaller(c, a) \in S \cup T /\ Larger(d, b) \in S \cup T
  BY <1>1 DEF Smaller, Larger
<1>3. ASSUME NEW s \in S \cup T PROVE Smaller(c, a) <= s /\ s <= Larger(d, b)
  <2>1. CASE s \in S
    <3>1. a <= s /\ s <= b /\ s \in Int
      BY <2>1 DEF Spans
    <3> QED BY <1>1, <3>1 DEF Smaller, Larger
  <2>2. CASE s \in T
    <3>1. c <= s /\ s <= d /\ s \in Int
      BY <2>2 DEF Spans
    <3> QED BY <1>1, <3>1 DEF Smaller, Larger
  <2> QED BY <2>1, <2>2
<1> QED BY <1>2, <1>3 DEF Spans
-------------------------------------------------------------------------------
(* What the headers of the sealed pages and the statistic of the open one say. *)
PagesSpan(w, c, g) ==
    \A i \in 1..Len(w.pages) :
        Spans(w.pages[i].min, w.pages[i].max, StampsIn(g, c[i], c[i + 1]))

OpenSpans(w, c, g) ==
    LET first == c[Len(c)]
    IN  IF Len(w.vals) = 0 THEN w.stat.start = I64Max /\ w.stat.end = I64Min
        ELSE Spans(w.stat.start, w.stat.end, StampsIn(g, first, first + Len(w.vals)))

Unit == TimeBytes + ValueBytes

PagesBound(w) ==
    \A i \in 1..Len(w.pages) :
        w.pages[i].num <= 2 \/ (w.pages[i].num - 2) * Unit < MaxPageSize

(* Only a page without ghosts, of a column with an encoder for its type, can be *)
(* sealed.  Its size estimate is exact, ...                                     *)
Whole(w) == w.encodes /\ Len(w.times) = Len(w.vals)
Sized(w) == Whole(w) => w.size = Len(w.vals) * Unit

(* ... between calls its last point at most is over the limit, before a push    *)
(* not even that, in a full batch it may be two.                                *)
Room(w)      == Whole(w) => Len(w.vals) = 0 \/ Len(w.vals) * Unit < MaxPageSize
OpenBound(w) == Whole(w) => Len(w.vals) <= 1 \/ (Len(w.vals) - 1) * Unit < MaxPageSize
SealBound(w) == Whole(w) => Len(w.vals) <= 2 \/ (Len(w.vals) - 2) * Unit < MaxPageSize
AccBound(w, acc) == Whole(w) => acc = <<>> \/ w.size + Len(acc) * Unit < MaxPageSize

Fine(w, c, g) == PagesSpan(w, c, g) /\ OpenSpans(w, c, g) /\ PagesBound(w)

LEMMA UnitIs == Unit \in Nat \ {0}
  BY SizeAssumption DEF Unit

(* More points take more room.                                                 *)
LEMMA UnitGrows == \A a, b \in Int : a <= b => a * Unit <= b * Unit
<1>1. PICK u \in Nat : u = Unit
  BY UnitIs
<1>2. \A a, b \in Int : a <= b => a * u <= b * u
  OBVIOUS
<1> QED BY <1>1, <1>2

LEMMA RoomBounds ==
    ASSUME NEW w \in Writer
    PROVE  (Room(w) => OpenBound(w)) /\ (OpenBound(w) => SealBound(w))
<1>1. PICK n \in Nat : n = Len(w.vals)
  BY DEF Writer
<1>2. PICK x, y, z \in Int : x = n * Unit /\ y = (n - 1) * Unit /\ z = (n - 2) * Unit
  BY UnitIs
<1>3. z <= y /\ y <= x
  BY <1>2, UnitGrows
<1> QED BY <1>1, <1>2, <1>3, SizeAssumption DEF Room, OpenBound, SealBound

(* The stamps of given points are integers in the range of an i64.             *)
LEMMA StampsInType ==
    ASSUME NEW g \in Seq(Points), NEW a \in Nat, NEW b \in Nat, b <= Len(g)
    PROVE  StampsIn(g, a, b) \in SUBSET Int /\ StampsIn(g, a, b) \subseteq Stamps
<1>1. ASSUME NEW k \in (a + 1)..b PROVE g[k].t \in Int /\ g[k].t \in Stamps
  <2>1. k \in 1..Len(g)
    OBVIOUS
  <2>2. g[k] \in Points
    BY <2>1
  <2> QED BY <2>2, PointsAreTyped
<1> QED BY <1>1 DEF StampsIn

(* What a page spans is not disturbed by later points.                         *)
LEMMA StampsSame ==
    ASSUME NEW g, NEW h, NEW a \in Nat, NEW b \in Nat, \A k \in 1..b : h[k] = g[k]
    PROVE  StampsIn(h, a, b) = StampsIn(g, a, b)
<1>1. \A k \in (a + 1)..b : h[k] = g[k]
  OBVIOUS
<1> QED BY <1>1 DEF StampsIn

LEMMA FineCarries ==
    ASSUME NEW w, NEW c, NEW g, Good(w, c, g), NEW acc, Len(acc) \in Nat, RestHolds(w, c, g, acc), 
           Fine(w, c, g),
           NEW r, r.pages = w.pages, r.vals = w.vals, r.stat = w.stat,
           NEW h, \A k \in 1..Len(g) : h[k] = g[k]
    PROVE  Fine(r, c, h)
<1>1. /\ w \in Writer /\ g \in Seq(Points) /\ c \in Seq(Nat) /\ Len(c) = Len(w.pages) + 1
      /\ \A i \in 1..Len(c) : c[i] <= Len(g)
  BY DEF Good
<1>2. Len(w.pages) \in Nat /\ Len(w.vals) \in Nat /\ Len(g) \in Nat
  BY <1>1 DEF Writer
<1>3. \A i \in 1..Len(c) : c[i] \in Nat
  BY <1>1
<1>4. PagesSpan(r, c, h)
  <2> SUFFICES ASSUME NEW i \in 1..Len(w.pages)
               PROVE  StampsIn(h, c[i], c[i + 1]) = StampsIn(g, c[i], c[i + 1])
    BY DEF PagesSpan, Fine
  <2>1. i \in 1..Len(c) /\ i + 1 \in 1..Len(c)
    BY <1>1, <1>2
  <2>2. c[i] \in Nat /\ c[i + 1] \in Nat /\ c[i + 1] <= Len(g)
    BY <1>1, <1>3, <2>1
  <2>3. PICK a, b \in Nat : a = c[i] /\ b = c[i + 1]
    BY <2>2
  <2>4. \A k \in 1..b : h[k] = g[k]
    <3>1. b \in Nat /\ b <= Len(g)
      BY <2>2, <2>3
    <3>2. \A k \in 1..b : k \in 1..Len(g)
      BY <1>2, <3>1
    <3> QED BY <3>2
  <2>5. StampsIn(h, a, b) = StampsIn(g, a, b)
    BY <2>4, StampsSame, ZenonT(30)
  <2> QED BY <2>3, <2>5
<1>5. OpenSpans(r, c, h)
  <2> DEFINE first == c[Len(c)]
             last == first + Len(w.vals)
  <2>1. first \in Nat /\ last \in Nat /\ last <= Len(g)
    <3>1. first \in Nat
      BY <1>1, <1>2, <1>3
    <3>2. first + Len(w.vals) + Len(acc) = Len(g)
      BY DEF RestHolds
    <3> HIDE DEF first
    <3> QED BY <1>2, <3>1, <3>2
  <2>2. \A k \in 1..last : h[k] = g[k]
    BY <1>2, <2>1
  <2> HIDE DEF first, last
  <2>3. StampsIn(h, first, last) = StampsIn(g, first, last)
    BY <2>1, <2>2, StampsSame
  <2> QED BY <2>3 DEF OpenSpans, Fine, first, last
<1> QED BY <1>4, <1>5 DEF Fine, PagesBound
-------------------------------------------------------------------------------
(* finish succeeds on a page without ghosts of a column with an encoder, and   *)
(* on no other.                                                                *)
LEMMA SealShape ==
    ASSUME NEW w \in Writer, Len(w.vals) <= Len(w.times), NEW r, r = SealCurrentPage(w).cw
    PROVE  \/ r = w /\ (Len(w.times) = 0 \/ ~Whole(w))
           \/ r = Sealed(w) /\ Len(w.times) > 0 /\ Whole(w)
<1> DEFINE total == Len(w.times)
           n == CalculateMiniblockCount(total)
           ranges == SplitIntoRanges(total)
<1>1. total \in Nat /\ Len(w.vals) \in Nat
  BY DEF Writer
<1>2. CASE total = 0
  <2>1. SealCurrentPage(w) = Outcome(w, "ok")
    BY <1>2, Zenon DEF SealCurrentPage
  <2> QED BY <1>2, <2>1 DEF Outcome
<1>3. CASE total # 0 /\ FinishOutcome(w) # "ok"
  <2>1. SealCurrentPage(w) = Outcome(w, FinishOutcome(w))
    BY <1>3, Zenon DEF SealCurrentPage
  <2>2. ~Whole(w)
    <3> SUFFICES ASSUME w.encodes, Len(w.vals) = total PROVE FALSE
      BY DEF Whole
    <3>1. FinishOutcome(w) = "panic"
      <4>1. w.encodes = TRUE
        BY DEF Writer
      <4> HIDE DEF total
      <4> QED BY <1>3, <4>1 DEF FinishOutcome
    <3> QED BY <1>1, <1>3, <3>1, FinishPanics
  <2>3. r = w
    BY <2>1 DEF Outcome
  <2> QED BY <2>2, <2>3
<1>4. CASE total # 0 /\ FinishOutcome(w) = "ok"
  <2>1. SealCurrentPage(w) = Outcome(Sealed(w), "ok")
    BY <1>4, Zenon DEF SealCurrentPage, Sealed
  <2>2. r = Sealed(w)
    BY <2>1 DEF Outcome
  <2>3. w.encodes
    BY <1>4 DEF FinishOutcome
  <2>4. Sealed(w) # w
    <3>1. Sealed(w).times = <<>>
      BY DEF Sealed, Writer
    <3> QED BY <1>4, <3>1
  <2>5. Len(w.vals) = total
    BY <2>2, <2>4, SealCases
  <2> QED BY <1>1, <1>4, <2>2, <2>3, <2>5 DEF Whole
<1> QED BY <1>2, <1>3, <1>4

(* A sealed page spans the stamps of its points: the statistic was exact.      *)
LEMMA SealFine ==
    ASSUME NEW w, NEW c, NEW g, Good(w, c, g), RestHolds(w, c, g, <<>>),
           Fine(w, c, g), Sized(w), SealBound(w),
           NEW r, r = SealCurrentPage(w).cw
    PROVE  Fine(r, After(w, c, r, g), g) /\ Sized(r) /\ Room(r)
<1>1. /\ w \in Writer /\ Len(w.vals) <= Len(w.times) /\ g \in Seq(Points)
      /\ c \in Seq(Nat) /\ Len(c) = Len(w.pages) + 1
      /\ \A i \in 1..Len(c) : c[i] <= Len(g)
  BY DEF Good
<1>2. CASE r = w /\ (Len(w.times) = 0 \/ ~Whole(w))
  <2>1. After(w, c, r, g) = c
    BY <1>2 DEF After
  <2>2. CASE Len(w.times) = 0
    <3>1. Len(w.vals) = 0
      BY <1>1, <2>2 DEF Writer
    <3> QED BY <1>2, <2>1, <3>1 DEF Room
  <2>3. CASE ~Whole(w)
    BY <1>2, <2>1, <2>3 DEF Room
  <2> QED BY <1>2, <2>2, <2>3
<1>3. CASE r = Sealed(w) /\ Len(w.times) > 0 /\ Whole(w)
  <2> DEFINE n == Len(w.pages)
             nv == Len(w.vals)
             first == c[Len(c)]
             page == FinishedPage(w)
             d == Append(c, Len(g))
  <2>1. /\ n \in Nat /\ w.pages \in Seq(Page) /\ nv \in Nat /\ nv > 0 /\ nv = Len(w.times)
        /\ Len(g) \in Nat /\ first \in Nat
    BY <1>1, <1>3 DEF Writer, Whole
  <2>2. first + nv = Len(g)
    BY <2>1 DEF RestHolds
  <2>3. page.num = nv /\ page.min = w.stat.start /\ page.max = w.stat.end
    BY <2>1 DEF FinishedPage
  <2>4. Spans(page.min, page.max, StampsIn(g, first, Len(g)))
    BY <2>1, <2>2, <2>3 DEF Fine, OpenSpans
  <2>5. /\ r.pages = Append(w.pages, page)
        /\ r.times = <<>> /\ r.vals = <<>> /\ r.stat = EmptyStat /\ r.size = 0
    BY <1>1, <1>3 DEF Sealed, Writer
  <2> HIDE DEF page
  <2>6. /\ Len(r.pages) = n + 1 /\ r.pages[n + 1] = page
        /\ \A i \in 1..n : r.pages[i] = w.pages[i]
    <3>1. PICK ps \in Seq(Page) : ps = w.pages
      BY <2>1
    <3>2. /\ Len(Append(ps, page)) = n + 1 /\ Append(ps, page)[n + 1] = page
          /\ \A i \in 1..n : Append(ps, page)[i] = ps[i]
      BY <3>1
    <3> QED BY <2>5, <3>1, <3>2
  <2>7. After(w, c, r, g) = d
    BY <2>1, <2>6 DEF After
  <2>8. /\ Len(d) = n + 2 /\ d[n + 2] = Len(g)
        /\ \A i \in 1..(n + 1) : d[i] = c[i]
        /\ first = c[n + 1]
    BY <1>1, <2>1
  <2> HIDE DEF d, first, n
  <2>9. PagesSpan(r, d, g)
    <3> SUFFICES ASSUME NEW i \in 1..(n + 1)
                 PROVE  Spans(r.pages[i].min, r.pages[i].max, StampsIn(g, d[i], d[i + 1]))
      BY <2>6 DEF PagesSpan
    <3>1. CASE i \in 1..n
      <4>1. i \in 1..(n + 1) /\ i + 1 \in 1..(n + 1)
        BY <2>1, <3>1
      <4>2. Spans(w.pages[i].min, w.pages[i].max, StampsIn(g, c[i], c[i + 1]))
        BY <3>1 DEF Fine, PagesSpan, n
      <4> QED BY <2>6, <2>8, <3>1, <4>1, <4>2
    <3>2. CASE i = n + 1
      <4>1. d[i] = first /\ d[i + 1] = Len(g) /\ r.pages[i] = page
        BY <2>1, <2>6, <2>8, <3>2
      <4> QED BY <2>4, <4>1
    <3> QED BY <2>1, <3>1, <3>2
  <2>10. OpenSpans(r, d, g)
    BY <2>5 DEF OpenSpans, EmptyStat
  <2>11. PagesBound(r)
    <3> SUFFICES ASSUME NEW i \in 1..(n + 1)
                 PROVE  r.pages[i].num <= 2 \/ (r.pages[i].num - 2) * Unit < MaxPageSize
      BY <2>6 DEF PagesBound
    <3>1. CASE i \in 1..n
      BY <2>6, <3>1 DEF Fine, PagesBound, n
    <3>2. CASE i = n + 1
      BY <1>3, <2>3, <2>6, <3>2 DEF SealBound
    <3> QED BY <2>1, <3>1, <3>2
  <2>12. Sized(r) /\ Room(r)
    BY <2>5, UnitIs DEF Sized, Room
  <2> QED BY <2>7, <2>9, <2>10, <2>11, <2>12 DEF Fine
<1> QED BY <1>1, <1>2, <1>3, SealShape

(* After check_page_size_and_flush there is room for a point, or no seal will  *)
(* ever succeed.                                                               *)
LEMMA CheckFine ==
    ASSUME NEW w, NEW c, NEW g, Good(w, c, g), RestHolds(w, c, g, <<>>),
           Fine(w, c, g), Sized(w), OpenBound(w),
           NEW r, r = CheckPageSizeAndFlush(w).cw
    PROVE  Fine(r, After(w, c, r, g), g) /\ Sized(r) /\ Room(r)
<1>1. w \in Writer
  BY DEF Good
<1>2. CASE w.size >= MaxPageSize
  BY <1>1, <1>2, RoomBounds, SealFine DEF CheckPageSizeAndFlush
<1>3. CASE ~(w.size >= MaxPageSize)
  <2>1. r = w
    BY <1>3 DEF CheckPageSizeAndFlush, Outcome
  <2>2. After(w, c, w, g) = c
    BY DEF After
  <2>3. w.size \in Nat
    BY <1>1 DEF Writer
  <2> QED BY <1>3, <2>1, <2>2, <2>3, SizeAssumption DEF Sized, Room
<1> QED BY <1>2, <1>3

(* The initial range of a statistic gives way to the first timestamp.          *)
LEMMA FirstStamp ==
    ASSUME NEW t \in Stamps
    PROVE  Smaller(t, I64Max) = t /\ Larger(t, I64Min) = t
  BY SizeAssumption DEF Stamps, Smaller, Larger

(* A point pushed onto a page with room.                                       *)
LEMMA PushFine ==
    ASSUME NEW w, NEW c, NEW g, Good(w, c, g), RestHolds(w, c, g, <<>>), NEW p \in Points,
           Fine(w, c, g), Sized(w), Room(w),
           NEW r, r = PushPoint(w, p, TRUE).cw
    PROVE  Fine(r, c, Append(g, p)) /\ Sized(r) /\ OpenBound(r)
<1> DEFINE nv == Len(w.vals)
           nt == Len(w.times)
           first == c[Len(c)]
           h == Append(g, p)
           pushed == [w EXCEPT !.times = Append(@, p.t), !.vals = Append(@, p.v),
                               !.stat = UpdateTime(@, p.t)]
<1>1. /\ w \in Writer /\ Len(w.vals) <= Len(w.times) /\ g \in Seq(Points)
      /\ c \in Seq(Nat) /\ Len(c) = Len(w.pages) + 1
  BY DEF Good
<1>2. p.t \in Stamps /\ p.t \in Int /\ p.t \in Times /\ p.v \in Values
  BY PointsAreTyped
<1>3. /\ w.times \in Seq(Times) /\ w.vals \in Seq(Values) /\ w.stat \in Stat
      /\ Len(w.pages) \in Nat /\ nv \in Nat /\ nt \in Nat /\ first \in Nat /\ Len(g) \in Nat
  BY <1>1 DEF Writer
<1>4. /\ r = [pushed EXCEPT !.size = EstimatedSize(pushed)]
      /\ pushed.times = Append(w.times, p.t) /\ pushed.vals = Append(w.vals, p.v)
      /\ pushed.stat = UpdateTime(w.stat, p.t) /\ pushed.pages = w.pages
      /\ pushed.encodes = w.encodes
      /\ DOMAIN pushed = DOMAIN w
  <2>1. r = [pushed EXCEPT !.size = EstimatedSize(pushed)]
    BY DEF PushPoint, Outcome
  <2> QED BY <1>1, <2>1 DEF Writer
<1> HIDE DEF pushed
<1>5. /\ r.times = Append(w.times, p.t) /\ r.vals = Append(w.vals, p.v)
      /\ r.stat = UpdateTime(w.stat, p.t) /\ r.pages = w.pages /\ r.encodes = w.encodes
      /\ r.size = EstimatedSize(pushed)
  BY <1>1, <1>4 DEF Writer
<1>6. Len(r.times) = nt + 1 /\ Len(r.vals) = nv + 1
  <2>1. Len(Append(w.times, p.t)) = nt + 1
    BY <1>2, <1>3, AppendProperties
  <2>2. Len(Append(w.vals, p.v)) = nv + 1
    BY <1>2, <1>3, AppendProperties
  <2> QED BY <1>5, <2>1, <2>2
<1>7. r.size = TimeBytes * (nt + 1) + ValueBytes * (nv + 1)
  <2>1. Len(pushed.times) = nt + 1 /\ Len(pushed.vals) = nv + 1
    BY <1>4, <1>5, <1>6
  <2> QED BY <1>5, <2>1 DEF EstimatedSize
<1>8. /\ h \in Seq(Points) /\ Len(h) = Len(g) + 1 /\ h[Len(g) + 1] = p
      /\ \A i \in 1..Len(g) : h[i] = g[i]
  BY <1>1
<1>9. first + nv = Len(g)
  <2>1. first + nv + 0 = Len(g)
    BY DEF RestHolds
  <2> HIDE DEF first, nv
  <2> QED BY <1>3, <2>1
<1> HIDE DEF h
<1>10. Fine(w, c, h)
  BY <1>8, FineCarries
<1>11. OpenSpans(r, c, h)
  <2> DEFINE S == StampsIn(g, first, first + nv)
             T == StampsIn(h, first, first + (nv + 1))
  <2> HIDE DEF nv, first
  <2>1. \A k \in (first + 1)..(first + nv) : h[k] = g[k]
    BY <1>3, <1>8, <1>9
  <2>2. (first + 1)..(first + (nv + 1)) = (first + 1)..(first + nv) \cup {Len(g) + 1}
    BY <1>3, <1>9
  <2>3. T = S \cup {p.t}
    BY <1>8, <2>1, <2>2 DEF StampsIn
  <2>4. S \in SUBSET Int /\ {p.t} \in SUBSET Int
    <3>1. first + nv \in Nat /\ first + nv <= Len(g)
      BY <1>3, <1>9
    <3> QED BY <1>1, <1>2, <1>3, <3>1, StampsInType
  <2>5. /\ r.stat.start = Smaller(p.t, w.stat.start) /\ r.stat.end = Larger(p.t, w.stat.end)
    <3>1. \A x, t : /\ UpdateTime(x, t).start = Smaller(t, x.start)
                     /\ UpdateTime(x, t).end = Larger(t, x.end)
      BY DEF UpdateTime
    <3> QED BY <1>5, <3>1, Zenon
  <2>6. Spans(p.t, p.t, {p.t})
    BY <1>2 DEF Spans
  <2>9. Spans(r.stat.start, r.stat.end, T) => OpenSpans(r, c, h)
    <3>1. Len(r.vals) # 0
      <4>1. nv \in Nat
        BY <1>3
      <4>2. nv + 1 # 0
        BY <4>1
      <4> QED BY <1>6, <4>2
    <3>2. T = StampsIn(h, c[Len(c)], c[Len(c)] + Len(r.vals))
      BY <1>6 DEF first
    <3> HIDE DEF T
    <3> QED BY <3>1, <3>2 DEF OpenSpans
  <2>7. CASE nv = 0
    <3>1. w.stat.start = I64Max /\ w.stat.end = I64Min
      BY <2>7 DEF Fine, OpenSpans, nv
    <3>2. r.stat.start = p.t /\ r.stat.end = p.t
      BY <1>2, <2>5, <3>1, FirstStamp, Zenon
    <3>3. S = {}
      BY <1>3, <2>7 DEF StampsIn
    <3>4. T = {p.t}
      BY <2>3, <3>3
    <3> HIDE DEF S, T
    <3>5. Spans(r.stat.start, r.stat.end, T)
      BY <2>6, <3>2, <3>4
    <3> QED BY <2>9, <3>5
  <2>8. CASE nv # 0
    <3>1. Spans(w.stat.start, w.stat.end, S)
      BY <2>8 DEF Fine, OpenSpans, nv, first
    <3> HIDE DEF S, T
    <3>3. Spans(Smaller(p.t, w.stat.start), Larger(p.t, w.stat.end), S \cup {p.t})
      BY <2>4, <2>6, <3>1, SpanUnion
    <3>2. Spans(r.stat.start, r.stat.end, T)
      BY <2>3, <2>5, <3>3, Zenon
    <3> QED BY <2>9, <3>2
  <2> QED BY <2>7, <2>8
<1>12. Fine(r, c, h)
  BY <1>5, <1>10, <1>11 DEF Fine, PagesSpan, PagesBound
<1> HIDE DEF nv, nt, first
<1>13. Whole(r) => Whole(w) /\ nt = nv
  <2>1. nt + 1 = nv + 1 => nt = nv
    BY <1>3
  <2>2. Whole(r) <=> w.encodes /\ nt + 1 = nv + 1
    BY <1>5, <1>6 DEF Whole
  <2> QED BY <2>1, <2>2 DEF Whole, nv, nt
<1>14. Sized(r)
  <2>1. PICK u, v \in Nat : u = TimeBytes /\ v = ValueBytes /\ Unit = u + v
    BY SizeAssumption DEF Unit
  <2>2. u * (nv + 1) + v * (nv + 1) = (nv + 1) * (u + v)
    BY <1>3
  <2> QED BY <1>6, <1>7, <1>13, <2>1, <2>2 DEF Sized
<1>15. OpenBound(r)
  <2>1. (nv + 1) - 1 = nv /\ (nv = 0 => nv + 1 <= 1)
    BY <1>3
  <2> QED BY <1>6, <1>13, <2>1 DEF OpenBound, Room, nv
<1> QED BY <1>12, <1>14, <1>15 DEF h

(* A page with ghosts is never sealed, and its statistic is left alone.        *)
LEMMA GhostFine ==
    ASSUME NEW w, NEW c, NEW g, Good(w, c, g), RestHolds(w, c, g, <<>>), Fine(w, c, g),
           NEW r \in Writer, r.pages = w.pages, r.vals = w.vals, r.stat = w.stat,
           Len(r.times) > Len(r.vals)
    PROVE  Fine(r, c, g) /\ Sized(r) /\ OpenBound(r)
<1>1. Fine(r, c, g)
  BY FineCarries
<1>2. ~Whole(r)
  BY DEF Whole, Writer
<1> QED BY <1>1, <1>2 DEF Sized, OpenBound

(* The least and the greatest of a statistic's bound and of the stamps of a    *)
(* temporary vector.                                                           *)
LEMMA BatchSpans ==
    ASSUME NEW acc \in Seq(Points), HasExtremes(acc), acc # <<>>
    PROVE  LET T == {acc[i].t : i \in 1..Len(acc)}
           IN  /\ T \in SUBSET Int /\ T \subseteq Stamps
               /\ \E lo, hi \in T : Spans(lo, hi, T)
<1> DEFINE T == {acc[i].t : i \in 1..Len(acc)}
<1>1. PICK lo, hi \in 1..Len(acc) :
          \A k \in 1..Len(acc) : acc[lo].t <= acc[k].t /\ acc[k].t <= acc[hi].t
  BY DEF HasExtremes
<1>2. acc[lo].t \in T /\ acc[hi].t \in T
  OBVIOUS
<1>3. Spans(acc[lo].t, acc[hi].t, T)
  BY <1>1, <1>2 DEF Spans
<1>4. T \in SUBSET Int /\ T \subseteq Stamps
  BY PointsAreTyped
<1> QED BY <1>2, <1>3, <1>4

(* Min and Max over a bound and a set that spans from lo to hi.                *)
LEMMA MinMaxWith ==
    ASSUME NEW T \in SUBSET Int, NEW lo, NEW hi, Spans(lo, hi, T), NEW a \in Int, NEW b \in Int
    PROVE  Min({a} \cup T) = Smaller(lo, a) /\ Max({b} \cup T) = Larger(hi, b)
<1>1. Spans(a, a, {a}) /\ Spans(b, b, {b}) /\ {a} \in SUBSET Int /\ {b} \in SUBSET Int
  BY DEF Spans
<1>2. Spans(Smaller(lo, a), Larger(hi, a), {a} \cup T)
  BY <1>1, SpanUnion
<1>3. Spans(Smaller(lo, b), Larger(hi, b), {b} \cup T)
  BY <1>1, SpanUnion
<1>4. {a} \cup T \in SUBSET Int /\ {b} \cup T \in SUBSET Int
  OBVIOUS
<1> QED BY <1>2, <1>3, <1>4, SpanIsMinMax

(* The temporary vector moved into the open page.                              *)
LEMMA AppendFine ==
    ASSUME NEW w, NEW c, NEW g, NEW acc \in Seq(Points), HasExtremes(acc), acc # <<>>,
           Good(w, c, g), RestHolds(w, c, g, acc), Fine(w, c, g), Sized(w),
           NEW r, r = AppendTyped(w, acc).cw
    PROVE  /\ Fine(r, c, g) /\ Sized(r)
           /\ (Whole(r) <=> Whole(w))
           /\ Len(r.vals) = Len(w.vals) + Len(acc)
<1> DEFINE ts == [i \in 1..Len(acc) |-> acc[i].t]
           vs == [i \in 1..Len(acc) |-> acc[i].v]
           pushed == [[w EXCEPT !.times = @ \o ts] EXCEPT !.vals = @ \o vs,
                                                          !.stat = StatOfBatch(@, acc)]
           nv == Len(w.vals)
           nt == Len(w.times)
           na == Len(acc)
           first == c[Len(c)]
<1>1. /\ w \in Writer /\ Len(w.vals) <= Len(w.times) /\ g \in Seq(Points)
      /\ c \in Seq(Nat) /\ Len(c) = Len(w.pages) + 1
  BY DEF Good
<1>2. /\ w.times \in Seq(Times) /\ w.vals \in Seq(Values) /\ w.stat \in Stat
      /\ Len(w.pages) \in Nat
  BY <1>1 DEF Writer
<1>3. nv \in Nat /\ nt \in Nat /\ na \in Nat /\ na > 0 /\ first \in Nat /\ Len(g) \in Nat
  <2>1. na \in Nat /\ na > 0
    BY EmptySeq
  <2>2. first \in Nat
    BY <1>1, <1>2
  <2> QED BY <1>1, <1>2, <2>1, <2>2
<1>4. ts \in Seq(Times) /\ Len(ts) = Len(acc) /\ vs \in Seq(Values) /\ Len(vs) = Len(acc)
  BY Columns
<1>5. r = [pushed EXCEPT !.size = EstimatedSize(pushed)]
  <2>1. AppendTyped(w, acc) = Outcome([pushed EXCEPT !.size = EstimatedSize(pushed)], "ok")
    BY Zenon DEF AppendBatch, AppendTyped
  <2> HIDE DEF pushed
  <2> QED BY <2>1 DEF Outcome
<1> HIDE DEF ts, vs
<1>6. /\ pushed.times = w.times \o ts /\ pushed.vals = w.vals \o vs
      /\ pushed.stat = StatOfBatch(w.stat, acc) /\ pushed.pages = w.pages
      /\ pushed.encodes = w.encodes /\ DOMAIN pushed = DOMAIN w
  BY <1>1 DEF Writer
<1> HIDE DEF pushed
<1>7. /\ r.times = w.times \o ts /\ r.vals = w.vals \o vs
      /\ r.stat = StatOfBatch(w.stat, acc) /\ r.pages = w.pages /\ r.encodes = w.encodes
      /\ r.size = EstimatedSize(pushed)
  BY <1>1, <1>5, <1>6 DEF Writer
<1>8. Len(w.times \o ts) = nt + na
  <2>1. PICK s \in Seq(Times) : s = w.times
    BY <1>2
  <2>2. PICK t \in Seq(Times) : t = ts
    BY <1>4
  <2>3. Len(s \o t) = Len(s) + Len(t)
    OBVIOUS
  <2> QED BY <1>4, <2>1, <2>2, <2>3
<1>9. Len(w.vals \o vs) = nv + na
  <2>1. PICK s \in Seq(Values) : s = w.vals
    BY <1>2
  <2>2. PICK t \in Seq(Values) : t = vs
    BY <1>4
  <2>3. Len(s \o t) = Len(s) + Len(t)
    OBVIOUS
  <2> QED BY <1>4, <2>1, <2>2, <2>3
<1>10. Len(r.times) = nt + na /\ Len(r.vals) = nv + na
  BY <1>7, <1>8, <1>9
<1>11. r.size = TimeBytes * (nt + na) + ValueBytes * (nv + na)
  <2>1. Len(pushed.times) = nt + na /\ Len(pushed.vals) = nv + na
    BY <1>6, <1>8, <1>9
  <2> QED BY <1>7, <2>1 DEF EstimatedSize
<1>12. /\ first + nv + na = Len(g)
       /\ \A k \in 1..na : acc[k] = g[first + nv + k]
  BY Zenon DEF RestHolds
<1>13. Whole(r) <=> Whole(w)
  <2>1. nt + na = nv + na <=> nt = nv
    BY <1>3
  <2>2. Whole(r) <=> w.encodes /\ nt + na = nv + na
    BY <1>7, <1>10 DEF Whole
  <2> QED BY <2>1, <2>2 DEF Whole
<1> HIDE DEF nv, nt, na, first
<1>14. Sized(r)
  <2>1. PICK u, v \in Nat : u = TimeBytes /\ v = ValueBytes /\ Unit = u + v
    BY SizeAssumption DEF Unit
  <2>2. u * (nv + na) + v * (nv + na) = (nv + na) * (u + v)
    BY <1>3
  <2>3. Whole(r) => nt = nv
    BY <1>13 DEF Whole, nt, nv
  <2> QED BY <1>10, <1>11, <2>1, <2>2, <2>3 DEF Sized
<1>15. OpenSpans(r, c, g)
  <2> DEFINE S == StampsIn(g, first, first + nv)
             A == {acc[i].t : i \in 1..Len(acc)}
             T == StampsIn(g, first, first + (nv + na))
  <2>1. T = S \cup A
    <3>1. A = {g[k].t : k \in (first + nv + 1)..(first + (nv + na))}
      <4> DEFINE B == {g[k].t : k \in (first + nv + 1)..(first + (nv + na))}
      <4>1. ASSUME NEW i \in 1..na PROVE acc[i].t \in B
        <5>1. first + nv + i \in (first + nv + 1)..(first + (nv + na))
          BY <1>3
        <5>2. acc[i] = g[first + nv + i]
          BY <1>12
        <5> QED BY <5>1, <5>2
      <4>2. ASSUME NEW k \in (first + nv + 1)..(first + (nv + na)) PROVE g[k].t \in A
        <5>1. k - (first + nv) \in 1..na /\ first + nv + (k - (first + nv)) = k
          BY <1>3
        <5>2. acc[k - (first + nv)] = g[k]
          BY <1>12, <5>1
        <5> QED BY <5>1, <5>2 DEF na
      <4>3. A \subseteq B
        <5> HIDE DEF B
        <5> QED BY <4>1 DEF na
      <4>4. B \subseteq A
        <5> HIDE DEF A
        <5> QED BY <4>2
      <4> QED BY <4>3, <4>4
    <3>2. (first + 1)..(first + (nv + na)) =
              (first + 1)..(first + nv) \cup (first + nv + 1)..(first + (nv + na))
      BY <1>3
    <3> HIDE DEF A
    <3> QED BY <3>1, <3>2 DEF StampsIn
  <2>2. PICK lo, hi \in A : Spans(lo, hi, A)
    BY BatchSpans
  <2>3. A \in SUBSET Int /\ A \subseteq Stamps
    BY BatchSpans
  <2>4. S \in SUBSET Int
    <3>1. first + nv \in Nat /\ first + nv <= Len(g)
      BY <1>3, <1>12
    <3> QED BY <1>1, <1>3, <3>1, StampsInType
  <2>5. w.stat.start \in Int /\ w.stat.end \in Int
    BY <1>2, SizeAssumption DEF Stat, Stamps
  <2>6. r.stat.start = Smaller(lo, w.stat.start) /\ r.stat.end = Larger(hi, w.stat.end)
    <3>1. /\ StatOfBatch(w.stat, acc).start = Min({w.stat.start} \cup A)
          /\ StatOfBatch(w.stat, acc).end = Max({w.stat.end} \cup A)
      BY DEF StatOfBatch
    <3> HIDE DEF A
    <3>2. /\ r.stat.start = Min({w.stat.start} \cup A)
          /\ r.stat.end = Max({w.stat.end} \cup A)
      BY <1>7, <3>1, Zenon
    <3> QED BY <2>2, <2>3, <2>5, <3>2, MinMaxWith
  <2> HIDE DEF A
  <2>7. Spans(r.stat.start, r.stat.end, T) => OpenSpans(r, c, g)
    <3>1. Len(r.vals) # 0
      <4>1. nv + na # 0
        BY <1>3
      <4> QED BY <1>10, <4>1
    <3>2. T = StampsIn(g, c[Len(c)], c[Len(c)] + Len(r.vals))
      BY <1>10 DEF first
    <3> HIDE DEF T
    <3> QED BY <3>1, <3>2 DEF OpenSpans
  <2>8. CASE nv = 0
    <3>1. w.stat.start = I64Max /\ w.stat.end = I64Min
      BY <2>8 DEF Fine, OpenSpans, nv
    <3>2. lo \in Stamps /\ hi \in Stamps
      BY <2>3
    <3>3. r.stat.start = lo /\ r.stat.end = hi
      BY <2>6, <3>1, <3>2, FirstStamp, Zenon
    <3>4. S = {}
      BY <1>3, <2>8 DEF StampsIn
    <3>5. T = A
      BY <2>1, <3>4
    <3> HIDE DEF S, T
    <3> QED BY <2>2, <2>7, <3>3, <3>5
  <2>9. CASE nv # 0
    <3>1. Spans(w.stat.start, w.stat.end, S)
      BY <2>9 DEF Fine, OpenSpans, nv, first
    <3> HIDE DEF S, T
    <3>2. Spans(Smaller(lo, w.stat.start), Larger(hi, w.stat.end), S \cup A)
      BY <2>2, <2>3, <2>4, <3>1, SpanUnion
    <3> QED BY <2>1, <2>6, <2>7, <3>2, Zenon
  <2> QED BY <2>8, <2>9
<1>16. Fine(r, c, g)
  BY <1>7, <1>15 DEF Fine, PagesSpan, PagesBound
<1> QED BY <1>10, <1>13, <1>14, <1>16 DEF nv, na

(* write_x of a value of another type, alone or in a batch: ghosts.            *)
LEMMA PushGhostFine ==
    ASSUME NEW w, NEW c, NEW g, Good(w, c, g), RestHolds(w, c, g, <<>>), Fine(w, c, g),
           NEW p \in Points, NEW r, r = PushPoint(w, p, FALSE).cw
    PROVE  Fine(r, c, g) /\ Sized(r) /\ OpenBound(r)
<1>1. w \in Writer /\ Len(w.vals) <= Len(w.times)
  BY DEF Good
<1>2. w.times \in Seq(Times) /\ w.vals \in Seq(Values)
  BY <1>1 DEF Writer
<1>3. Append(w.times, p.t) \in Seq(Times) /\ Len(Append(w.times, p.t)) = Len(w.times) + 1
  BY <1>2, PointsAreTyped, AppendProperties
<1>4. r = [w EXCEPT !.times = Append(@, p.t)]
  BY DEF PushPoint, Outcome
<1>5. r \in Writer
  BY <1>1, <1>3, <1>4, SetTimes
<1>6. r.pages = w.pages /\ r.vals = w.vals /\ r.stat = w.stat /\ r.times = Append(w.times, p.t)
  BY <1>1, <1>4 DEF Writer
<1>7. Len(r.times) > Len(r.vals)
  <2>1. PICK nt, nv \in Nat : nt = Len(w.times) /\ nv = Len(w.vals)
    BY <1>2, LenProperties
  <2>2. nt + 1 > nv
    BY <1>1, <2>1
  <2>3. Len(r.times) = nt + 1 /\ Len(r.vals) = nv
    BY <1>3, <1>6, <2>1, Zenon
  <2> QED BY <2>2, <2>3, Zenon
<1> QED BY <1>5, <1>6, <1>7, GhostFine

LEMMA AppendGhostFine ==
    ASSUME NEW w, NEW c, NEW g, Good(w, c, g), RestHolds(w, c, g, <<>>), Fine(w, c, g),
           NEW acc \in Seq(Points), acc # <<>>, NEW r, r = AppendBatch(w, acc, FALSE).cw
    PROVE  Fine(r, c, g) /\ Sized(r) /\ OpenBound(r)
<1> DEFINE ts == [i \in 1..Len(acc) |-> acc[i].t]
<1>1. w \in Writer /\ Len(w.vals) <= Len(w.times)
  BY DEF Good
<1>2. w.times \in Seq(Times) /\ w.vals \in Seq(Values)
  BY <1>1 DEF Writer
<1>3. ts \in Seq(Times) /\ Len(ts) = Len(acc) /\ Len(acc) > 0
  BY Columns, EmptySeq
<1>4. r = [w EXCEPT !.times = @ \o ts]
  BY DEF AppendBatch, Outcome
<1> HIDE DEF ts
<1>5. w.times \o ts \in Seq(Times) /\ Len(w.times \o ts) = Len(w.times) + Len(acc)
  <2>1. PICK s \in Seq(Times) : s = w.times
    BY <1>2
  <2>2. PICK t \in Seq(Times) : t = ts
    BY <1>3
  <2>3. s \o t \in Seq(Times) /\ Len(s \o t) = Len(s) + Len(t)
    OBVIOUS
  <2> QED BY <1>3, <2>1, <2>2, <2>3, Zenon
<1>6. r \in Writer
  BY <1>1, <1>4, <1>5, SetTimes
<1>7. r.pages = w.pages /\ r.vals = w.vals /\ r.stat = w.stat /\ r.times = w.times \o ts
  BY <1>1, <1>4 DEF Writer
<1>8. Len(r.times) > Len(r.vals)
  <2>1. PICK nt, nv, na \in Nat : nt = Len(w.times) /\ nv = Len(w.vals) /\ na = Len(acc)
    BY <1>2, LenProperties
  <2>2. nt + na > nv
    BY <1>1, <1>3, <2>1
  <2>3. Len(r.times) = nt + na /\ Len(r.vals) = nv
    BY <1>5, <1>7, <2>1, Zenon
  <2> QED BY <2>2, <2>3, Zenon
<1> QED BY <1>6, <1>7, <1>8, GhostFine

(* A batch that ends leaves its last point below the limit; one that fills the *)
(* page, at most one point behind that of the page it found.                   *)
LEMMA EndBound ==
    ASSUME NEW w \in Writer, NEW r \in Writer, NEW acc \in Seq(Points), acc # <<>>,
           Sized(w), AccBound(w, acc), (Whole(r) <=> Whole(w)),
           Len(r.vals) = Len(w.vals) + Len(acc)
    PROVE  OpenBound(r)
<1> SUFFICES ASSUME Whole(r) PROVE Room(r)
  BY RoomBounds DEF OpenBound
<1>1. PICK nv, na \in Nat : nv = Len(w.vals) /\ na = Len(acc)
  <2>1. w.vals \in Seq(Values)
    BY DEF Writer
  <2> QED BY <2>1, LenProperties
<1>2. w.size = nv * Unit /\ w.size + na * Unit < MaxPageSize
  BY <1>1 DEF Sized, AccBound
<1>3. PICK u \in Nat : u = Unit
  BY UnitIs
<1>4. (nv + na) * u = nv * u + na * u
  OBVIOUS
<1> QED BY <1>1, <1>2, <1>3, <1>4 DEF Room

LEMMA FullBound ==
    ASSUME NEW w \in Writer, NEW r \in Writer, NEW acc \in Seq(Points),
           Sized(w), OpenBound(w), AccBound(w, acc), (Whole(r) <=> Whole(w)),
           Len(r.vals) = Len(w.vals) + (Len(acc) + 1)
    PROVE  SealBound(r)
<1> SUFFICES ASSUME Whole(r)
             PROVE  Len(r.vals) <= 2 \/ (Len(r.vals) - 2) * Unit < MaxPageSize
  BY DEF SealBound
<1>1. PICK nv, na \in Nat : nv = Len(w.vals) /\ na = Len(acc)
  <2>1. w.vals \in Seq(Values)
    BY DEF Writer
  <2> QED BY <2>1, LenProperties
<1>2. PICK u \in Nat : u = Unit
  BY UnitIs
<1>3. PICK n \in Nat : n = Len(r.vals) /\ n = nv + (na + 1)
  <2>1. Len(r.vals) = nv + (na + 1)
    BY <1>1, Zenon
  <2>2. \A a, b \in Nat : a + (b + 1) \in Nat
    OBVIOUS
  <2> QED BY <1>1, <2>1, <2>2, Zenon
<1> SUFFICES n <= 2 \/ (n - 2) * u < MaxPageSize
  BY <1>2, <1>3
<1>4. CASE acc = <<>>
  <2>1. na = 0
    BY <1>1, <1>4
  <2>2. nv <= 1 \/ (nv - 1) * u < MaxPageSize
    BY <1>1, <1>2 DEF OpenBound
  <2>3. n = nv + 1 /\ n - 2 = nv - 1
    BY <1>1, <1>3, <2>1
  <2>4. CASE nv <= 1
    BY <2>3, <2>4
  <2>5. CASE (nv - 1) * u < MaxPageSize
    BY <2>3, <2>5, Zenon
  <2> QED BY <2>2, <2>4, <2>5
<1>5. CASE acc # <<>>
  <2>1. w.size = nv * u /\ w.size + na * u < MaxPageSize
    BY <1>1, <1>2, <1>5 DEF Sized, AccBound
  <2>2. (nv + na) * u = nv * u + na * u
    OBVIOUS
  <2>3. n - 2 <= nv + na /\ n - 2 \in Int /\ nv + na \in Int
    <3>1. \A a, b, k \in Nat : k = a + (b + 1) => /\ k - 2 <= a + b
                                                /\ k - 2 \in Int /\ a + b \in Int
      OBVIOUS
    <3> QED BY <1>1, <1>3, <3>1, Zenon
  <2>4. (n - 2) * u <= (nv + na) * u
    BY <1>2, <2>3, UnitGrows
  <2>5. PICK a, b \in Int : a = (n - 2) * u /\ b = (nv + na) * u
    BY <2>3
  <2>6. a <= b /\ b < MaxPageSize
    BY <2>1, <2>2, <2>4, <2>5
  <2>7. a < MaxPageSize
    BY <2>6, SizeAssumption
  <2> QED BY <2>5, <2>7, Zenon
<1> QED BY <1>4, <1>5

(* One iteration of the batch loop, over values of the column's type.          *)
LEMMA RowMatchingFine ==
    ASSUME NEW w, NEW c, NEW g, NEW acc \in Seq(Points), HasExtremes(acc),
           Good(w, c, g), RestHolds(w, c, g, acc), NEW row \in Rows,
           Fine(w, c, g), Sized(w), OpenBound(w), AccBound(w, acc),
           NEW r, r = RowTyped(w, acc, row),
           NEW h, h = IF row.null THEN g ELSE Append(g, row.p)
    PROVE  /\ Fine(r.cw, After(w, c, r.cw, h), h)
           /\ Sized(r.cw) /\ OpenBound(r.cw) /\ AccBound(r.cw, r.acc)
<1> DEFINE grown == Append(acc, row.p)
           flushed == AppendTyped(w, grown)
           x == flushed.cw
           sealed == SealCurrentPage(x)
           y == sealed.cw
<1>1. w \in Writer /\ g \in Seq(Points) /\ After(w, c, w, h) = c
  BY DEF Good, After
<1>2. CASE row.null
  <2>1. r = BatchState(w, acc, "ok") /\ h = g
    BY <1>2, Zenon DEF BatchRow, RowTyped
  <2>2. r.cw = w /\ r.acc = acc
    BY <2>1 DEF BatchState
  <2> QED BY <1>1, <2>1, <2>2
<1>3. CASE ~row.null
  <2>1. row.p \in Points /\ h = Append(g, row.p)
    BY <1>3, RowPoint, RowsAreRows
  <2>2. /\ grown \in Seq(Points) /\ HasExtremes(grown) /\ grown # <<>>
        /\ Len(grown) = Len(acc) + 1
        /\ Good(w, c, h) /\ RestHolds(w, c, h, grown)
    BY <2>1, ExtremesGrow, GiveToBatch, AppendProperties
  <2>3. Fine(w, c, h)
    <3>1. \A k \in 1..Len(g) : h[k] = g[k]
      BY <1>1, <2>1
    <3>2. Len(acc) \in Nat
      OBVIOUS
    <3> QED BY <3>1, <3>2, FineCarries
  <2>4. CASE ~BatchIsFull(w, Len(grown))
    <3>1. r = BatchState(w, grown, "ok")
      BY <1>3, <2>4, Zenon DEF BatchRow, RowTyped
    <3> HIDE DEF grown
    <3>2. r.cw = w /\ r.acc = grown
      BY <3>1 DEF BatchState
    <3>3. AccBound(w, grown)
      <4>1. PICK u \in Nat : u = Unit
        BY UnitIs
      <4>2. PICK n \in Nat : n = Len(grown)
        BY <2>2
      <4>3. w.size \in Nat /\ n * u \in Nat
        BY <1>1 DEF Writer
      <4>4. ~(w.size + n * u >= MaxPageSize)
        BY <2>4, <4>1, <4>2 DEF BatchIsFull, Unit
      <4>5. w.size + n * u < MaxPageSize
        BY <4>3, <4>4, SizeAssumption
      <4> QED BY <4>1, <4>2, <4>5 DEF AccBound
    <3> QED BY <1>1, <2>3, <3>2, <3>3
  <2>5. CASE BatchIsFull(w, Len(grown))
    <3> HIDE DEF grown
    <3>1. /\ x.pages = w.pages /\ Good(x, c, h) /\ RestHolds(x, c, h, <<>>)
          /\ flushed.out = "ok"
      BY <2>2, AppendMatching
    <3>2. /\ Fine(x, c, h) /\ Sized(x) /\ (Whole(x) <=> Whole(w))
          /\ Len(x.vals) = Len(w.vals) + Len(grown)
      <4>1. PICK z : z = AppendTyped(w, grown).cw /\ z = x
        OBVIOUS
      <4> HIDE DEF flushed, x
      <4>2. /\ Fine(z, c, h) /\ Sized(z) /\ (Whole(z) <=> Whole(w))
            /\ Len(z.vals) = Len(w.vals) + Len(grown)
        <5>1. /\ grown \in Seq(Points) /\ HasExtremes(grown) /\ grown # <<>>
              /\ Good(w, c, h) /\ RestHolds(w, c, h, grown) /\ Fine(w, c, h) /\ Sized(w)
          BY <2>2, <2>3
        <5>2. z = AppendTyped(w, grown).cw
          BY <4>1
        <5>3. Fine(z, c, h) /\ Sized(z)
          BY <5>1, <5>2, AppendFine, Zenon
        <5>4. Whole(z) <=> Whole(w)
          BY <5>1, <5>2, AppendFine
        <5>5. Len(z.vals) = Len(w.vals) + Len(grown)
          BY <5>1, <5>2, AppendFine
        <5> QED BY <5>3, <5>4, <5>5
      <4> QED BY <4>1, <4>2, Zenon
    <3> HIDE DEF flushed
    <3>3. r = BatchState(y, <<>>, sealed.out)
      BY <1>3, <2>5, <3>1, Zenon DEF BatchRow, AppendTyped, RowTyped, grown, flushed
    <3> HIDE DEF x
    <3>4. x \in Writer /\ Len(x.vals) = Len(w.vals) + (Len(acc) + 1)
      BY <2>2, <3>1, <3>2 DEF Good
    <3>5. SealBound(x)
      BY <1>1, <3>2, <3>4, FullBound
    <3>6. Fine(y, After(x, c, y, h), h) /\ Sized(y) /\ Room(y)
      BY <3>1, <3>2, <3>5, SealFine
    <3>7. y \in Writer
      BY <3>1, SealKeeps DEF Good
    <3>8. After(w, c, y, h) = After(x, c, y, h)
      BY <3>1 DEF After
    <3> HIDE DEF y, sealed
    <3>9. r.cw = y /\ r.acc = <<>>
      BY <3>3 DEF BatchState
    <3>10. AccBound(y, <<>>)
      BY DEF AccBound
    <3> QED BY <3>6, <3>7, <3>8, <3>9, <3>10, RoomBounds
  <2> QED BY <2>4, <2>5
<1> QED BY <1>2, <1>3

(* A batch state keeps the writer it is given.                                 *)
LEMMA BatchKeeps == \A y, z, o : BatchState(y, z, o).cw = y
  BY DEF BatchState

(* ... and over values of another type.                                        *)
LEMMA RowMismatchedFine ==
    ASSUME NEW w, NEW c, NEW g, NEW acc \in Seq(Points), HasExtremes(acc),
           Good(w, c, g), RestHolds(w, c, g, <<>>), NEW row \in Rows,
           Fine(w, c, g), Sized(w), OpenBound(w),
           NEW r, r = BatchRow(w, acc, row, FALSE)
    PROVE  Fine(r.cw, After(w, c, r.cw, g), g) /\ Sized(r.cw) /\ OpenBound(r.cw)
<1> DEFINE grown == Append(acc, row.p)
           flushed == AppendBatch(w, grown, FALSE)
           x == flushed.cw
<1>1. After(w, c, w, g) = c
  BY DEF After
<1>2. CASE row.null \/ ~BatchIsFull(w, Len(grown))
  <2>1. r.cw = w
    <3>1. r = BatchState(w, acc, "ok") \/ r = BatchState(w, grown, "ok")
      BY <1>2, Zenon DEF BatchRow
    <3>2. BatchState(w, acc, "ok").cw = w /\ BatchState(w, grown, "ok").cw = w
      BY BatchKeeps
    <3> QED BY <3>1, <3>2, Zenon
  <2> QED BY <1>1, <2>1
<1>3. CASE ~row.null /\ BatchIsFull(w, Len(grown))
  <2>1. row.p \in Points
    BY <1>3, RowPoint, RowsAreRows
  <2>2. grown \in Seq(Points) /\ grown # <<>>
    BY <2>1, AppendProperties
  <2> HIDE DEF grown
  <2>3. x.pages = w.pages /\ flushed.out = "err"
    BY <2>2, AppendMismatched, Zenon
  <2>4. Fine(x, c, g) /\ Sized(x) /\ OpenBound(x)
    BY <2>2, AppendGhostFine
  <2> HIDE DEF flushed
  <2>5. r = BatchState(x, <<>>, "err")
    BY <1>3, <2>3, Zenon DEF BatchRow, grown, flushed
  <2> HIDE DEF x
  <2>6. r.cw = x
    BY <2>5, BatchKeeps, Zenon
  <2>7. After(w, c, x, g) = c
    BY <2>3 DEF After
  <2> QED BY <2>4, <2>6, <2>7
<1> QED BY <1>2, <1>3

(* ChunkWriter::write_x.                                                       *)
LEMMA WriteFine ==
    ASSUME NEW w, NEW c, NEW g, Good(w, c, g), RestHolds(w, c, g, <<>>), NEW p \in Points,
           Fine(w, c, g), Sized(w), OpenBound(w), NEW matches \in BOOLEAN,
           NEW r, r = WriteValue(w, p, matches),
           NEW h, h = IF matches /\ r.out = "ok" THEN Append(g, p) ELSE g
    PROVE  Fine(r.cw, After(w, c, r.cw, g), h) /\ Sized(r.cw) /\ OpenBound(r.cw)
<1> DEFINE checked == CheckPageSizeAndFlush(w)
           x == checked.cw
           e == After(w, c, x, g)
<1>1. Good(x, e, g) /\ RestHolds(x, e, g, <<>>) /\ Fine(x, e, g) /\ Sized(x) /\ Room(x)
  BY CheckKeeps, CheckFine
<1>2. OpenBound(x)
  BY <1>1, RoomBounds DEF Good
<1>3. CASE checked.out # "ok"
  <2>1. r = checked
    BY <1>3, Zenon DEF WriteValue
  <2> HIDE DEF checked
  <2> QED BY <1>1, <1>2, <1>3, <2>1
<1>4. CASE checked.out = "ok"
  <2>1. r = PushPoint(x, p, matches)
    BY <1>4, Zenon DEF WriteValue
  <2> HIDE DEF checked, x, e
  <2>2. CASE matches = TRUE
    <3>1. r.out = "ok" /\ r.cw.pages = x.pages
      BY <1>1, <2>1, <2>2, PushMatching, ZenonT(30)
    <3>2. Fine(r.cw, e, Append(g, p)) /\ Sized(r.cw) /\ OpenBound(r.cw)
      BY <1>1, <2>1, <2>2, PushFine
    <3>3. After(w, c, r.cw, g) = e
      BY <3>1, AfterSamePages DEF e
    <3> QED BY <2>2, <3>1, <3>2, <3>3
  <2>3. CASE matches = FALSE
    <3>1. r.cw.pages = x.pages
      BY <1>1, <2>1, <2>3, PushMismatched, Zenon
    <3>2. Fine(r.cw, e, g) /\ Sized(r.cw) /\ OpenBound(r.cw)
      BY <1>1, <2>1, <2>3, PushGhostFine
    <3>3. After(w, c, r.cw, g) = e
      BY <3>1, AfterSamePages DEF e
    <3> QED BY <2>3, <3>2, <3>3
  <2> QED BY <2>2, <2>3
<1> QED BY <1>3, <1>4

(* What is left of a batch when its loop ends.                                 *)
LEMMA EndFine ==
    ASSUME NEW w, NEW c, NEW g, NEW acc \in Seq(Points), HasExtremes(acc), acc # <<>>,
           Good(w, c, g), RestHolds(w, c, g, acc),
           Fine(w, c, g), Sized(w), AccBound(w, acc),
           NEW r, r = AppendTyped(w, acc).cw
    PROVE  Fine(r, c, g) /\ Sized(r) /\ OpenBound(r)
<1>1. Fine(r, c, g) /\ Sized(r)
  BY AppendFine, Zenon
<1>2. Whole(r) <=> Whole(w)
  BY AppendFine
<1>3. Len(r.vals) = Len(w.vals) + Len(acc)
  BY AppendFine
<1>4. Good(r, c, g)
  BY AppendMatching
<1>5. w \in Writer /\ r \in Writer
  BY <1>4 DEF Good
<1> QED BY <1>1, <1>2, <1>3, <1>5, EndBound

(* serialize_to's seal.                                                        *)
LEMMA SerializeFine ==
    ASSUME NEW w, NEW c, NEW g, Good(w, c, g), RestHolds(w, c, g, <<>>),
           Fine(w, c, g), Sized(w), OpenBound(w), NEW r, r = SealCurrentPage(w)
    PROVE  Fine(r.cw, After(w, c, r.cw, g), g) /\ Sized(r.cw) /\ OpenBound(r.cw)
<1>1. w \in Writer
  BY DEF Good
<1>2. SealBound(w)
  BY <1>1, RoomBounds
<1>3. Fine(r.cw, After(w, c, r.cw, g), g) /\ Sized(r.cw) /\ Room(r.cw)
  BY <1>2, SealFine
<1>4. r.cw \in Writer
  BY SealKeeps DEF Good
<1> QED BY <1>3, <1>4, RoomBounds
-------------------------------------------------------------------------------
(* Why it is inductive: the statistic of the open page must span exactly the   *)
(* points the page holds, and its size estimate must be exact, for the header  *)
(* and the limit of the page the next seal makes of it to be right.            *)
FInv ==
    /\ Fine(cw, cuts, given) /\ Sized(cw) /\ OpenBound(cw)
    /\ batch.matches => AccBound(cw, batch.acc)

LEMMA InitFInv == Init => FInv
<1> SUFFICES ASSUME Init PROVE FInv
  OBVIOUS
<1>1. PICK name \in Measurements, e \in BOOLEAN : cw = NewChunkWriter(name, e)
  BY DEF Init
<1>2. /\ Len(cw.pages) = 0 /\ Len(cw.vals) = 0 /\ Len(cw.times) = 0 /\ cw.size = 0
      /\ cw.stat.start = I64Max /\ cw.stat.end = I64Min
  BY <1>1 DEF NewChunkWriter, EmptyStat
<1>3. PagesSpan(cw, cuts, given) /\ PagesBound(cw)
  BY <1>2 DEF PagesSpan, PagesBound
<1>4. Fine(cw, cuts, given)
  BY <1>2, <1>3 DEF Fine, OpenSpans
<1>5. 0 * Unit = 0
  BY UnitIs
<1>6. Sized(cw) /\ OpenBound(cw)
  BY <1>2, <1>5 DEF Sized, OpenBound
<1>7. AccBound(cw, batch.acc)
  BY DEF Init, NoBatch, AccBound
<1> QED BY <1>4, <1>6, <1>7 DEF FInv

LEMMA NextFInv == IInv /\ FInv /\ [Next]_vars => FInv'
<1> SUFFICES ASSUME IInv, FInv, [Next]_vars PROVE FInv'
  OBVIOUS
<1>1. /\ Good(cw, cuts, given) /\ RestHolds(cw, cuts, given, Waiting)
      /\ HasExtremes(batch.acc) /\ (status # "batch" => batch = NoBatch)
      /\ batch \in [rows : Seq(Rows), next : Nat \ {0}, acc : Seq(Points), matches : BOOLEAN]
      /\ Fine(cw, cuts, given) /\ Sized(cw) /\ OpenBound(cw)
      /\ (batch.matches => AccBound(cw, batch.acc))
  BY DEF IInv, TypeOK, FInv
<1>2. ASSUME batch'.acc = <<>>,
             Fine(cw', cuts', given'), Sized(cw'), OpenBound(cw')
      PROVE  FInv'
  <2>1. AccBound(cw', batch'.acc)
    BY <1>2 DEF AccBound
  <2> QED BY <1>2, <2>1 DEF FInv
<1>3. ASSUME NEW p \in Points, NEW matches \in BOOLEAN,
             IF matches THEN WriteMatching(p) ELSE WriteMismatched(p)
      PROVE  FInv'
  <2> DEFINE r == WriteValue(cw, p, matches)
             h == IF matches /\ r.out = "ok" THEN Append(given, p) ELSE given
  <2>1. /\ status = "idle" /\ batch' = batch
        /\ cw' = r.cw /\ given' = h /\ cuts' = CutsAfter(r.cw, given)
    <3>1. CASE matches = TRUE
      BY <1>3, <3>1, Zenon DEF WriteMatching
    <3>2. CASE matches = FALSE
      BY <1>3, <3>2, Zenon DEF WriteMismatched
    <3> QED BY <3>1, <3>2
  <2>2. batch = NoBatch /\ RestHolds(cw, cuts, given, <<>>)
    BY <1>1, <2>1, IdleWaiting
  <2>3. PICK r0 : r0 = r
    OBVIOUS
  <2>4. PICK h0 : h0 = IF matches /\ r0.out = "ok" THEN Append(given, p) ELSE given
    OBVIOUS
  <2>5. h0 = h
    BY <2>3, <2>4
  <2>6. r0 = WriteValue(cw, p, matches)
    BY <2>3
  <2> HIDE DEF r, h
  <2>7. Fine(r0.cw, After(cw, cuts, r0.cw, given), h0) /\ Sized(r0.cw) /\ OpenBound(r0.cw)
    BY <1>1, <2>2, <2>4, <2>6, WriteFine, Zenon
  <2>8. batch'.acc = <<>>
    BY <2>1, <2>2 DEF NoBatch
  <2>9. Fine(cw', cuts', given') /\ Sized(cw') /\ OpenBound(cw')
    BY <2>1, <2>3, <2>5, <2>7, CutsAfterIs
  <2> QED BY <1>2, <2>8, <2>9
<1>4. ASSUME NEW n \in 1..MaxBatch, NEW matches \in BOOLEAN, NEW rows \in [1..n -> Rows],
             StartBatch(rows, matches)
      PROVE  FInv'
  <2>1. batch'.acc = <<>> /\ cw' = cw /\ given' = given /\ cuts' = cuts
    BY <1>4 DEF StartBatch
  <2> QED BY <1>1, <1>2, <2>1
<1>5. ASSUME NextRow PROVE FInv'
  <2> DEFINE row == batch.rows[batch.next]
             r == BatchRow(cw, batch.acc, row, batch.matches)
  <2>1. /\ status = "batch" /\ batch.next <= Len(batch.rows)
        /\ cw' = r.cw
        /\ given' = IF batch.matches /\ ~row.null THEN Append(given, row.p) ELSE given
        /\ cuts' = CutsAfter(r.cw, given')
        /\ batch' = IF r.out = "ok" THEN [batch EXCEPT !.next = @ + 1, !.acc = r.acc]
                                    ELSE NoBatch
    BY <1>5, Zenon DEF NextRow
  <2>2. row \in Rows /\ batch.acc \in Seq(Points)
    BY <1>1, <2>1
  <2>3. /\ Fine(r.cw, After(cw, cuts, r.cw, given'), given')
        /\ Sized(r.cw) /\ OpenBound(r.cw)
        /\ (batch.matches => AccBound(r.cw, r.acc))
    <3>1. CASE batch.matches = TRUE
      <4>1. Waiting = batch.acc
        BY <3>1 DEF Waiting
      <4>2. given' = IF row.null THEN given ELSE Append(given, row.p)
        BY <2>1, <3>1
      <4>3. r = RowTyped(cw, batch.acc, row)
        BY <3>1, Zenon DEF RowTyped
      <4> HIDE DEF row, r
      <4>4. AccBound(cw, batch.acc)
        BY <1>1, <3>1
      <4> QED BY <1>1, <2>2, <4>1, <4>2, <4>3, <4>4, RowMatchingFine, Zenon
    <3>2. CASE batch.matches = FALSE
      <4>1. Waiting = <<>>
        BY <3>2 DEF Waiting
      <4>2. given' = given
        BY <2>1, <3>2
      <4>3. r = BatchRow(cw, batch.acc, row, FALSE)
        BY <3>2, Zenon
      <4> HIDE DEF row, r
      <4> QED BY <1>1, <2>2, <3>2, <4>1, <4>2, <4>3, RowMismatchedFine, Zenon
    <3> QED BY <1>1, <3>1, <3>2
  <2> HIDE DEF row, r
  <2>4. Fine(cw', cuts', given') /\ Sized(cw') /\ OpenBound(cw')
    BY <2>1, <2>3, CutsAfterIs
  <2>5. CASE r.out = "ok"
    <3>1. batch'.acc = r.acc /\ batch'.matches = batch.matches
      BY <1>1, <2>1, <2>5
    <3> QED BY <2>1, <2>3, <2>4, <3>1 DEF FInv
  <2>6. CASE r.out # "ok"
    <3>1. batch'.acc = <<>>
      BY <2>1, <2>6 DEF NoBatch
    <3> QED BY <1>2, <2>4, <3>1
  <2> QED BY <2>5, <2>6
<1>6. ASSUME EndBatch PROVE FInv'
  <2> DEFINE r == BatchEnd(cw, batch.acc, batch.matches)
  <2>1. /\ status = "batch" /\ cw' = r.cw /\ batch' = NoBatch
        /\ given' = given /\ cuts' = cuts
    BY <1>6, Zenon DEF EndBatch
  <2>2. batch.acc \in Seq(Points) /\ batch.matches \in BOOLEAN
    BY <1>1
  <2>3. Fine(r.cw, cuts, given) /\ Sized(r.cw) /\ OpenBound(r.cw)
    <3>1. CASE batch.acc = <<>>
      <4>1. r.cw = cw
        BY <3>1 DEF BatchEnd, Outcome
      <4> HIDE DEF r
      <4> QED BY <1>1, <4>1
    <3>2. CASE batch.acc # <<>> /\ batch.matches = TRUE
      <4>1. r = AppendTyped(cw, batch.acc)
        BY <3>2, Zenon DEF BatchEnd, AppendTyped
      <4>2. Waiting = batch.acc /\ AccBound(cw, batch.acc)
        BY <1>1, <3>2 DEF Waiting
      <4> HIDE DEF r
      <4> QED BY <1>1, <2>2, <3>2, <4>1, <4>2, EndFine
    <3>3. CASE batch.acc # <<>> /\ batch.matches = FALSE
      <4>1. r = AppendBatch(cw, batch.acc, FALSE)
        BY <3>3, Zenon DEF BatchEnd
      <4>2. Waiting = <<>>
        BY <3>3 DEF Waiting
      <4> HIDE DEF r
      <4> QED BY <1>1, <2>2, <3>3, <4>1, <4>2, AppendGhostFine, Zenon
    <3> QED BY <2>2, <3>1, <3>2, <3>3
  <2> HIDE DEF r
  <2>4. batch'.acc = <<>>
    BY <2>1 DEF NoBatch
  <2>5. Fine(cw', cuts', given') /\ Sized(cw') /\ OpenBound(cw')
    BY <2>1, <2>3
  <2> QED BY <1>2, <2>4, <2>5
<1>7. ASSUME Serialize PROVE FInv'
  <2> DEFINE s == SealCurrentPage(cw)
             r == SerializeTo(cw)
  <2>1. /\ status = "idle" /\ cw' = r.cw /\ batch' = batch /\ given' = given
        /\ cuts' = CutsAfter(r.cw, given)
    BY <1>7, Zenon DEF Serialize
  <2>2. batch = NoBatch /\ RestHolds(cw, cuts, given, <<>>)
    BY <1>1, <2>1, IdleWaiting
  <2>3. r.cw = s.cw
    BY Zenon DEF SerializeTo, Outcome
  <2>4. PICK s0 : s0 = s
    OBVIOUS
  <2>5. s0 = SealCurrentPage(cw)
    BY <2>4
  <2> HIDE DEF r, s
  <2>6. Fine(s0.cw, After(cw, cuts, s0.cw, given), given) /\ Sized(s0.cw) /\ OpenBound(s0.cw)
    BY <1>1, <2>2, <2>5, SerializeFine
  <2>7. Fine(cw', cuts', given') /\ Sized(cw') /\ OpenBound(cw')
    BY <2>1, <2>3, <2>4, <2>6, CutsAfterIs
  <2>8. batch'.acc = <<>>
    BY <2>1, <2>2 DEF NoBatch
  <2> QED BY <1>2, <2>7, <2>8
<1>8. ASSUME UNCHANGED vars PROVE FInv'
  <2>1. cw' = cw /\ batch' = batch /\ given' = given /\ cuts' = cuts
    BY <1>8 DEF vars
  <2> QED BY <1>1, <2>1 DEF FInv
<1>9. ASSUME NEW p \in Points, WriteMatching(p) \/ WriteMismatched(p) PROVE FInv'
  <2>1. CASE WriteMatching(p)
    BY <1>3, <2>1, Zenon
  <2>2. CASE WriteMismatched(p)
    BY <1>3, <2>2, Zenon
  <2> QED BY <1>9, <2>1, <2>2, Zenon
<1> QED BY <1>4, <1>5, <1>6, <1>7, <1>8, <1>9, Zenon DEF Next

(* What the pages' headers and the page limit rest on holds throughout.        *)
THEOREM SpecFInv == Spec => []FInv
  BY InitFInv, NextFInv, SpecIInv, PTL DEF Spec

(* The time range a page header states is exactly that of the page's points,   *)
(* whatever order they came in and however many calls brought them             *)
(* (TimePageStatistics::update and update_batch), for every page limit.        *)
THEOREM SpecStatsCoverPage == Spec => []StatsCoverPage
<1>1. IInv /\ FInv => StatsCoverPage
  <2> SUFFICES ASSUME IInv, FInv, NEW i \in 1..Len(cw.pages)
               PROVE  LET stamps == {given[k].t : k \in (cuts[i] + 1)..cuts[i + 1]}
                      IN  cw.pages[i].min = Min(stamps) /\ cw.pages[i].max = Max(stamps)
    BY Zenon DEF StatsCoverPage
  <2> DEFINE S == {given[k].t : k \in (cuts[i] + 1)..cuts[i + 1]}
  <2>1. S = StampsIn(given, cuts[i], cuts[i + 1])
    BY DEF StampsIn
  <2>2. Spans(cw.pages[i].min, cw.pages[i].max, S)
    BY <2>1, Zenon DEF FInv, Fine, PagesSpan
  <2>3. S \in SUBSET Int
    <3>1. /\ given \in Seq(Points) /\ cw \in Writer
          /\ cuts \in Seq(Nat) /\ Len(cuts) = Len(cw.pages) + 1
      BY DEF IInv, TypeOK
    <3>2. i \in 1..Len(cuts) /\ i + 1 \in 1..Len(cuts)
      BY <3>1 DEF Writer
    <3>3. cuts[i] \in Nat /\ cuts[i + 1] \in Nat
      BY <3>1, <3>2, ElementOfSeq, Zenon
    <3>4. cuts[i + 1] <= Len(given)
      BY <3>2 DEF IInv, Good
    <3> QED BY <2>1, <3>1, <3>3, <3>4, StampsInType
  <2> HIDE DEF S
  <2>4. cw.pages[i].min = Min(S) /\ cw.pages[i].max = Max(S)
    BY <2>2, <2>3, SpanIsMinMax
  <2> QED BY <2>4, Zenon DEF S
<1> QED BY <1>1, SpecIInv, SpecFInv, PTL

(* No page exceeds max_page_size by more than its last two points, for every   *)
(* limit and whatever mix of single writes and batches filled it.              *)
THEOREM SpecPageSizeBound == Spec => []PageSizeBound
<1>1. FInv => PageSizeBound
  BY DEF FInv, Fine, PagesBound, PageSizeBound, Unit
<1> QED BY <1>1, SpecFInv, PTL
===============================================================================
