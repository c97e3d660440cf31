------------------------------ MODULE ChunkWriter ------------------------------
(* One column's chunk writer as a state machine: single writes, batch writes   *)
(* with a null bitmap, and serialize_to, in any order a caller can issue them. *)
(* A batch call is unfolded into the iterations of its loop, because that loop *)
(* seals pages on the way; `&mut self` keeps every other call out meanwhile.   *)
EXTENDS ChunkState

CONSTANTS NullCell,   \* what the cell of a null row holds
          MaxBatch,   \* bound: rows of one batch call
          MaxGiven,   \* bound: points handed to the writer
          MaxGhosts   \* bound: timestamps left behind by mismatched calls

ASSUME WriterAssumption ==
    /\ NullCell \in [t : Times, v : Values]
    /\ MaxBatch \in Nat /\ MaxGiven \in Nat /\ MaxGhosts \in Nat

VARIABLES cw,      \* the ChunkWriter
          status,  \* "idle", "batch" inside a batch call, or "panicked"
          batch,   \* the running batch call
          chunk,   \* the pages serialize_to last wrote out
          given,   \* history: the points the writer took, in call order
          cuts     \* history: cuts[i] points were given when page i began

vars == <<cw, status, batch, chunk, given, cuts>>

Rows == [p : Points, null : {FALSE}] \cup [p : {NullCell}, null : {TRUE}]

NoBatch == [rows |-> <<>>, next |-> 1, acc |-> <<>>, matches |-> TRUE]

Ghosts == Len(cw.times) - Len(cw.vals)

\* The cuts after a step that leaves writer w and the history g.
CutsAfter(w, g) ==
    IF Len(w.pages) = Len(cw.pages) THEN cuts ELSE Append(cuts, Len(g))

-------------------------------------------------------------------------------
Init ==
    /\ \E name \in Measurements, encodes \in BOOLEAN : cw = NewChunkWriter(name, encodes)
    /\ status = "idle"
    /\ batch = NoBatch
    /\ chunk = <<>>
    /\ given = <<>>
    /\ cuts = <<0>>

(* write_bool .. write_string with a value of the column's type.  The page is  *)
(* sealed first when it was already full, so the new point opens a page.       *)
WriteMatching(p) ==
    /\ status = "idle"
    /\ Len(given) < MaxGiven
    /\ LET r == WriteValue(cw, p, TRUE)
       IN  /\ cw' = r.cw
           /\ status' = IF r.out = "panic" THEN "panicked" ELSE "idle"
           /\ given' = IF r.out = "ok" THEN Append(given, p) ELSE given
           /\ cuts' = CutsAfter(r.cw, given)
    /\ UNCHANGED <<batch, chunk>>

(* The same methods with a value of another type: always refused, and a        *)
(* timestamp stays in the open page unless the seal was what failed.           *)
WriteMismatched(p) ==
    /\ status = "idle"
    /\ Ghosts < MaxGhosts
    /\ LET r == WriteValue(cw, p, FALSE)
       IN  /\ cw' = r.cw
           /\ status' = IF r.out = "panic" THEN "panicked" ELSE "idle"
           /\ cuts' = CutsAfter(r.cw, given)
    /\ UNCHANGED <<batch, chunk, given>>

(* A call of write_x_batch_with_bitmap.                                        *)
StartBatch(rows, matches) ==
    /\ status = "idle"
    /\ IF matches THEN Len(given) + Len(rows) <= MaxGiven
                  ELSE Ghosts + Len(rows) <= MaxGhosts
    /\ status' = "batch"
    /\ batch' = [rows |-> rows, next |-> 1, acc |-> <<>>, matches |-> matches]
    /\ UNCHANGED <<cw, chunk, given, cuts>>

(* One iteration of its loop.  An error leaves the function, dropping the      *)
(* temporary vector.                                                           *)
NextRow ==
    /\ status = "batch"
    /\ batch.next <= Len(batch.rows)
    /\ LET row == batch.rows[batch.next]
           r   == BatchRow(cw, batch.acc, row, batch.matches)
           took == batch.matches /\ ~row.null
       IN  /\ cw' = r.cw
           /\ given' = IF took THEN Append(given, row.p) ELSE given
           /\ cuts' = CutsAfter(r.cw, given')
           /\ status' = CASE r.out = "ok"    -> "batch"
                          [] r.out = "err"   -> "idle"
                          [] r.out = "panic" -> "panicked"
           /\ batch' = IF r.out = "ok"
                       THEN [batch EXCEPT !.next = @ + 1, !.acc = r.acc]
                       ELSE NoBatch
    /\ UNCHANGED chunk

(* The rest of the temporary vector is written and the call returns.           *)
EndBatch ==
    /\ status = "batch"
    /\ batch.next > Len(batch.rows)
    /\ cw' = BatchEnd(cw, batch.acc, batch.matches).cw
    /\ status' = "idle"
    /\ batch' = NoBatch
    /\ UNCHANGED <<chunk, given, cuts>>

(* serialize_to.  It borrows the writer, so a caller may go on writing.        *)
Serialize ==
    /\ status = "idle"
    /\ LET r == SerializeTo(cw)
       IN  /\ cw' = r.cw
           /\ status' = IF r.out = "panic" THEN "panicked" ELSE "idle"
           /\ chunk' = IF r.out = "ok" THEN r.cw.pages ELSE chunk
           /\ cuts' = CutsAfter(r.cw, given)
    /\ UNCHANGED <<batch, given>>

Next ==
    \/ \E p \in Points : WriteMatching(p) \/ WriteMismatched(p)
    \/ \E n \in 1..MaxBatch, matches \in BOOLEAN :
          \E rows \in [1..n -> Rows] : StartBatch(rows, matches)
    \/ NextRow
    \/ EndBatch
    \/ Serialize

Spec == Init /\ [][Next]_vars
-------------------------------------------------------------------------------
(* PROPERTIES                                                                  *)

(* Type invariant.  The open page never has more values than timestamps, and   *)
(* there is one cut per page, the open one included.                           *)
TypeOK ==
    /\ cw \in Writer
    /\ Len(cw.vals) <= Len(cw.times)
    /\ status \in {"idle", "batch", "panicked"}
    /\ batch \in [rows : Seq(Rows), next : Nat \ {0}, acc : Seq(Points), matches : BOOLEAN]
    /\ chunk \in Seq(Page)
    /\ given \in Seq(Points)
    /\ cuts \in Seq(Nat) /\ Len(cuts) = Len(cw.pages) + 1

(* The sealed pages cut the points given at `cuts`: no point is lost, repeated,*)
(* reordered or paired with another point's value on its way into a page.      *)
PagesHoldGiven == PagesHold(cw, cuts, given)

(* The points given since the last seal are, in order, the open page followed  *)
(* by the temporary vector of a running batch.  After a mismatched call only   *)
(* the values can be compared: the timestamps hold one too many.               *)
OpenPageHoldsRest ==
    RestHolds(cw, cuts, given, IF batch.matches THEN batch.acc ELSE <<>>)

(* A page header's time range is exactly that of the page's points, whatever   *)
(* the order they came in and however many calls they came in.                 *)
StatsCoverPage ==
    \A i \in 1..Len(cw.pages) :
        LET stamps == {given[k].t : k \in (cuts[i] + 1)..cuts[i + 1]}
        IN  /\ cw.pages[i].min = Min(stamps)
            /\ cw.pages[i].max = Max(stamps)

(* max_page_size is a soft limit: single writes seal only when the next point  *)
(* comes, and a batch puts one more point on a page left full.  No page is     *)
(* ever further over it than that, whatever the limit (two points for none).   *)
PageSizeBound ==
    \A i \in 1..Len(cw.pages) :
        \/ cw.pages[i].num <= 2
        \/ (cw.pages[i].num - 2) * (TimeBytes + ValueBytes) < MaxPageSize

(* finish panics only on a page that a refused, mismatched write left with a   *)
(* timestamp too many.  Every other sequence of calls returns.                 *)
PanicNeedsMismatch == status = "panicked" => Ghosts > 0

(* The writer implements the append-only series.  `stored` is what a reader    *)
(* decodes from the sealed pages and `published` what it decodes from the last *)
(* serialized chunk.                                                           *)
Log == INSTANCE SeriesLog WITH
    stored    <- ReadChunk(cw.pages),
    pending   <- SubSeq(given, cuts[Len(cuts)] + 1, Len(given)),
    published <- ReadChunk(chunk)

ImplementsSeriesLog == Log!Spec

(* MiniBlockHeader's comments call its two times the minimum and the maximum   *)
(* timestamp of the block (file/miniblock.rs:57-60).  create_miniblock takes   *)
(* the first and the last one: this fails for points out of time order.        *)
BlockTimesAreMinMax ==
    \A i \in 1..Len(cw.pages) : \A j \in 1..Len(cw.pages[i].blocks) :
        LET block == cw.pages[i].blocks[j]
        IN  /\ block.min = Min(ToSet(block.times))
            /\ block.max = Max(ToSet(block.times))
===============================================================================
