------------------------------- MODULE ChunkOps -------------------------------
(* The operations of one chunk writer, as operators on its state: a            *)
(* ChunkWriter (writer/chunk_writer.rs) with the PageWriter it owns            *)
(* (writer/page_writer.rs).  ChunkWriter.tla runs one of them as a state       *)
(* machine; FileWriter.tla keeps one per open column.                          *)
(*                                                                             *)
(* The six value types of the code share one shape (write_bool .. write_string,*)
(* write_bool_batch .. write_string_batch); one operator stands for the six.   *)
(* A value is an element of an opaque set, and every value takes ValueBytes.   *)
EXTENDS MiniBlocks, SequencesExt

CONSTANTS TimeBytes,      \* bytes of a timestamp in the size estimate, 8
          ValueBytes,     \* bytes of a value in the size estimate, 1..8
          MaxPageSize,    \* max_page_size: an estimate that reaches it seals
          I64Min, I64Max  \* the initial end_time and start_time of BaseStats

ASSUME SizeAssumption ==
    /\ TimeBytes \in Nat \ {0}
    /\ ValueBytes \in Nat
    /\ MaxPageSize \in Nat
    /\ I64Min \in Int /\ I64Max \in Int /\ I64Min <= I64Max

-------------------------------------------------------------------------------
(* Statistics: BaseStats.  The value aggregates are left out.                  *)

EmptyStat == [count |-> 0, start |-> I64Max, end |-> I64Min]

UpdateTime(s, t) ==
    [count |-> s.count + 1,
     start |-> Smaller(t, s.start),
     end   |-> Larger(t, s.end)]

MergeStat(s, other) ==
    IF other.count = 0 THEN s
    ELSE IF s.count = 0 THEN other
    ELSE [count |-> s.count + other.count,
          start |-> Smaller(s.start, other.start),
          end   |-> Larger(s.end, other.end)]

-------------------------------------------------------------------------------
(* The writer.  `times` and `vals` are the open page's two vectors; `size` is  *)
(* current_page_size, which only some paths refresh.  `encodes` says whether   *)
(* the column's value encoder accepts the column's type: no method checks that *)
(* when the writer is built, and the encoder refuses at the first value.       *)

NewChunkWriter(name, encodes) ==
    [name |-> name, encodes |-> encodes, pages |-> <<>>,
     times |-> <<>>, vals |-> <<>>, stat |-> EmptyStat, size |-> 0]

Outcome(w, out) == [cw |-> w, out |-> out]

EstimatedSize(w) == TimeBytes * Len(w.times) + ValueBytes * Len(w.vals)

(* PageWriter::write_x: the timestamp is pushed before the type is looked at,  *)
(* so a value of another type leaves a timestamp without a value behind.       *)
PushPoint(w, p, matches) ==
    IF matches
    THEN LET pushed == [w EXCEPT !.times = Append(@, p.t),
                                 !.vals  = Append(@, p.v),
                                 !.stat  = UpdateTime(@, p.t)]
         IN  Outcome([pushed EXCEPT !.size = EstimatedSize(pushed)], "ok")
    ELSE Outcome([w EXCEPT !.times = Append(@, p.t)], "err")

(* PageWriter::finish over create_miniblock, block after block.  A block takes *)
(* its first timestamp and slices the values before it encodes them, so a      *)
(* range that is empty or runs past either vector panics, unless the encoder   *)
(* has refused the block before it.                                            *)
FinishOutcome(w) ==
    LET ranges == SplitIntoRanges(Len(w.times))
        Bad(i) == \/ ranges[i].start >= ranges[i].end
                  \/ ranges[i].end > Smaller(Len(w.times), Len(w.vals))
    IN  IF ~w.encodes THEN IF Bad(1) THEN "panic" ELSE "err"
        ELSE IF \E i \in DOMAIN ranges : Bad(i) THEN "panic"
        ELSE "ok"

CreateMiniblock(w, r) ==
    [min   |-> w.times[r.start + 1],
     max   |-> w.times[r.end],
     times |-> SubSeq(w.times, r.start + 1, r.end),
     vals  |-> SubSeq(w.vals, r.start + 1, r.end)]

FinishedPage(w) ==
    LET ranges == SplitIntoRanges(Len(w.times))
    IN  [num    |-> Len(w.times),
         min    |-> w.stat.start,
         max    |-> w.stat.end,
         blocks |-> [i \in 1..Len(ranges) |-> CreateMiniblock(w, ranges[i])]]

(* Mutants of seal_current_page: reset forgets the values, or the statistic,   *)
(* or comes before a finish that may fail.                                     *)
SealCurrentPage_KeepsValues(w) ==
    IF Len(w.times) = 0 THEN Outcome(w, "ok")
    ELSE IF FinishOutcome(w) # "ok" THEN Outcome(w, FinishOutcome(w))
    ELSE Outcome([w EXCEPT !.pages = Append(@, FinishedPage(w)),
                           !.times = <<>>, !.stat = EmptyStat, !.size = 0], "ok")

SealCurrentPage_KeepsStat(w) ==
    IF Len(w.times) = 0 THEN Outcome(w, "ok")
    ELSE IF FinishOutcome(w) # "ok" THEN Outcome(w, FinishOutcome(w))
    ELSE Outcome([w EXCEPT !.pages = Append(@, FinishedPage(w)),
                           !.times = <<>>, !.vals = <<>>, !.size = 0], "ok")

SealCurrentPage_ResetsFirst(w) ==
    LET reset == [w EXCEPT !.times = <<>>, !.vals = <<>>, !.stat = EmptyStat, !.size = 0]
    IN  IF Len(w.times) = 0 THEN Outcome(w, "ok")
        ELSE IF FinishOutcome(w) # "ok" THEN Outcome(reset, FinishOutcome(w))
        ELSE Outcome([reset EXCEPT !.pages = Append(@, FinishedPage(w))], "ok")

(* ChunkWriter::seal_current_page.  A failed finish leaves the page as it was. *)
SealCurrentPage(w) ==
    IF Len(w.times) = 0 THEN Outcome(w, "ok")
    ELSE IF FinishOutcome(w) # "ok" THEN Outcome(w, FinishOutcome(w))
    ELSE Outcome([w EXCEPT !.pages = Append(@, FinishedPage(w)),
                           !.times = <<>>, !.vals = <<>>,
                           !.stat = EmptyStat, !.size = 0], "ok")

CheckPageSizeAndFlush(w) ==
    IF w.size >= MaxPageSize THEN SealCurrentPage(w) ELSE Outcome(w, "ok")

(* ChunkWriter::write_x                                                        *)
WriteValue(w, p, matches) ==
    LET checked == CheckPageSizeAndFlush(w)
    IN  IF checked.out # "ok" THEN checked
        ELSE PushPoint(checked.cw, p, matches)
-------------------------------------------------------------------------------
(* The batch writes.  `acc` is the temporary vector of the loop: the non-null  *)
(* rows visited and not yet handed to the page.                                *)

(* update_x_batch of the statistics                                            *)
StatOfBatch(s, acc) ==
    LET stamps == {acc[i].t : i \in 1..Len(acc)}
    IN  [count |-> s.count + Len(acc),
         start |-> Min({s.start} \cup stamps),
         end   |-> Max({s.end} \cup stamps)]

(* PageWriter::write_x_batch, then the refresh of the size estimate            *)
AppendBatch(w, acc, matches) ==
    LET stamped == [w EXCEPT !.times = @ \o [i \in 1..Len(acc) |-> acc[i].t]]
        pushed  == [stamped EXCEPT !.vals = @ \o [i \in 1..Len(acc) |-> acc[i].v],
                                   !.stat = StatOfBatch(@, acc)]
    IN  IF matches
        THEN Outcome([pushed EXCEPT !.size = EstimatedSize(pushed)], "ok")
        ELSE Outcome(stamped, "err")

BatchState(w, acc, out) == [cw |-> w, acc |-> acc, out |-> out]

\* Mutant: the batch forgets what the page already holds.
BatchIsFull_AccOnly(w, n) == n * (TimeBytes + ValueBytes) >= MaxPageSize

BatchIsFull(w, n) == w.size + n * (TimeBytes + ValueBytes) >= MaxPageSize

(* Mutant: the temporary vector is not cleared after it was written.           *)
BatchRow_KeepsBatch(w, acc, row, matches) ==
    LET grown  == Append(acc, row.p)
        flushed == AppendBatch(w, grown, matches)
        sealed == SealCurrentPage(flushed.cw)
    IN  IF row.null THEN BatchState(w, acc, "ok")
        ELSE IF ~BatchIsFull(w, Len(grown)) THEN BatchState(w, grown, "ok")
        ELSE IF flushed.out # "ok" THEN BatchState(flushed.cw, <<>>, flushed.out)
        ELSE BatchState(sealed.cw, grown, sealed.out)

(* One iteration of write_x_batch_with_bitmap over the row [p, null].          *)
BatchRow(w, acc, row, matches) ==
    LET grown  == Append(acc, row.p)
        flushed == AppendBatch(w, grown, matches)
        sealed == SealCurrentPage(flushed.cw)
    IN  IF row.null THEN BatchState(w, acc, "ok")
        ELSE IF ~BatchIsFull(w, Len(grown)) THEN BatchState(w, grown, "ok")
        ELSE IF flushed.out # "ok" THEN BatchState(flushed.cw, <<>>, flushed.out)
        ELSE BatchState(sealed.cw, <<>>, sealed.out)

(* The points of the rows that are not null.                                   *)
NonNull(rows) ==
    LET kept[n \in 0..Len(rows)] ==
            IF n = 0 THEN <<>>
            ELSE IF rows[n].null THEN kept[n - 1] ELSE Append(kept[n - 1], rows[n].p)
    IN  kept[Len(rows)]

(* The write of what is left after the loop.                                   *)
BatchEnd(w, acc, matches) ==
    IF acc = <<>> THEN Outcome(w, "ok") ELSE AppendBatch(w, acc, matches)

(* The loop of a batch call over all rows; it stops at the first that fails.   *)
BatchLoop(w, rows, matches) ==
    LET loop[n \in 0..Len(rows)] ==
            IF n = 0 THEN BatchState(w, <<>>, "ok")
            ELSE IF loop[n - 1].out # "ok" THEN loop[n - 1]
            ELSE BatchRow(loop[n - 1].cw, loop[n - 1].acc, rows[n], matches)
    IN  loop[Len(rows)]

(* A whole batch call, for the callers that do not look inside it.             *)
WriteBatch(w, rows, matches) ==
    LET looped == BatchLoop(w, rows, matches)
    IN  IF looped.out = "ok" THEN BatchEnd(looped.cw, looped.acc, matches)
                             ELSE Outcome(looped.cw, looped.out)
-------------------------------------------------------------------------------
(* Mutant: the open page is left out of the chunk.                             *)
SerializeTo_SealedOnly(w) == Outcome(w, IF w.pages = <<>> THEN "err" ELSE "ok")

(* ChunkWriter::serialize_to up to the bytes: seal, then refuse an empty chunk. *)
SerializeTo(w) ==
    LET sealed == SealCurrentPage(w)
    IN  IF sealed.out = "ok" /\ sealed.cw.pages = <<>>
        THEN Outcome(sealed.cw, "err")
        ELSE sealed

(* ChunkWriter::statistic.  The loop over the sealed pages merges the open     *)
(* page's statistic each time: the sealed pages' own are not kept.             *)
Statistic(w) ==
    LET merges == Len(w.pages) + (IF Len(w.times) > 0 THEN 1 ELSE 0)
        Merge(s, i) == MergeStat(s, w.stat)
    IN  FoldLeft(Merge, EmptyStat, [i \in 1..merges |-> i])

(* What a reader gets back from the pages of a chunk: ChunkReader::read_chunk  *)
(* decodes the pages in any order and joins them in file order; a page is the  *)
(* concatenation of its mini-blocks.                                           *)
\* FlattenSeq as a recursive function, which TLC evaluates in linear time.
Joined(seqs) ==
    LET join[n \in 0..Len(seqs)] == IF n = 0 THEN <<>> ELSE join[n - 1] \o seqs[n]
    IN  join[Len(seqs)]

BlockPoints(b) == [k \in 1..Len(b.times) |-> [t |-> b.times[k], v |-> b.vals[k]]]

PagePoints(page) ==
    Joined([j \in 1..Len(page.blocks) |-> BlockPoints(page.blocks[j])])

ReadChunk(pages) == Joined([i \in 1..Len(pages) |-> PagePoints(pages[i])])
===============================================================================
