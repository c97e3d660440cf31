------------------------------- MODULE IOWriter -------------------------------
(* The physical file (writer/io_writer.rs), as operators on the writer's state. *)
(* The stream is a sequence of regions, each with the offset where its bytes   *)
(* really begin and their number; `pos` is current_position, which the code    *)
(* keeps on its own and never compares with the stream.  Names are sequences   *)
(* of characters, of which only the length counts here.                        *)
EXTENDS ChunkOps, Maps

CONSTANT BlockDataBytes   \* encoded bytes of a mini-block of one point

HeaderSize      == 128
FooterSize      == 132
PageHeaderSize  == 28
MiniBlockHeader == 64

ASSUME BlockAssumption == BlockDataBytes \in Nat

NoOffset == -1

\* The sum of a sequence of numbers.
SumOf(numbers) ==
    LET sum[n \in 0..Len(numbers)] == IF n = 0 THEN 0 ELSE sum[n - 1] + numbers[n]
    IN  sum[Len(numbers)]

-------------------------------------------------------------------------------
(* Bytes.  What goes into the stream, field by field, and what serialize_to    *)
(* counts went in, are computed in different places of the code.               *)

\* What serialize of a mini-block, a page and a chunk writes.
BlockWritten(block) == (4 + 8 + 8 + 4 + 4 + 4 + 4 + 8 + 20) + BlockDataBytes * Len(block.times)

PageWritten(page) ==
    (4 + 4 + 4 + 8 + 8) + 4
    + SumOf([j \in 1..Len(page.blocks) |-> BlockWritten(page.blocks[j])])

StreamBytes(w) ==
    (1 + 4 + Len(w.name) + 4 + 1 + 1 + 1 + 4)
    + SumOf([i \in 1..Len(w.pages) |-> PageWritten(w.pages[i])])

\* What is added to total_bytes for them.
BlocksCounted(page) ==
    SumOf([j \in 1..Len(page.blocks) |->
              MiniBlockHeader + BlockDataBytes * Len(page.blocks[j].times)])

(* Mutant: the count of mini-blocks is not counted.                            *)
TotalBytes_NoBlockCount(w) ==
    16 + Len(w.name)
    + SumOf([i \in 1..Len(w.pages) |-> PageHeaderSize + BlocksCounted(w.pages[i])])

TotalBytes(w) ==
    16 + Len(w.name)
    + SumOf([i \in 1..Len(w.pages) |-> PageHeaderSize + 4 + BlocksCounted(w.pages[i])])

StreamEnd(stream) ==
    LET last == stream[Len(stream)] IN last.off + last.len

-------------------------------------------------------------------------------
NewIOWriter ==
    [stream |-> <<[kind |-> "header", off |-> 0, len |-> HeaderSize]>>,
     pos    |-> HeaderSize,
     groups |-> <<>>,
     first  |-> NoOffset,
     total  |-> 0, min |-> I64Max, max |-> I64Min,
     dict   |-> {}]

(* Mutants: the group is created by its first chunk only, or created anew each *)
(* time it is opened.                                                          *)
StartChunkGroup_Lazy(io, d) ==
    [io EXCEPT !.dict = @ \cup {d}, !.first = IF @ = NoOffset THEN io.pos ELSE @]

StartChunkGroup_Anew(io, d) ==
    [io EXCEPT !.dict   = @ \cup {d},
               !.groups = With(@, d, <<>>),
               !.first  = IF @ = NoOffset THEN io.pos ELSE @]

(* A device that comes back later finds its group and adds to it.              *)
StartChunkGroup(io, d) ==
    LET known == d \in DOMAIN io.groups
    IN  [io EXCEPT !.dict   = @ \cup {d},
                   !.groups = IF known THEN @ ELSE With(@, d, <<>>),
                   !.first  = IF ~known /\ @ = NoOffset THEN io.pos ELSE @]

(* The name and the statistics are taken before the chunk is serialized, and   *)
(* stay when that fails.                                                       *)
CountChunk(io, w) ==
    LET stat == Statistic(w)
    IN  [io EXCEPT !.dict  = @ \cup {w.name},
                   !.total = @ + stat.count,
                   !.min   = IF stat.count > 0 THEN Smaller(@, stat.start) ELSE @,
                   !.max   = IF stat.count > 0 THEN Larger(@, stat.end) ELSE @]

ChunkWritten(io, d, r) ==
    LET region == [kind |-> "chunk", off |-> StreamEnd(io.stream),
                   len |-> StreamBytes(r.cw), name |-> r.cw.name, pages |-> r.cw.pages]
        meta   == [name |-> r.cw.name, off |-> io.pos]
    IN  [out |-> r.out,
         io  |-> IF r.out # "ok" THEN io
                 ELSE [io EXCEPT !.stream = Append(@, region),
                                 !.pos = @ + TotalBytes(r.cw),
                                 !.groups[d] = Append(@, meta)]]

WriteChunk(io, d, w) == ChunkWritten(CountChunk(io, w), d, SerializeTo(w))

EndChunkGroup(io, d) == IF d \in DOMAIN io.groups THEN "ok" ELSE "err"

-------------------------------------------------------------------------------
(* IOWriter::close, one operator per section.  Sections after the chunks take  *)
(* their offset from the stream itself.                                        *)

WithRegion(io, region) ==
    [io EXCEPT !.stream = Append(@, [region EXCEPT !.off = StreamEnd(io.stream)])]

WriteDictionary(io) ==
    IF io.dict = {} THEN io
    ELSE WithRegion(io, [kind |-> "dictionary", off |-> 0, len |-> 1, names |-> io.dict])

WriteMetadata(io) ==
    WithRegion(io, [kind |-> "metadata", off |-> 0, len |-> 1, groups |-> io.groups])

Footer(io, metadata_offset) ==
    [kind |-> "footer", off |-> 0, len |-> FooterSize,
     metadata_offset |-> metadata_offset,
     first |-> IF io.first = NoOffset THEN 0 ELSE io.first,
     last  |-> IF io.first = NoOffset THEN 0 ELSE io.first,
     total |-> io.total,
     min |-> IF io.min = I64Max THEN 0 ELSE io.min,
     max |-> IF io.max = I64Min THEN 0 ELSE io.max]

(* Mutant: the offset is current_position, which the dictionary did not move.  *)
WriteFooter_AtPosition(io) == WithRegion(io, Footer(io, io.pos))

WriteFooter(io) == WithRegion(io, Footer(io, io.stream[Len(io.stream)].off))

-------------------------------------------------------------------------------
(* What a reader gets of it: IOReader::read_chunk seeks the offset and decodes *)
(* the pages that are there.                                                   *)
RegionAt(f, off) == CHOOSE r \in ToSet(f) : r.off = off

ChunkContent(f, c) == ReadChunk(RegionAt(f, c.off).pages)

\* Everything a reader can reach of a series: all its chunks, in metadata order.
Content(gs, f, d, m) ==
    IF d \notin DOMAIN gs THEN <<>>
    ELSE Joined([i \in 1..Len(gs[d]) |->
                    IF gs[d][i].name = m THEN ChunkContent(f, gs[d][i]) ELSE <<>>])
===============================================================================
