------------------------------ MODULE TimbreFile ------------------------------
(* A file's life: written by one FileWriter, then read by one FileReader        *)
(* (reader/file_reader.rs over reader/io_reader.rs).                           *)
EXTENDS FileWriter

CONSTANT Colon   \* the character ':' of the cache key

VARIABLES groups,  \* device_metadata of the open reader
          opened,  \* whether a reader is open
          cache    \* chunk_cache: from cache keys to decoded chunks

readerVars == <<groups, opened, cache>>
vars == <<writerVars, readerVars>>

-------------------------------------------------------------------------------
(* IOReader                                                                    *)

\* The file ends in a footer: large enough, and the magic number is there.
HasFooter(f) == f # <<>> /\ f[Len(f)].kind = "footer"

Metadata(f) == RegionAt(f, f[Len(f)].metadata_offset).groups

\* The chunks of that name, by their places in the device's metadata.
ChunksOf(d, m) == {i \in DOMAIN groups[d] : groups[d][i].name = m}

Has(d, m) == d \in DOMAIN groups /\ ChunksOf(d, m) # {}

(* Mutant: the last chunk of that name, as a map by name would keep.           *)
ReadFirst_Last(d, m) == ChunkContent(file, groups[d][Max(ChunksOf(d, m))])

(* IOReader::read_chunk takes the first chunk of that name.                    *)
ReadFirst(d, m) == ChunkContent(file, groups[d][Min(ChunksOf(d, m))])

-------------------------------------------------------------------------------
(* FileReader                                                                  *)

\* Mutant: the key forgets the device.
CacheKey_Measurement(d, m) == m

CacheKey(d, m) == d \o <<Colon>> \o m

Open ==
    /\ phase # "open" /\ ~opened
    /\ HasFooter(file)
    /\ opened' = TRUE
    /\ groups' = Metadata(file)
    /\ cache' = <<>>
    /\ UNCHANGED writerVars

(* read, and read_time_range, iter_measurement, get_value and count over it.   *)
Read(d, m) ==
    /\ opened
    /\ CacheKey(d, m) \notin DOMAIN cache
    /\ Has(d, m)
    /\ cache' = With(cache, CacheKey(d, m), ReadFirst(d, m))
    /\ UNCHANGED <<groups, opened>>
    /\ UNCHANGED writerVars

ClearCache ==
    /\ opened
    /\ cache' = <<>>
    /\ UNCHANGED <<groups, opened>>
    /\ UNCHANGED writerVars

Init ==
    /\ WriterInit
    /\ groups = <<>> /\ opened = FALSE /\ cache = <<>>

Next ==
    \/ WriterNext /\ UNCHANGED readerVars
    \/ Open
    \/ \E d \in Devices, m \in Measurements : Read(d, m)
    \/ ClearCache

Spec == Init /\ [][Next]_vars
-------------------------------------------------------------------------------
(* PROPERTIES                                                                  *)

(* Type invariant of the file's state.                                         *)
TypeOK ==
    /\ schemas \in [Devices -> Seq(Measurements)]
    /\ cur \in Devices \cup {NoDevice}
    /\ \A i \in DOMAIN writers : writers[i].name \in Measurements
    /\ phase \in {"open", "closed", "panicked", "gone"}
    /\ phase # "open" => call = NoCall
    /\ calls \in 0..MaxCalls /\ damaged \subseteq Devices
    /\ DOMAIN io.groups \subseteq Devices
    /\ cur # NoDevice => cur \in DOMAIN io.groups
    /\ opened \in BOOLEAN

(* The metadata addresses the chunks that are on disk and no others: each      *)
(* entry's offset is where a chunk of that name begins, no two entries share   *)
(* one, no chunk is without one, and the writer's own position is the end of   *)
(* the stream.  The position is advanced by a count of bytes made elsewhere    *)
(* than the bytes are written.                                                 *)
Chunks == {r \in ToSet(io.stream) : r.kind = "chunk"}

Entries == UNION {{<<d, i>> : i \in 1..Len(io.groups[d])} : d \in DOMAIN io.groups}

MetadataAddressesChunks ==
    /\ \A e \in Entries :
          \E r \in Chunks : /\ r.off = io.groups[e[1]][e[2]].off
                           /\ r.name = io.groups[e[1]][e[2]].name
    /\ Cardinality(Entries) = Cardinality(Chunks)
    /\ \A e, f \in Entries :
          io.groups[e[1]][e[2]].off = io.groups[f[1]][f[2]].off => e = f
    /\ io.stream[Len(io.stream)].kind \in {"header", "chunk"} =>
          io.pos = StreamEnd(io.stream)

(* A file that opens is complete, whether close returned or the process died   *)
(* after the footer: for every device none of whose chunk writers refused a    *)
(* call, the chunks of a series hold exactly the points the caller wrote, in   *)
(* order.  A device that failed takes nothing of another with it.              *)
OpenedIsComplete ==
    opened => \A d \in Devices \ damaged, m \in Measurements :
                  Content(groups, file, d, m) = offered[d][m]

(* A device that failed may lose points and never gains or reorders any.       *)
NothingInvented ==
    opened => \A d \in Devices, m \in Measurements :
        LET got == Content(groups, file, d, m)
        IN  \A i, j \in DOMAIN got : i < j =>
               \E k, l \in DOMAIN offered[d][m] :
                  k < l /\ got[i] = offered[d][m][k] /\ got[j] = offered[d][m][l]

(* A file whose close returned Ok can be read: its footer addresses the        *)
(* metadata the writer kept, past the dictionary that close put before it, and *)
(* the dictionary holds every name of it.                                      *)
FooterFindsMetadata ==
    phase = "closed" =>
        /\ HasFooter(file)
        /\ \E r \in ToSet(file) : /\ r.off = file[Len(file)].metadata_offset
                                 /\ r.kind = "metadata"
                                 /\ r.groups = io.groups
        /\ \A d \in DOMAIN io.groups : \E r \in ToSet(file) :
              /\ r.kind = "dictionary"
              /\ {d} \cup {c.name : c \in ToSet(io.groups[d])} \subseteq r.names

(* No call panics unless an earlier one was refused: with a value of the wrong *)
(* type, or for a device without schemas.                                      *)
PanicNeedsRefusal == phase = "panicked" => refused

(* A cached chunk is what the file holds for that device and measurement.      *)
CacheIsCoherent ==
    \A d \in Devices, m \in Measurements :
        CacheKey(d, m) \in DOMAIN cache =>
            Has(d, m) /\ cache[CacheKey(d, m)] = ReadFirst(d, m)

(* What read returns is a prefix of the series: its first chunk.               *)
ReadIsPrefix ==
    opened => \A d \in Devices \ damaged, m \in Measurements :
        Has(d, m) => IsPrefix(ReadFirst(d, m), offered[d][m])

-------------------------------------------------------------------------------
(* Statements of the repository that the code does not keep.                   *)

(* FileFooter.total_data_points, min_timestamp and max_timestamp: "Total de    *)
(* data points", "Timestamp minimo en el archivo" (file/metadata.rs:260-264).  *)
FooterIsExact ==
    phase = "closed" /\ damaged = {} =>
        LET footer == file[Len(file)]
            all == UNION {ToSet(offered[d][m]) : d \in Devices, m \in Measurements}
        IN  /\ footer.total = Cardinality(all)
            /\ all # {} => /\ footer.min = Min({p.t : p \in all})
                           /\ footer.max = Max({p.t : p \in all})

(* FileReader::read: "Lee todos los datos de un dispositivo y medicion"        *)
(* (reader/file_reader.rs:32).                                                 *)
ReadReturnsAll ==
    opened => \A d \in Devices \ damaged, m \in Measurements :
        Has(d, m) => ReadFirst(d, m) = offered[d][m]

(* current_writers: "Vec de writers alineado con schemas (indice directo...)"  *)
(* (writer/file_writer.rs:32), for the devices that have schemas.              *)
WritersAligned ==
    Idle /\ cur # NoDevice /\ schemas[cur] # <<>> =>
        /\ Len(writers) = Len(schemas[cur])
        /\ \A i \in 1..Len(writers) : writers[i].name = schemas[cur][i]
===============================================================================
