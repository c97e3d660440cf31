--------------------------- MODULE Pipeline_proofs ----------------------------
(* For every set of devices, tablets and batches: the file that Pipeline       *)
(* writes from tablets and batches, and what a reader of it returns.  Each     *)
(* device's series hold the points of the rows that were accepted, a result    *)
(* set is not disturbed by the calls between its batches, and the batches that *)
(* are exported are the rows of the file.                                      *)
EXTENDS Query_proofs
-------------------------------------------------------------------------------
(* Chunks on their way into the file.                                          *)

(* A file that is written: no chunk of it is empty.                            *)
Filed(io) ==
    /\ IOFine(io, Devices) /\ Plain(io.stream) /\ IsFiniteSet(DOMAIN io.groups)
    /\ \A d \in DOMAIN io.groups : \A i \in 1..Len(io.groups[d]) :
          ChunkContent(io.stream, io.groups[d][i]) # <<>>

(* The first chunk of series m has the points s.                               *)
FirstIs(io, d, m, s) ==
    \E i \in 1..Len(io.groups[d]) :
        /\ io.groups[d][i].name = m
        /\ \A j \in 1..(i - 1) : io.groups[d][j].name # m
        /\ ChunkContent(io.stream, io.groups[d][i]) = s

ContentOf(io, d, m) == Content(io.groups, io.stream, d, m)

(* The file x is the file io with more chunks, all of them of device d.        *)
Onward(io, x, d) ==
    /\ Filed(x) /\ DOMAIN x.groups = DOMAIN io.groups
    /\ \A e \in DOMAIN io.groups : \A m, s : FirstIs(io, e, m, s) => FirstIs(x, e, m, s)
    /\ \A e : e # d => \A m : ContentOf(x, e, m) = ContentOf(io, e, m)
    /\ \A e \in DOMAIN io.groups : e # d => x.groups[e] = io.groups[e]

Entered(x, y, d, name, g) ==
    /\ Len(y.groups[d]) = Len(x.groups[d]) + 1
    /\ y.groups[d][Len(x.groups[d]) + 1].name = name
    /\ ChunkContent(y.stream, y.groups[d][Len(x.groups[d]) + 1]) = g
    /\ \A i \in 1..Len(x.groups[d]) : y.groups[d][i] = x.groups[d][i]
    /\ \A e \in DOMAIN x.groups : \A i \in 1..Len(x.groups[e]) :
          ChunkContent(y.stream, x.groups[e][i]) = ChunkContent(x.stream, x.groups[e][i])
    /\ \A e \in DOMAIN x.groups : e # d => y.groups[e] = x.groups[e]

LEMMA GrewEntered ==
    ASSUME NEW x, NEW y, NEW ds, IOFine(x, ds), IOFine(y, ds), NEW d \in DOMAIN x.groups,
           NEW name, NEW g \in Seq(Points), Grew(x, y, d, name, g)
    PROVE  Entered(x, y, d, name, g)
<1>1. PICK region, entry :
        /\ y.stream = Append(x.stream, region)
        /\ y.groups = [x.groups EXCEPT ![d] = Append(@, entry)]
        /\ ReadChunk(region.pages) = g
        /\ entry \in Meta /\ entry.off = region.off /\ entry.name = name
  BY DEF Grew
<1>2. /\ Regions(x.stream) /\ Regions(y.stream) /\ IsSeq(x.stream)
      /\ Len(x.stream) \in Nat \ {0}
      /\ x.groups \in [DOMAIN x.groups -> Seq(Meta)]
  BY DEF IOFine, Regions
<1>3. /\ Len(y.stream) = Len(x.stream) + 1
      /\ y.stream[Len(x.stream) + 1] = region
      /\ \A k \in 1..Len(x.stream) : y.stream[k] = x.stream[k]
  BY <1>1, <1>2, AppendAny
<1>4. Longer(x.stream, y.stream)
  BY <1>2, <1>3 DEF Longer
<1>5. \A e \in DOMAIN x.groups : e # d => y.groups[e] = x.groups[e]
  BY <1>1, <1>2
<1>6. \A e \in DOMAIN x.groups : \A i \in 1..Len(x.groups[e]) :
         ChunkContent(y.stream, x.groups[e][i]) = ChunkContent(x.stream, x.groups[e][i])
  BY <1>2, <1>4, SameChunk
<1>7. PICK n \in Nat : n = Len(x.groups[d])
  BY <1>2
<1>8. /\ d \in DOMAIN y.groups /\ Len(y.groups[d]) = n + 1
      /\ y.groups[d][n + 1] = entry
      /\ \A i \in 1..n : y.groups[d][i] = x.groups[d][i]
  <2>1. x.groups[d] \in Seq(Meta)
    BY <1>2
  <2>2. d \in DOMAIN y.groups /\ y.groups[d] = Append(x.groups[d], entry)
    BY <1>1, <1>2
  <2> QED BY <1>1, <1>7, <2>1, <2>2, AppendProperties
<1>9. ChunkContent(y.stream, entry) = g
  <2>1. Len(x.stream) + 1 \in 1..Len(y.stream)
    BY <1>2, <1>3
  <2>2. RegionAt(y.stream, region.off) = region
    BY <1>2, <1>3, <2>1, RegionAtIs
  <2> QED BY <1>1, <2>2 DEF ChunkContent
<1> QED BY <1>1, <1>5, <1>6, <1>7, <1>8, <1>9 DEF Entered

(* No chunk is written that has no point.                                      *)
LEMMA SerializeSome ==
    ASSUME NEW cw, NEW g, Holds(cw, g), SerializeTo(cw).out = "ok"
    PROVE  g # <<>>
<1> DEFINE r == SerializeTo(cw)
           s == SealCurrentPage(cw)
           x == s.cw
<1>1. PICK c : Good(cw, c, g) /\ RestHolds(cw, c, g, <<>>) /\ c[1] = 0
  BY DEF Holds
<1> DEFINE d == After(cw, c, x, g)
<1>2. Good(x, d, g)
  BY <1>1, SealKeeps
<1>3. x.pages # <<>>
  <2>1. r = IF s.out = "ok" /\ s.cw.pages = <<>> THEN Outcome(s.cw, "err") ELSE s
    BY Zenon DEF SerializeTo
  <2> HIDE DEF s
  <2> QED BY <2>1 DEF Outcome
<1> HIDE DEF s, x, d
<1>4. /\ x \in Writer /\ g \in Seq(Points) /\ d \in Seq(Nat) /\ Len(d) = Len(x.pages) + 1
      /\ \A i \in 1..Len(d) : d[i] <= Len(g)
      /\ PagesHold(x, d, g)
  BY <1>2 DEF Good
<1>5. x.pages \in Seq(Page)
  BY <1>4 DEF Writer
<1>6. 1 \in 1..Len(x.pages) /\ 2 \in 1..Len(d) /\ 1 \in 1..Len(d) /\ Len(g) \in Nat
  BY <1>3, <1>4, <1>5
<1>7. x.pages[1].num = d[1 + 1] - d[1] /\ x.pages[1].num > 0
  BY <1>4, <1>6 DEF PagesHold, PageHolds
<1>8. d[2] \in Nat /\ d[1] \in Nat /\ d[2] <= Len(g)
  BY SMTT(30), <1>4, <1>6
<1>9. Len(g) > 0
  BY <1>6, <1>7, <1>8
<1> QED BY <1>9

Added(io, r, d, name, g) ==
    /\ r.out \in Outs /\ Filed(r.io) /\ DOMAIN r.io.groups = DOMAIN io.groups
    /\ r.out # "ok" => r.io.stream = io.stream /\ r.io.groups = io.groups
    /\ r.out = "ok" => /\ g # <<>> /\ Entered(io, r.io, d, name, g)
                      /\ \A e, m : Gained(io, r.io, d, name, g, e, m)

(* A chunk that is written is one more of its series; one that is not leaves   *)
(* the file as it is.                                                          *)
LEMMA ChunkAdds ==
    ASSUME NEW io, Filed(io), NEW d \in DOMAIN io.groups, NEW cw, NEW g, Holds(cw, g),
           Len(cw.name) \in Nat, NEW r, r = WriteChunk(io, d, cw)
    PROVE  Added(io, r, d, cw.name, g)
<1>1. /\ r.out \in Outs
      /\ DOMAIN r.io = IOFields /\ r.io.dict = io.dict \cup {cw.name}
      /\ r.out # "ok" => /\ r.io.stream = io.stream /\ r.io.groups = io.groups
                        /\ r.io.pos = io.pos
      /\ r.out = "ok" => /\ Grew(io, r.io, d, cw.name, g)
                        /\ r.io.pos = StreamEnd(r.io.stream)
  BY WriteChunkIs DEF Filed
<1>0. IOFine(io, Devices) /\ Plain(io.stream)
  BY DEF Filed
<1>2. CASE r.out # "ok"
  <2>1. Named(io.groups, r.io.dict) /\ AtEnd(r.io)
    BY <1>1, <1>2 DEF Filed, IOFine, Named, AtEnd
  <2>2. IOFine(r.io, Devices)
    BY <1>1, <1>2, <2>1 DEF Filed, IOFine
  <2>3. Filed(r.io)
    BY <1>1, <1>2, <2>2 DEF Filed
  <2> QED BY <1>1, <1>2, <2>3 DEF Added
<1>3. CASE r.out = "ok"
  <2>1. g \in Seq(Points)
    BY HoldsTyped
  <2>2. IOFine(r.io, Devices) /\ Plain(r.io.stream) /\ DOMAIN r.io.groups = DOMAIN io.groups
    <3>1. PICK name, x, y, e : name = cw.name /\ x = r.io /\ y = io /\ e = d
      OBVIOUS
    <3>2. /\ Grew(y, x, e, name, g) /\ DOMAIN x = IOFields
          /\ x.dict = y.dict \cup {name} /\ x.pos = StreamEnd(x.stream)
      BY <1>1, <1>3, <3>1
    <3>3. /\ IOFine(y, Devices) /\ Plain(y.stream) /\ e \in DOMAIN y.groups
          /\ g \in Seq(Points)
      BY <1>0, <2>1, <3>1
    <3>4. IOFine(x, Devices)
      BY <3>2, <3>3, GrewFine
    <3>5. Plain(x.stream)
      BY <3>2, <3>3, GrewFine
    <3>6. DOMAIN x.groups = DOMAIN y.groups
      BY <3>2 DEF Grew
    <3> QED BY <3>1, <3>4, <3>5, <3>6
  <2>3. Entered(io, r.io, d, cw.name, g)
    BY <1>0, <1>1, <1>3, <2>1, <2>2, GrewEntered
  <2>4. \A e, m : Gained(io, r.io, d, cw.name, g, e, m)
    BY <1>0, <1>1, <1>3, <2>1, <2>2, ContentGrew
  <2>5. SerializeTo(cw).out = "ok"
    <3>1. r = ChunkWritten(CountChunk(io, cw), d, SerializeTo(cw))
      BY DEF WriteChunk
    <3>2. PICK s : s = SerializeTo(cw)
      OBVIOUS
    <3>3. r.out = s.out
      BY <3>1, <3>2 DEF ChunkWritten
    <3> QED BY <1>3, <3>2, <3>3
  <2>6. g # <<>>
    BY <2>5, SerializeSome
  <2>7. ASSUME NEW e \in DOMAIN r.io.groups, NEW i \in 1..Len(r.io.groups[e])
        PROVE  ChunkContent(r.io.stream, r.io.groups[e][i]) # <<>>
    <3>0. io.groups \in [DOMAIN io.groups -> Seq(Meta)]
      BY DEF Filed, IOFine
    <3>1. e \in DOMAIN io.groups
      BY <2>2
    <3>2. CASE e # d
      <4>1. r.io.groups[e] = io.groups[e]
        BY <2>3, <3>1, <3>2 DEF Entered
      <4>2. ChunkContent(r.io.stream, io.groups[e][i]) = ChunkContent(io.stream, io.groups[e][i])
        BY <2>3, <3>1, <4>1 DEF Entered
      <4> QED BY <3>1, <4>1, <4>2 DEF Filed
    <3>3. CASE e = d
      <4>1. PICK n \in Nat : n = Len(io.groups[d])
        BY <3>0
      <4>2. i \in 1..n \/ i = n + 1
        BY <2>3, <3>3, <4>1 DEF Entered
      <4>3. CASE i = n + 1
        <5>1. ChunkContent(r.io.stream, r.io.groups[d][n + 1]) = g
          BY <2>3, <4>1 DEF Entered
        <5> QED BY <2>6, <3>3, <4>3, <5>1
      <4>4. CASE i \in 1..n
        <5>1. r.io.groups[d][i] = io.groups[d][i]
          BY <2>3, <4>1, <4>4 DEF Entered
        <5>2. ChunkContent(r.io.stream, io.groups[d][i]) = ChunkContent(io.stream, io.groups[d][i])
          BY <2>3, <4>1, <4>4 DEF Entered
        <5> QED BY <3>1, <3>3, <4>1, <4>4, <5>1, <5>2 DEF Filed
      <4> QED BY <4>2, <4>3, <4>4
    <3> QED BY <3>2, <3>3
  <2>8. Filed(r.io)
    BY <2>2, <2>7 DEF Filed
  <2> QED BY <1>1, <1>3, <2>2, <2>3, <2>4, <2>6, <2>8 DEF Added
<1> QED BY <1>2, <1>3

LEMMA EnteredFirst ==
    ASSUME NEW x, NEW y, NEW d \in DOMAIN x.groups, NEW name, NEW g, Entered(x, y, d, name, g),
           x.groups \in [DOMAIN x.groups -> Seq(Meta)],
           NEW e \in DOMAIN x.groups, NEW m, NEW s, FirstIs(x, e, m, s)
    PROVE  FirstIs(y, e, m, s)
<1>1. PICK i \in 1..Len(x.groups[e]) :
        /\ x.groups[e][i].name = m
        /\ \A j \in 1..(i - 1) : x.groups[e][j].name # m
        /\ ChunkContent(x.stream, x.groups[e][i]) = s
  BY DEF FirstIs
<1>2. PICK n \in Nat : n = Len(x.groups[e])
  OBVIOUS
<1>3. /\ i \in 1..Len(y.groups[e])
      /\ \A j \in 1..n : y.groups[e][j] = x.groups[e][j]
  <2>1. CASE e = d
    BY <1>2, <2>1 DEF Entered
  <2>2. CASE e # d
    BY <1>2, <2>2 DEF Entered
  <2> QED BY <2>1, <2>2
<1>4. \A j \in 1..(i - 1) : y.groups[e][j].name # m
  BY SMTT(30), <1>1, <1>2, <1>3
<1>5. ChunkContent(y.stream, y.groups[e][i]) = s
  BY <1>1, <1>2, <1>3 DEF Entered
<1> QED BY <1>1, <1>2, <1>3, <1>4, <1>5 DEF FirstIs

LEMMA ChunkOnward ==
    ASSUME NEW io, Filed(io), NEW d \in DOMAIN io.groups, NEW cw, NEW g, Holds(cw, g),
           Len(cw.name) \in Nat, NEW r, r = WriteChunk(io, d, cw)
    PROVE  Onward(io, r.io, d)
<1>1. /\ r.out \in Outs /\ Filed(r.io) /\ DOMAIN r.io.groups = DOMAIN io.groups
      /\ r.out # "ok" => r.io.stream = io.stream /\ r.io.groups = io.groups
      /\ r.out = "ok" => /\ g # <<>> /\ Entered(io, r.io, d, cw.name, g)
                        /\ \A e, m : Gained(io, r.io, d, cw.name, g, e, m)
  <2>1. Added(io, r, d, cw.name, g)
    BY ChunkAdds
  <2> QED BY <2>1 DEF Added
<1>2. CASE r.out # "ok"
  BY <1>1, <1>2 DEF Onward, FirstIs, ContentOf
<1>3. CASE r.out = "ok"
  <2>1. io.groups \in [DOMAIN io.groups -> Seq(Meta)]
    BY DEF Filed, IOFine
  <2>2. \A e \in DOMAIN io.groups : \A m, s : FirstIs(io, e, m, s) => FirstIs(r.io, e, m, s)
    BY <1>1, <1>3, <2>1, EnteredFirst
  <2>3. \A e : e # d => \A m : ContentOf(r.io, e, m) = ContentOf(io, e, m)
    BY <1>1, <1>3 DEF Gained, ContentOf
  <2>4. \A e \in DOMAIN io.groups : e # d => r.io.groups[e] = io.groups[e]
    BY <1>1, <1>3 DEF Entered
  <2> QED BY <1>1, <2>2, <2>3, <2>4 DEF Onward
<1> QED BY <1>2, <1>3

LEMMA OnwardRefl ==
    ASSUME NEW io, Filed(io), NEW d
    PROVE  Onward(io, io, d)
BY DEF Onward

LEMMA OnwardOn ==
    ASSUME NEW io, NEW x, NEW y, NEW d, Onward(io, x, d), Onward(x, y, d)
    PROVE  Onward(io, y, d)
BY DEF Onward

(* flush_device, chunk by chunk.                                               *)
Flushes(f, v) ==
    f = [n \in 0..Len(v.writers) |->
            IF n = 0 THEN [io |-> v.io, out |-> "ok"]
            ELSE IF f[n - 1].out = "ok" THEN WriteChunk(f[n - 1].io, v.cur, v.writers[n])
            ELSE f[n - 1]]

LEMMA FlushRecursion ==
    ASSUME NEW v, NEW N \in Nat, N = Len(v.writers)
    PROVE  \E f : Flushes(f, v)
<1> DEFINE base == [io |-> v.io, out |-> "ok"]
           Step(r, n) == IF r.out = "ok" THEN WriteChunk(r.io, v.cur, v.writers[n]) ELSE r
           Fits(f, n) == f = [k \in 0..n |-> IF k = 0 THEN base ELSE Step(f[k - 1], k)]
           T == {n \in Nat : \E f : Fits(f, n)}
<1>1. ASSUME NEW f, Fits(f, N) PROVE Flushes(f, v)
  BY <1>1, Zenon DEF Flushes
<1> HIDE DEF base, Step
<1>2. 0 \in T
  <2>1. Fits([k \in 0..0 |-> base], 0)
    OBVIOUS
  <2> QED BY <2>1
<1>3. ASSUME NEW n \in Nat, n \in T PROVE n + 1 \in T
  <2>1. PICK f : Fits(f, n)
    BY <1>3
  <2> DEFINE g == [k \in 0..(n + 1) |-> IF k = n + 1 THEN Step(f[n], n + 1) ELSE f[k]]
  <2>2. ASSUME NEW k \in 0..(n + 1) PROVE g[k] = IF k = 0 THEN base ELSE Step(g[k - 1], k)
    <3>1. CASE k = n + 1
      BY <3>1
    <3>2. CASE k # n + 1
      <4>1. k \in 0..n /\ (k # 0 => k - 1 \in 0..n /\ k - 1 # n + 1 /\ k - 1 \in 0..(n + 1))
        BY <3>2
      <4>2. g[k] = f[k] /\ (k # 0 => g[k - 1] = f[k - 1])
        BY <3>2, <4>1
      <4>3. f[k] = IF k = 0 THEN base ELSE Step(f[k - 1], k)
        BY <2>1, <4>1
      <4> HIDE DEF g
      <4> QED BY <4>2, <4>3
    <3> QED BY <3>1, <3>2
  <2>3. g = [k \in 0..(n + 1) |-> g[k]]
    OBVIOUS
  <2> HIDE DEF g
  <2>4. Fits(g, n + 1)
    BY <2>2, <2>3
  <2> QED BY <2>4
<1> HIDE DEF T
<1>4. Nat \subseteq T
  BY <1>2, <1>3, InductiveSet
<1>5. \E f : Fits(f, N)
  BY <1>4 DEF T
<1> HIDE DEF Fits
<1> QED BY <1>1, <1>5

LEMMA FlushDeviceIs ==
    ASSUME NEW v, Len(v.writers) \in Nat
    PROVE  \E f : Flushes(f, v) /\ FlushDevice(v) = Flushed(f[Len(v.writers)], v.cur)
<1> DEFINE f == CHOOSE f : Flushes(f, v)
<1>1. Flushes(f, v)
  BY FlushRecursion, Zenon
<1>2. FlushDevice(v) = Flushed(f[Len(v.writers)], v.cur)
  BY Zenon DEF FlushDevice, Flushes
<1> HIDE DEF f
<1> QED BY <1>1, <1>2

(* Writers of different names, each with what it holds.                        *)
Differ(ws) == \A i, j \in 1..Len(ws) : ws[i].name = ws[j].name => i = j

Hold(ws, G) ==
    /\ ws \in Seq(Writer)
    /\ \A c \in 1..Len(ws) : Len(ws[c].name) \in Nat /\ Holds(ws[c], G[c])

(* The first n writers have each added a chunk to its series.                  *)
Extend(io, x, d, ws, G, n) ==
    /\ \A c \in 1..n : G[c] # <<>>
    /\ Differ(ws) =>
         \A m : /\ \A c \in 1..n : ws[c].name = m =>
                      ContentOf(x, d, m) = ContentOf(io, d, m) \o G[c]
                /\ (\A c \in 1..n : ws[c].name # m) => ContentOf(x, d, m) = ContentOf(io, d, m)
    /\ Len(x.groups[d]) = Len(io.groups[d]) + n
    /\ io.groups[d] = <<>> => \A c \in 1..n :
          /\ x.groups[d][c].name = ws[c].name
          /\ ChunkContent(x.stream, x.groups[d][c]) = G[c]

FlushFine(io, d, ws, G, n, r) ==
    /\ r.out \in Outs /\ Onward(io, r.io, d)
    /\ r.out = "ok" => Extend(io, r.io, d, ws, G, n)

LEMMA ExtendMore ==
    ASSUME NEW io, Filed(io), NEW d \in DOMAIN io.groups, NEW ws, NEW G, Hold(ws, G),
           NEW n \in Nat, n + 1 <= Len(ws), NEW x, Onward(io, x, d), Extend(io, x, d, ws, G, n),
           NEW y, Entered(x, y, d, ws[n + 1].name, G[n + 1]), G[n + 1] # <<>>,
           \A e, m : Gained(x, y, d, ws[n + 1].name, G[n + 1], e, m)
    PROVE  Extend(io, y, d, ws, G, n + 1)
<1> DEFINE name == ws[n + 1].name
           g == G[n + 1]
<1>0. \A c \in 1..(n + 1) : c \in 1..n \/ c = n + 1
  OBVIOUS
<1>1. \A c \in 1..(n + 1) : G[c] # <<>>
  BY <1>0 DEF Extend
<1>2. ASSUME Differ(ws), NEW m
      PROVE  /\ \A c \in 1..(n + 1) : ws[c].name = m =>
                   ContentOf(y, d, m) = ContentOf(io, d, m) \o G[c]
             /\ (\A c \in 1..(n + 1) : ws[c].name # m) => ContentOf(y, d, m) = ContentOf(io, d, m)
  <2>0. Len(ws) \in Nat
    BY DEF Hold
  <2>1. ContentOf(y, d, m) = IF m = name THEN ContentOf(x, d, m) \o g ELSE ContentOf(x, d, m)
    <3>1. Gained(x, y, d, name, g, d, m)
      OBVIOUS
    <3> QED BY <3>1 DEF Gained, ContentOf
  <2>2. CASE m = name
    <3>1. \A c \in 1..n : ws[c].name # m
      BY <1>2, <2>0, <2>2 DEF Differ
    <3>2. ContentOf(x, d, m) = ContentOf(io, d, m)
      BY <1>2, <3>1 DEF Extend
    <3>3. ContentOf(y, d, m) = ContentOf(io, d, m) \o g
      BY <2>1, <2>2, <3>2
    <3>4. \A c \in 1..(n + 1) : ws[c].name = m => c = n + 1
      BY <1>0, <3>1
    <3>5. n + 1 \in 1..(n + 1)
      OBVIOUS
    <3>6. ws[n + 1].name = m
      BY <2>2
    <3> QED BY <3>3, <3>4, <3>5, <3>6, Zenon
  <2>3. CASE m # name
    <3>1. ContentOf(y, d, m) = ContentOf(x, d, m)
      BY <2>1, <2>3
    <3>2. \A c \in 1..n : ws[c].name = m => ContentOf(x, d, m) = ContentOf(io, d, m) \o G[c]
      BY <1>2 DEF Extend
    <3>3. (\A c \in 1..n : ws[c].name # m) => ContentOf(x, d, m) = ContentOf(io, d, m)
      BY <1>2 DEF Extend
    <3>4. \A c \in 1..n : c \in 1..(n + 1)
      OBVIOUS
    <3> QED BY <1>0, <2>3, <3>1, <3>2, <3>3, <3>4
  <2> QED BY <2>2, <2>3
<1>3. /\ io.groups[d] \in Seq(Meta) /\ d \in DOMAIN x.groups /\ x.groups[d] \in Seq(Meta)
  BY DEF Onward, Filed, IOFine
<1>4. Len(x.groups[d]) = Len(io.groups[d]) + n /\ Len(io.groups[d]) \in Nat
  BY <1>3 DEF Extend
<1>5. Len(y.groups[d]) = Len(io.groups[d]) + (n + 1)
  <2>1. Len(y.groups[d]) = Len(x.groups[d]) + 1
    BY DEF Entered
  <2>2. PICK p, q, k : p = Len(io.groups[d]) /\ q = Len(x.groups[d]) /\ k = Len(y.groups[d])
    OBVIOUS
  <2>3. p \in Nat /\ q = p + n /\ k = q + 1
    BY <1>4, <2>1, <2>2
  <2>4. k = p + (n + 1)
    BY <2>3
  <2> QED BY <2>2, <2>4
<1>6. ASSUME io.groups[d] = <<>>, NEW c \in 1..(n + 1)
      PROVE  /\ y.groups[d][c].name = ws[c].name
             /\ ChunkContent(y.stream, y.groups[d][c]) = G[c]
  <2>1. Len(x.groups[d]) = n
    BY <1>4, <1>6
  <2>2. CASE c = n + 1
    BY <2>1, <2>2 DEF Entered
  <2>3. CASE c \in 1..n
    <3>1. x.groups[d][c].name = ws[c].name /\ ChunkContent(x.stream, x.groups[d][c]) = G[c]
      BY <1>6, <2>3 DEF Extend
    <3>2. y.groups[d][c] = x.groups[d][c]
          /\ ChunkContent(y.stream, x.groups[d][c]) = ChunkContent(x.stream, x.groups[d][c])
      BY <1>3, <2>1, <2>3 DEF Entered
    <3> QED BY <3>1, <3>2
  <2> QED BY <1>0, <2>2, <2>3
<1> QED BY <1>1, <1>2, <1>5, <1>6 DEF Extend

LEMMA FlushStep ==
    ASSUME NEW io, Filed(io), NEW d \in DOMAIN io.groups, NEW ws, NEW G, Hold(ws, G),
           NEW n \in Nat, n + 1 <= Len(ws), NEW r, FlushFine(io, d, ws, G, n, r),
           NEW x, x = IF r.out = "ok" THEN WriteChunk(r.io, d, ws[n + 1]) ELSE r
    PROVE  FlushFine(io, d, ws, G, n + 1, x)
<1>1. CASE r.out # "ok"
  BY <1>1 DEF FlushFine
<1>2. CASE r.out = "ok"
  <2>1. Onward(io, r.io, d) /\ Extend(io, r.io, d, ws, G, n)
    BY <1>2 DEF FlushFine
  <2>2. Filed(r.io) /\ d \in DOMAIN r.io.groups
    BY <2>1 DEF Onward
  <2>3. Len(ws[n + 1].name) \in Nat /\ Holds(ws[n + 1], G[n + 1])
    BY DEF Hold
  <2>4. x = WriteChunk(r.io, d, ws[n + 1])
    BY <1>2
  <2>5. Onward(r.io, x.io, d)
    BY <2>2, <2>3, <2>4, ChunkOnward
  <2>6. Added(r.io, x, d, ws[n + 1].name, G[n + 1])
    BY <2>2, <2>3, <2>4, ChunkAdds
  <2>7. Onward(io, x.io, d)
    BY <2>1, <2>5, OnwardOn
  <2>8. x.out \in Outs /\ (x.out = "ok" => Extend(io, x.io, d, ws, G, n + 1))
    BY <2>1, <2>6, ExtendMore DEF Added
  <2> QED BY <2>7, <2>8 DEF FlushFine
<1> QED BY <1>1, <1>2

LEMMA FlushLoop ==
    ASSUME NEW v, Filed(v.io), v.cur \in DOMAIN v.io.groups, NEW G, Hold(v.writers, G),
           NEW f, Flushes(f, v)
    PROVE  FlushFine(v.io, v.cur, v.writers, G, Len(v.writers), f[Len(v.writers)])
<1> DEFINE N == Len(v.writers)
           base == [io |-> v.io, out |-> "ok"]
           Step(r, n) == IF r.out = "ok" THEN WriteChunk(r.io, v.cur, v.writers[n]) ELSE r
           Fine(n, r) == FlushFine(v.io, v.cur, v.writers, G, n, r)
           T == {n \in Nat : n <= N => Fine(n, f[n])}
<1>1. N \in Nat
  BY DEF Hold
<1>2. \A n \in 0..N : f[n] = IF n = 0 THEN base ELSE Step(f[n - 1], n)
  <2>1. f = [n \in 0..N |-> IF n = 0 THEN base ELSE Step(f[n - 1], n)]
    BY Zenon DEF Flushes
  <2> HIDE DEF N, base, Step
  <2> QED BY <2>1
<1>3. Fine(0, base)
  <2>1. Onward(v.io, v.io, v.cur)
    BY OnwardRefl
  <2>2. Extend(v.io, v.io, v.cur, v.writers, G, 0)
    <3>1. v.io.groups[v.cur] \in Seq(Meta)
      BY DEF Filed, IOFine
    <3> QED BY <3>1 DEF Extend
  <2> QED BY <2>1, <2>2 DEF FlushFine, Outs
<1>4. ASSUME NEW n \in Nat, n + 1 <= N, NEW r, Fine(n, r) PROVE Fine(n + 1, Step(r, n + 1))
  BY <1>4, FlushStep
<1> HIDE DEF N, base, Step, Fine
<1>5. 0 \in T
  <2>1. f[0] = base
    BY <1>1, <1>2
  <2> QED BY <1>3, <2>1
<1>6. ASSUME NEW n \in Nat, n \in T PROVE n + 1 \in T
  <2> SUFFICES ASSUME n + 1 <= N PROVE Fine(n + 1, f[n + 1])
    OBVIOUS
  <2>1. n + 1 \in 0..N /\ n + 1 # 0 /\ (n + 1) - 1 = n /\ n <= N
    BY <1>1
  <2>2. f[n + 1] = Step(f[n], n + 1) /\ Fine(n, f[n])
    BY <1>2, <1>6, <2>1
  <2> QED BY <1>4, <2>2
<1> HIDE DEF T
<1>7. Nat \subseteq T
  BY <1>5, <1>6, InductiveSet
<1>8. Fine(N, f[N])
  BY <1>1, <1>7 DEF T
<1> QED BY <1>8 DEF N, Fine

-------------------------------------------------------------------------------
(* The writer between calls.                                                   *)
NamedAs(ws, A) == Len(ws) = Len(A) /\ \A c \in 1..Len(ws) : ws[c].name = A[c].name

(* A group is open with a writer for each of a list of columns, or none is.    *)
GroupOpen(v) ==
    /\ v.cur \in Devices /\ v.cur \in DOMAIN v.io.groups
    /\ v.writers \in Seq(Writer)
    /\ \A c \in 1..Len(v.writers) : \E g : Holds(v.writers[c], g)
    /\ \E A \in ColumnLists(v.cur) : NamedAs(v.writers, A)

Ready(v) ==
    /\ v = [io |-> v.io, cur |-> v.cur, writers |-> v.writers]
    /\ Filed(v.io)
    /\ GroupOpen(v) \/ (v.cur = NoDevice /\ v.writers = <<>>)

(* The series m of device d has the points s: in the file and, behind them, in *)
(* the writer of the open group.                                               *)
Has(v, d, m, s) ==
    /\ \A c \in 1..Len(v.writers) : v.cur = d /\ v.writers[c].name = m =>
          \E g : Holds(v.writers[c], g) /\ s = ContentOf(v.io, d, m) \o g
    /\ (v.cur # d \/ \A c \in 1..Len(v.writers) : v.writers[c].name # m) =>
          s = ContentOf(v.io, d, m)

(* The first chunks of a device, one for each series, are of the same rows.    *)
FirstGroup(io, d, rows) ==
    d \in DOMAIN io.groups /\ io.groups[d] # <<>> =>
        \E j \in 1..Len(rows) : \A m \in Measurements :
            LET s == PointsOf(m, SubSeq(rows, 1, j))
            IN  s # <<>> => FirstIs(io, d, m, s)

(* The writer has the rows of acc, for every device but those of X.            *)
CarriesOf(v, d, rows) ==
    (\A m \in Measurements : Has(v, d, m, PointsOf(m, rows))) /\ FirstGroup(v.io, d, rows)

Carries(v, acc, X) == ColumnsAgree => \A d \in Devices \ X : CarriesOf(v, d, acc[d])

LEMMA CarriesLess ==
    ASSUME NEW v, NEW acc, NEW more, NEW X, NEW Y, Carries(v, acc, X), X \subseteq Y,
           \A d \in Devices \ Y : more[d] = acc[d]
    PROVE  Carries(v, more, Y)
BY DEF Carries

LEMMA ListsTyped ==
    ASSUME Meant, NEW d \in Devices, NEW A \in ColumnLists(d)
    PROVE  Listed(A)
<1>1. CASE A \in {x.columns : x \in {x \in TABLETS : x.device = d}}
  <2>1. PICK x \in TABLETS : A = x.columns
    BY <1>1
  <2>2. A \in Seq([name : Seq(STRING), type : STRING])
    BY <2>1, TabletAssumption
  <2>3. \A c \in DOMAIN A : A[c].name \in Measurements
    BY <2>1, FileAssumption DEF Meant
  <2>4. Len(A) \in Nat /\ DOMAIN A = 1..Len(A)
    BY <2>2
  <2> QED BY <2>3, <2>4 DEF Listed
<1>2. CASE ~(A \in {x.columns : x \in {x \in TABLETS : x.device = d}})
  <2>1. PICK b \in BATCHES : A = ColumnsOf(b)
    BY <1>2, Zenon DEF ColumnLists
  <2> DEFINE Field == [name : DOMAIN TypeOf, type : STRING, cells : Seq(NumberCells)]
  <2>2. b.columns \in Seq(Field) /\ \A x \in Field : x.name \in DOMAIN TypeOf
    BY <2>1, FileAssumption
  <2> HIDE DEF Field
  <2>3. PICK n \in Nat : n = Len(b.columns) /\ DOMAIN b.columns = 1..n
    BY <2>2
  <2>4. \A c \in 1..n : b.columns[c].name \in DOMAIN TypeOf
    BY <2>2, <2>3
  <2>5. ColumnsOf(b) = [c \in 1..n |-> [name |-> b.columns[c].name,
                                        type |-> ArrowToTimbre[b.columns[c].type]]]
    BY <2>3 DEF ColumnsOf
  <2>6. Len(A) = n /\ DOMAIN A = 1..n /\ \A c \in 1..n : A[c].name = b.columns[c].name
    BY <2>1, <2>5
  <2> QED BY <2>4, <2>6 DEF Listed, Meant
<1> QED BY <1>1, <1>2

LEMMA ListsDiffer ==
    ASSUME Meant, ColumnsAgree, NEW d \in Devices, NEW A \in ColumnLists(d), NEW ws,
           NamedAs(ws, A)
    PROVE  Differ(ws)
<1>1. DOMAIN A = 1..Len(A)
  BY ListsTyped DEF Listed
<1>2. Agree(A, A)
  BY DEF ColumnsAgree
<1> QED BY <1>1, <1>2 DEF Agree, NamedAs, Differ
-------------------------------------------------------------------------------
(* The open group's chunks are written.                                        *)
Closed(v, io) == [io |-> io, cur |-> NoDevice, writers |-> <<>>]

LEMMA OpenHolds ==
    ASSUME Meant, NEW v, GroupOpen(v), NEW G,
           \A c \in 1..Len(v.writers) : Holds(v.writers[c], G[c])
    PROVE  Hold(v.writers, G)
<1>1. ASSUME NEW c \in 1..Len(v.writers) PROVE Len(v.writers[c].name) \in Nat
  <2>1. v.writers[c].name \in Measurements
    BY HoldsTyped
  <2>2. v.writers[c].name \in Seq(STRING)
    BY <2>1, FileAssumption DEF Meant
  <2> QED BY <2>2
<1> QED BY <1>1 DEF Hold, GroupOpen

LEMMA FlushIsFine ==
    ASSUME Meant, NEW v, Filed(v.io), GroupOpen(v), NEW G, Hold(v.writers, G),
           NEW r, r = FlushDevice(v)
    PROVE  /\ r.w = Closed(v, r.w.io)
           /\ FlushFine(v.io, v.cur, v.writers, G, Len(v.writers), [io |-> r.w.io, out |-> r.out])
<1>1. Len(v.writers) \in Nat
  BY DEF GroupOpen
<1>2. PICK f : Flushes(f, v) /\ r = Flushed(f[Len(v.writers)], v.cur)
  BY <1>1, FlushDeviceIs
<1>3. PICK x : x = f[Len(v.writers)]
  OBVIOUS
<1>4. FlushFine(v.io, v.cur, v.writers, G, Len(v.writers), x)
  BY <1>2, <1>3, FlushLoop DEF GroupOpen
<1>5. r.w = Closed(v, x.io)
  BY <1>2, <1>3 DEF Flushed, Returned, Closed
<1>6. r.w.io = x.io
  BY <1>5 DEF Closed
<1>7. r.out = x.out
  <2>1. v.cur \in DOMAIN x.io.groups
    BY <1>4 DEF FlushFine, Onward, GroupOpen
  <2> QED BY <1>2, <1>3, <2>1 DEF Flushed, Returned, EndChunkGroup
<1>8. FlushFine(v.io, v.cur, v.writers, G, Len(v.writers), [io |-> r.w.io, out |-> r.out])
  BY <1>4, <1>6, <1>7 DEF FlushFine
<1> QED BY <1>5, <1>6, <1>8

Bookkeeping(acc) == acc \in [Devices -> Seq(FileRow)]

(* A device whose chunks are none of those written has what it had.            *)
LEMMA OthersCarried ==
    ASSUME NEW v, NEW x, Onward(v.io, x, v.cur), NEW d \in Devices, d # v.cur, NEW rows,
           CarriesOf(v, d, rows)
    PROVE  CarriesOf(Closed(v, x), d, rows)
<1>1. ASSUME NEW m \in Measurements PROVE Has(Closed(v, x), d, m, PointsOf(m, rows))
  <2>1. PointsOf(m, rows) = ContentOf(v.io, d, m)
    BY DEF CarriesOf, Has
  <2>2. ContentOf(x, d, m) = ContentOf(v.io, d, m)
    BY DEF Onward
  <2> QED BY <2>1, <2>2 DEF Has, Closed
<1>2. FirstGroup(x, d, rows)
  <2> SUFFICES ASSUME d \in DOMAIN x.groups, x.groups[d] # <<>>
               PROVE  \E j \in 1..Len(rows) : \A m \in Measurements :
                         LET s == PointsOf(m, SubSeq(rows, 1, j))
                         IN  s # <<>> => FirstIs(x, d, m, s)
    BY DEF FirstGroup
  <2>1. d \in DOMAIN v.io.groups /\ v.io.groups[d] # <<>>
    BY DEF Onward
  <2>2. PICK j \in 1..Len(rows) : \A m \in Measurements :
            LET s == PointsOf(m, SubSeq(rows, 1, j))
            IN  s # <<>> => FirstIs(v.io, d, m, s)
    BY <2>1 DEF CarriesOf, FirstGroup
  <2>3. \A m, s : FirstIs(v.io, d, m, s) => FirstIs(x, d, m, s)
    BY <2>1 DEF Onward
  <2> QED BY <2>2, <2>3
<1>3. Closed(v, x).io = x
  BY DEF Closed
<1> QED BY <1>1, <1>2, <1>3 DEF CarriesOf

(* What the writers of the open group hold, for a device whose rows are known. *)
LEMMA HeldOf ==
    ASSUME NEW v, GroupOpen(v), NEW rows, CarriesOf(v, v.cur, rows)
    PROVE  \E G : \A c \in 1..Len(v.writers) :
              /\ Holds(v.writers[c], G[c])
              /\ PointsOf(v.writers[c].name, rows) =
                    ContentOf(v.io, v.cur, v.writers[c].name) \o G[c]
<1> DEFINE N == Len(v.writers)
           Of(c, g) == /\ Holds(v.writers[c], g)
                       /\ PointsOf(v.writers[c].name, rows) =
                             ContentOf(v.io, v.cur, v.writers[c].name) \o g
           G == [c \in 1..N |-> CHOOSE g : Of(c, g)]
<1>1. ASSUME NEW c \in 1..N PROVE \E g : Of(c, g)
  <2>1. PICK m : m = v.writers[c].name
    OBVIOUS
  <2>2. m \in Measurements
    BY <2>1, HoldsTyped DEF GroupOpen
  <2>3. Has(v, v.cur, m, PointsOf(m, rows))
    BY <2>2 DEF CarriesOf
  <2>4. \E g : Holds(v.writers[c], g) /\ PointsOf(m, rows) = ContentOf(v.io, v.cur, m) \o g
    BY <2>1, <2>3 DEF Has
  <2> QED BY <2>1, <2>4
<1> HIDE DEF Of
<1>2. \A c \in 1..N : Of(c, G[c])
  BY <1>1
<1> HIDE DEF G, N
<1> QED BY <1>2 DEF Of, N

LEMMA EmptyContent ==
    ASSUME NEW io, NEW d, d \in DOMAIN io.groups => io.groups[d] = <<>>, NEW m
    PROVE  ContentOf(io, d, m) = <<>>
<1>1. CASE d \in DOMAIN io.groups
  <2>1. Chunked(io.groups, io.stream, d, m) = <<>>
    BY <1>1 DEF Chunked
  <2>2. Joined(<<>>) = <<>>
    <3>1. <<>> \in Seq(Seq(Points))
      OBVIOUS
    <3> QED BY <3>1, JoinedTyped
  <2>3. ContentOf(io, d, m) = Joined(Chunked(io.groups, io.stream, d, m))
    BY <1>1 DEF ContentOf, Content, Chunked
  <2> QED BY <2>1, <2>2, <2>3
<1>2. CASE d \notin DOMAIN io.groups
  BY <1>2 DEF ContentOf, Content
<1> QED BY <1>1, <1>2

(* A group that was flushed: its device has all of its rows in the file.       *)
LEMMA FlushedCarried ==
    ASSUME Meant, ColumnsAgree, NEW v, Filed(v.io), GroupOpen(v), NEW rows \in Seq(FileRow),
           CarriesOf(v, v.cur, rows),
           NEW G, \A c \in 1..Len(v.writers) :
              /\ Holds(v.writers[c], G[c])
              /\ PointsOf(v.writers[c].name, rows) =
                    ContentOf(v.io, v.cur, v.writers[c].name) \o G[c],
           NEW x, Onward(v.io, x, v.cur), Extend(v.io, x, v.cur, v.writers, G, Len(v.writers))
    PROVE  CarriesOf(Closed(v, x), v.cur, rows)
<1> DEFINE d == v.cur
           ws == v.writers
           N == Len(v.writers)
<1>0. N \in Nat /\ d \in Devices /\ d # NoDevice
  BY DEF GroupOpen, Devices
<1>1. Differ(ws)
  BY ListsDiffer DEF GroupOpen
<1>2. ASSUME NEW m \in Measurements
      PROVE  PointsOf(m, rows) = ContentOf(x, d, m)
  <2>1. CASE \E c \in 1..N : ws[c].name = m
    <3>1. PICK c \in 1..N : ws[c].name = m
      BY <2>1
    <3>2. ContentOf(x, d, m) = ContentOf(v.io, d, m) \o G[c]
      BY <1>1, <3>1 DEF Extend
    <3>3. PointsOf(m, rows) = ContentOf(v.io, d, m) \o G[c]
      BY <3>1
    <3> QED BY <3>2, <3>3
  <2>2. CASE \A c \in 1..N : ws[c].name # m
    <3>1. ContentOf(x, d, m) = ContentOf(v.io, d, m)
      BY <1>1, <2>2 DEF Extend
    <3>2. Has(v, d, m, PointsOf(m, rows))
      BY DEF CarriesOf
    <3>3. PointsOf(m, rows) = ContentOf(v.io, d, m)
      BY <2>2, <3>2 DEF Has
    <3> QED BY <3>1, <3>3
  <2> QED BY <2>1, <2>2
<1>3. \A m \in Measurements : Has(Closed(v, x), d, m, PointsOf(m, rows))
  BY <1>0, <1>2 DEF Has, Closed
<1>4. FirstGroup(x, d, rows)
  <2> SUFFICES ASSUME x.groups[d] # <<>>
               PROVE  \E j \in 1..Len(rows) : \A m \in Measurements :
                         LET s == PointsOf(m, SubSeq(rows, 1, j))
                         IN  s # <<>> => FirstIs(x, d, m, s)
    BY DEF FirstGroup
  <2>0. d \in DOMAIN v.io.groups
    BY DEF GroupOpen
  <2>1. CASE v.io.groups[d] # <<>>
    <3>1. PICK j \in 1..Len(rows) : \A m \in Measurements :
              LET s == PointsOf(m, SubSeq(rows, 1, j))
              IN  s # <<>> => FirstIs(v.io, d, m, s)
      BY <2>0, <2>1 DEF CarriesOf, FirstGroup
    <3>2. \A m, s : FirstIs(v.io, d, m, s) => FirstIs(x, d, m, s)
      BY <2>0 DEF Onward
    <3> QED BY <3>1, <3>2
  <2>2. CASE v.io.groups[d] = <<>>
    <3>1. x.groups[d] \in Seq(Meta)
      BY <2>0 DEF Onward, Filed, IOFine
    <3>2. Len(x.groups[d]) = N
      BY <1>0, <2>2 DEF Extend
    <3>3. 1 \in 1..N
      BY <1>0, <3>1, <3>2
    <3>4. \A m \in Measurements, c \in 1..N : ws[c].name = m =>
             PointsOf(m, rows) = G[c] /\ G[c] # <<>>
      <4> SUFFICES ASSUME NEW m \in Measurements, NEW c \in 1..N, ws[c].name = m
                   PROVE  PointsOf(m, rows) = G[c] /\ G[c] # <<>>
        OBVIOUS
      <4>1. ContentOf(v.io, d, m) = <<>>
        BY <2>2, EmptyContent
      <4>2. PICK g \in Seq(Points) : g = G[c]
        BY HoldsTyped
      <4>3. <<>> \o g = g
        BY <4>2
      <4>4. PointsOf(m, rows) = ContentOf(v.io, d, m) \o G[c]
        OBVIOUS
      <4>5. G[c] # <<>>
        BY DEF Extend
      <4> QED BY <4>1, <4>2, <4>3, <4>4, <4>5
    <3>5. ws[1].name \in Measurements
      BY <3>3, HoldsTyped
    <3>6. rows # <<>>
      BY <3>3, <3>4, <3>5, PointsOfTyped
    <3> DEFINE j == Len(rows)
    <3>7. j \in 1..Len(rows) /\ SubSeq(rows, 1, j) = rows
      BY <3>6
    <3>8. ASSUME NEW m \in Measurements, PointsOf(m, rows) # <<>>
          PROVE  FirstIs(x, d, m, PointsOf(m, rows))
      <4>1. PICK c \in 1..N : ws[c].name = m
        <5>1. CASE \A c \in 1..N : ws[c].name # m
          <6>1. Has(v, d, m, PointsOf(m, rows))
            BY DEF CarriesOf
          <6>2. PointsOf(m, rows) = ContentOf(v.io, d, m)
            BY <5>1, <6>1 DEF Has
          <6>3. ContentOf(v.io, d, m) = <<>>
            BY <2>2, EmptyContent
          <6> QED BY <3>8, <6>2, <6>3
        <5> QED BY <5>1
      <4>2. PointsOf(m, rows) = G[c]
        BY <3>4, <4>1
      <4>3. \A k \in 1..N : x.groups[d][k].name = ws[k].name
                            /\ ChunkContent(x.stream, x.groups[d][k]) = G[k]
        BY <2>2 DEF Extend
      <4>4. c \in 1..Len(x.groups[d])
        BY <3>2
      <4>5. ASSUME NEW k \in 1..(c - 1) PROVE x.groups[d][k].name # m
        <5>1. k \in 1..N /\ k # c
          BY <1>0
        <5>2. ws[k].name # ws[c].name
          BY <1>1, <5>1 DEF Differ
        <5> QED BY <4>1, <4>3, <5>1, <5>2
      <4> QED BY <4>1, <4>2, <4>3, <4>4, <4>5 DEF FirstIs
    <3> HIDE DEF j
    <3>9. \A m \in Measurements : PointsOf(m, SubSeq(rows, 1, j)) # <<>> =>
             FirstIs(x, d, m, PointsOf(m, SubSeq(rows, 1, j)))
      BY <3>7, <3>8
    <3> QED BY <3>7, <3>9
  <2> QED BY <2>1, <2>2
<1>5. Closed(v, x).io = x
  BY DEF Closed
<1> QED BY <1>3, <1>4, <1>5 DEF CarriesOf

(* Flush, whatever becomes of it.                                              *)
FlushesWell(v, acc, X, r) ==
    /\ r.out \in Outs /\ r.w = Closed(v, r.w.io) /\ Ready(r.w)
    /\ Carries(r.w, acc, X \cup {v.cur})
    /\ r.out = "ok" => Carries(r.w, acc, X)

LEMMA FlushHolds ==
    ASSUME Meant, NEW v, Ready(v), NEW acc, Bookkeeping(acc), NEW X, Carries(v, acc, X),
           NEW r, r = Flush(v)
    PROVE  FlushesWell(v, acc, X, r)
<1>1. CASE v.cur = NoDevice
  <2>1. ~GroupOpen(v)
    BY <1>1 DEF GroupOpen, Devices
  <2>2. r.w = v /\ r.out = "ok"
    BY <1>1 DEF Flush, Returned
  <2>3. v = Closed(v, v.io)
    BY <2>1 DEF Ready, Closed
  <2>4. Carries(v, acc, X \cup {v.cur})
    BY CarriesLess
  <2> QED BY <2>2, <2>3, <2>4 DEF FlushesWell, Outs
<1>2. CASE v.cur # NoDevice
  <2>1. GroupOpen(v) /\ Filed(v.io)
    BY <1>2 DEF Ready
  <2>2. r = FlushDevice(v)
    BY <1>2 DEF Flush
  <2> DEFINE x == r.w.io
  <2>3. ASSUME NEW G, \A c \in 1..Len(v.writers) : Holds(v.writers[c], G[c])
        PROVE  /\ r.w = Closed(v, x) /\ r.out \in Outs /\ Onward(v.io, x, v.cur)
               /\ r.out = "ok" => Extend(v.io, x, v.cur, v.writers, G, Len(v.writers))
    <3>1. Hold(v.writers, G)
      BY <2>1, <2>3, OpenHolds
    <3>2. r.w = Closed(v, x)
      BY <2>1, <2>2, <3>1, FlushIsFine
    <3>3. FlushFine(v.io, v.cur, v.writers, G, Len(v.writers), [io |-> x, out |-> r.out])
      BY <2>1, <2>2, <3>1, FlushIsFine
    <3> HIDE DEF x
    <3> QED BY <3>2, <3>3 DEF FlushFine
  <2> HIDE DEF x
  <2>4. r.w = Closed(v, x) /\ r.out \in Outs /\ Onward(v.io, x, v.cur)
    <3> DEFINE G == [c \in 1..Len(v.writers) |-> CHOOSE g : Holds(v.writers[c], g)]
    <3>1. \A c \in 1..Len(v.writers) : Holds(v.writers[c], G[c])
      BY <2>1 DEF GroupOpen
    <3> HIDE DEF G
    <3> QED BY <2>3, <3>1
  <2>5. Ready(r.w)
    BY <2>4 DEF Ready, Closed, Onward
  <2>6. ASSUME ColumnsAgree, NEW d \in Devices \ (X \cup {v.cur})
        PROVE  CarriesOf(r.w, d, acc[d])
    <3>1. CarriesOf(v, d, acc[d])
      BY <2>6 DEF Carries
    <3> QED BY <2>4, <3>1, OthersCarried
  <2>7. ASSUME ColumnsAgree, r.out = "ok", v.cur \notin X
        PROVE  CarriesOf(r.w, v.cur, acc[v.cur])
    <3>1. v.cur \in Devices
      BY <2>1 DEF GroupOpen
    <3>2. CarriesOf(v, v.cur, acc[v.cur]) /\ acc[v.cur] \in Seq(FileRow)
      BY <2>7, <3>1 DEF Carries, Bookkeeping
    <3>3. PICK G : \A c \in 1..Len(v.writers) :
              /\ Holds(v.writers[c], G[c])
              /\ PointsOf(v.writers[c].name, acc[v.cur]) =
                    ContentOf(v.io, v.cur, v.writers[c].name) \o G[c]
      BY <2>1, <3>2, HeldOf
    <3>4. Extend(v.io, x, v.cur, v.writers, G, Len(v.writers))
      BY <2>3, <2>7, <3>3
    <3>5. CarriesOf(Closed(v, x), v.cur, acc[v.cur])
      BY <2>1, <2>4, <2>7, <3>2, <3>3, <3>4, FlushedCarried
    <3> QED BY <2>4, <3>5
  <2>8. Carries(r.w, acc, X \cup {v.cur})
    BY <2>6 DEF Carries
  <2>9. r.out = "ok" => Carries(r.w, acc, X)
    BY <2>6, <2>7 DEF Carries
  <2>10. r.w.io = x
    BY DEF x
  <2> QED BY <2>4, <2>5, <2>8, <2>9, <2>10 DEF FlushesWell
<1> QED BY <1>1, <1>2

NewWriters(columns) == [c \in DOMAIN columns |-> NewChunkWriter(columns[c].name, TRUE)]

LEMMA NewWritersHold ==
    ASSUME Meant, NEW d \in Devices, NEW A \in ColumnLists(d)
    PROVE  /\ NewWriters(A) \in Seq(Writer) /\ NamedAs(NewWriters(A), A)
           /\ \A c \in 1..Len(NewWriters(A)) : Holds(NewWriters(A)[c], <<>>)
<1>1. Len(A) \in Nat /\ DOMAIN A = 1..Len(A) /\ \A c \in 1..Len(A) : A[c].name \in Measurements
  BY ListsTyped DEF Listed
<1>2. PICK n \in Nat : n = Len(A)
  BY <1>1
<1>3. ASSUME NEW c \in 1..n
      PROVE  LET cw == NewChunkWriter(A[c].name, TRUE)
             IN  cw \in Writer /\ Holds(cw, <<>>) /\ cw.name = A[c].name
  <2>1. PICK cw : cw = NewChunkWriter(A[c].name, TRUE)
    OBVIOUS
  <2>2. Holds(cw, <<>>) /\ cw.name = A[c].name
    BY <1>1, <1>2, <2>1, NewHolds
  <2>3. cw \in Writer
    BY <2>2, HoldsTyped
  <2> QED BY <2>1, <2>2, <2>3
<1>4. NewWriters(A) = [c \in 1..n |-> NewChunkWriter(A[c].name, TRUE)]
  BY <1>1, <1>2 DEF NewWriters
<1>5. NewWriters(A) \in [1..n -> Writer]
  BY <1>3, <1>4
<1>6. NewWriters(A) \in Seq(Writer) /\ Len(NewWriters(A)) = n
  BY <1>5
<1>7. \A c \in 1..n : NewWriters(A)[c].name = A[c].name /\ Holds(NewWriters(A)[c], <<>>)
  BY <1>3, <1>4
<1> QED BY <1>2, <1>6, <1>7 DEF NamedAs

LEMMA OpenGroupHolds ==
    ASSUME Meant, NEW v, Ready(v), v.cur = NoDevice, NEW tb, Writable(tb),
           NEW x, x = OpenGroup(v, tb)
    PROVE  /\ Ready(x) /\ x.cur = tb.device
           /\ \A d \in Devices, rows \in Seq(FileRow) : CarriesOf(v, d, rows) => CarriesOf(x, d, rows)
<1> DEFINE dev == tb.device
           A == tb.columns
           ws == NewWriters(A)
<1>1. dev \in Devices /\ A \in ColumnLists(dev)
  BY DEF Writable
<1>2. x = [io |-> StartChunkGroup(v.io, dev), cur |-> dev, writers |-> ws]
  BY Zenon DEF OpenGroup, NewWriters
<1>3. ws \in Seq(Writer) /\ NamedAs(ws, A) /\ \A c \in 1..Len(ws) : Holds(ws[c], <<>>)
  BY <1>1, NewWritersHold
<1> HIDE DEF ws, dev, A
<1>4. x.io = StartChunkGroup(v.io, dev) /\ x.cur = dev /\ x.writers = ws
      /\ x = [io |-> x.io, cur |-> x.cur, writers |-> x.writers]
  BY <1>2
<1>5. Filed(v.io) /\ IOFine(v.io, Devices)
  BY DEF Ready, Filed
<1>6. /\ IOFine(x.io, Devices) /\ x.io.stream = v.io.stream
      /\ DOMAIN x.io.groups = DOMAIN v.io.groups \cup {dev}
      /\ \A e \in DOMAIN v.io.groups : x.io.groups[e] = v.io.groups[e]
      /\ dev \notin DOMAIN v.io.groups => x.io.groups[dev] = <<>>
  BY <1>1, <1>4, <1>5, StartGroupFine
<1>7. Filed(x.io)
  <2>1. ASSUME NEW e \in DOMAIN x.io.groups, NEW i \in 1..Len(x.io.groups[e])
        PROVE  ChunkContent(x.io.stream, x.io.groups[e][i]) # <<>>
    <3>1. CASE e \in DOMAIN v.io.groups
      BY <1>5, <1>6, <3>1 DEF Filed
    <3>2. CASE e \notin DOMAIN v.io.groups
      <4>1. x.io.groups[e] = <<>>
        BY <1>6, <3>2
      <4> QED BY <4>1
    <3> QED BY <3>1, <3>2
  <2>2. IsFiniteSet(DOMAIN x.io.groups)
    BY <1>5, <1>6, FS_AddElement DEF Filed
  <2> QED BY <1>5, <1>6, <2>1, <2>2 DEF Filed
<1>8. Ready(x)
  BY <1>1, <1>3, <1>4, <1>6, <1>7 DEF Ready, GroupOpen
<1>9. \A d, m : ContentOf(x.io, d, m) = ContentOf(v.io, d, m)
  <2> SUFFICES ASSUME NEW d, NEW m PROVE ContentOf(x.io, d, m) = ContentOf(v.io, d, m)
    OBVIOUS
  <2>1. CASE d \in DOMAIN v.io.groups
    BY <1>6, <2>1 DEF ContentOf, Content
  <2>2. CASE d \notin DOMAIN v.io.groups
    <3>1. d \in DOMAIN x.io.groups => x.io.groups[d] = <<>>
      BY <1>6, <2>2
    <3> QED BY <2>2, <3>1, EmptyContent
  <2> QED BY <2>1, <2>2
<1>10. ASSUME NEW d \in Devices, NEW rows \in Seq(FileRow), CarriesOf(v, d, rows)
       PROVE  CarriesOf(x, d, rows)
  <2>1. ASSUME NEW m \in Measurements PROVE Has(x, d, m, PointsOf(m, rows))
    <3>1. d # NoDevice
      BY DEF Devices
    <3>2. Has(v, d, m, PointsOf(m, rows))
      BY <1>10 DEF CarriesOf
    <3>3. PICK s \in Seq(Points) : s = PointsOf(m, rows)
      BY PointsOfTyped
    <3>4. s = ContentOf(x.io, d, m)
      BY <1>9, <3>1, <3>2, <3>3 DEF Has
    <3>5. s \o <<>> = s
      OBVIOUS
    <3>6. <<>> \in Seq(Points)
      OBVIOUS
    <3>7. \A c \in 1..Len(x.writers) :
             \E g : Holds(x.writers[c], g) /\ s = ContentOf(x.io, d, m) \o g
      BY <1>3, <1>4, <3>4, <3>5
    <3> QED BY <3>3, <3>4, <3>7 DEF Has
  <2>2. FirstGroup(x.io, d, rows)
    <3> SUFFICES ASSUME d \in DOMAIN x.io.groups, x.io.groups[d] # <<>>
                 PROVE  \E j \in 1..Len(rows) : \A m \in Measurements :
                           LET s == PointsOf(m, SubSeq(rows, 1, j))
                           IN  s # <<>> => FirstIs(x.io, d, m, s)
      BY DEF FirstGroup
    <3>1. d \in DOMAIN v.io.groups /\ x.io.groups[d] = v.io.groups[d]
      BY <1>6
    <3>2. PICK j \in 1..Len(rows) : \A m \in Measurements :
              LET s == PointsOf(m, SubSeq(rows, 1, j))
              IN  s # <<>> => FirstIs(v.io, d, m, s)
      BY <1>10, <3>1 DEF CarriesOf, FirstGroup
    <3>3. \A m, s : FirstIs(v.io, d, m, s) => FirstIs(x.io, d, m, s)
      BY <1>6, <3>1 DEF FirstIs
    <3> QED BY <3>2, <3>3
  <2> QED BY <2>1, <2>2 DEF CarriesOf
<1> QED BY <1>4, <1>8, <1>10 DEF dev

(* The group of a tablet's device is open, or the old one's chunks have failed.*)
GroupsWell(v, acc, X, tb, r) ==
    /\ r.out \in Outs /\ Ready(r.w)
    /\ r.out = "ok" => r.w.cur = tb.device /\ Carries(r.w, acc, X)
    /\ Carries(r.w, acc, X \cup {v.cur})

LEMMA GroupHolds ==
    ASSUME Meant, NEW v, Ready(v), NEW acc, Bookkeeping(acc), NEW X, Carries(v, acc, X),
           NEW tb, Writable(tb), NEW r, r = GroupFor(v, tb)
    PROVE  GroupsWell(v, acc, X, tb, r)
<1>1. CASE v.cur = tb.device
  <2>1. r.w = v /\ r.out = "ok"
    BY <1>1 DEF GroupFor, Returned
  <2>2. Carries(v, acc, X \cup {v.cur})
    BY CarriesLess
  <2> QED BY <1>1, <2>1, <2>2 DEF GroupsWell, Outs
<1>2. CASE v.cur # tb.device
  <2>1. PICK f : f = Flush(v)
    OBVIOUS
  <2>2. FlushesWell(v, acc, X, f)
    BY <2>1, FlushHolds
  <2>3. r = IF f.out # "ok" THEN f ELSE Returned(OpenGroup(f.w, tb), "ok")
    BY <1>2, <2>1 DEF GroupFor
  <2>4. CASE f.out # "ok"
    BY <2>2, <2>3, <2>4 DEF GroupsWell, FlushesWell
  <2>5. CASE f.out = "ok"
    <3>1. PICK x : x = OpenGroup(f.w, tb)
      OBVIOUS
    <3>2. r.w = x /\ r.out = "ok"
      BY <2>3, <2>5, <3>1 DEF Returned
    <3>3. Ready(f.w) /\ f.w.cur = NoDevice /\ Carries(f.w, acc, X)
      BY <2>2, <2>5 DEF FlushesWell, Closed
    <3>4. Ready(x) /\ x.cur = tb.device
      BY <3>1, <3>3, OpenGroupHolds
    <3>5. \A d \in Devices, rows \in Seq(FileRow) :
             CarriesOf(f.w, d, rows) => CarriesOf(x, d, rows)
      BY <3>1, <3>3, OpenGroupHolds
    <3>6. Carries(x, acc, X)
      BY <3>3, <3>5 DEF Carries, Bookkeeping
    <3>7. Carries(x, acc, X \cup {v.cur})
      BY <3>6, CarriesLess
    <3> QED BY <3>2, <3>4, <3>6, <3>7 DEF GroupsWell, Outs
  <2> QED BY <2>4, <2>5
<1> QED BY <1>1, <1>2

-------------------------------------------------------------------------------
(* A column of another type: its values wait until a write of them is refused. *)
LEMMA LoopWaits ==
    ASSUME NEW cw, NEW rows, AreRows(rows), NEW loop, Loops(loop, cw, rows, FALSE),
           NEW k \in [0..Len(rows) -> Seq(Points)], Keeps(k, rows),
           loop[Len(rows)].out = "ok"
    PROVE  loop[Len(rows)].acc = k[Len(rows)]
<1> DEFINE N == Len(rows)
           T == {n \in Nat : n <= N /\ loop[n].out = "ok" => loop[n].acc = k[n]}
           Went(b, n) == IF b.out # "ok" THEN b ELSE BatchRow(b.cw, b.acc, rows[n], FALSE)
           base == BatchState(cw, <<>>, "ok")
<1>1. N \in Nat
  BY DEF AreRows
<1>2. \A n \in 0..N : loop[n] = IF n = 0 THEN base ELSE Went(loop[n - 1], n)
  <2>1. loop = [n \in 0..N |-> IF n = 0 THEN base ELSE Went(loop[n - 1], n)]
    BY DEF Loops
  <2> HIDE DEF N, base, Went
  <2> QED BY <2>1
<1>3. \A n \in 0..N : k[n] = IF n = 0 THEN <<>> ELSE KeptNext(k[n - 1], rows[n])
  <2>1. k = [n \in 0..N |-> IF n = 0 THEN <<>> ELSE KeptNext(k[n - 1], rows[n])]
    BY DEF Keeps, KeptNext
  <2> HIDE DEF N
  <2> QED BY <2>1
<1>4. ASSUME NEW b, NEW n
      PROVE  Went(b, n).out = "ok" => b.out = "ok" /\ Went(b, n).acc = KeptNext(b.acc, rows[n])
  <2> SUFFICES ASSUME Went(b, n).out = "ok" PROVE b.out = "ok" /\ Went(b, n).acc = KeptNext(b.acc, rows[n])
    BY Zenon
  <2>1. b.out = "ok" /\ Went(b, n) = BatchRow(b.cw, b.acc, rows[n], FALSE)
    OBVIOUS
  <2> DEFINE grown == Append(b.acc, rows[n].p)
             flushed == AppendBatch(b.cw, grown, FALSE)
             sealed == SealCurrentPage(flushed.cw)
  <2>2. BatchRow(b.cw, b.acc, rows[n], FALSE) =
           IF rows[n].null THEN BatchState(b.cw, b.acc, "ok")
           ELSE IF ~BatchIsFull(b.cw, Len(grown)) THEN BatchState(b.cw, grown, "ok")
           ELSE IF flushed.out # "ok" THEN BatchState(flushed.cw, <<>>, flushed.out)
           ELSE BatchState(sealed.cw, <<>>, sealed.out)
    BY Zenon DEF BatchRow
  <2>3. flushed.out = "err"
    BY DEF AppendBatch, Outcome
  <2> HIDE DEF Went, flushed, sealed, grown
  <2>4. CASE rows[n].null
    <3>1. Went(b, n) = BatchState(b.cw, b.acc, "ok")
      BY <2>1, <2>2, <2>4
    <3>2. Went(b, n).acc = b.acc
      BY <3>1 DEF BatchState
    <3>3. KeptNext(b.acc, rows[n]) = b.acc
      BY <2>4 DEF KeptNext
    <3> QED BY <2>1, <3>2, <3>3
  <2>5. CASE ~rows[n].null /\ ~BatchIsFull(b.cw, Len(grown))
    <3>1. Went(b, n) = BatchState(b.cw, grown, "ok")
      BY <2>1, <2>2, <2>5
    <3>2. Went(b, n).acc = grown
      BY <3>1 DEF BatchState
    <3>3. KeptNext(b.acc, rows[n]) = grown
      BY <2>5 DEF KeptNext, grown
    <3> QED BY <2>1, <3>2, <3>3
  <2>6. CASE ~rows[n].null /\ BatchIsFull(b.cw, Len(grown))
    <3>1. Went(b, n) = BatchState(flushed.cw, <<>>, flushed.out)
      BY <2>1, <2>2, <2>3, <2>6
    <3> QED BY <2>3, <3>1 DEF BatchState
  <2> QED BY <2>4, <2>5, <2>6
<1> HIDE DEF N, base, Went
<1>5. 0 \in T
  <2>1. loop[0] = base /\ k[0] = <<>>
    BY <1>1, <1>2, <1>3
  <2> QED BY <2>1 DEF base, BatchState
<1>6. ASSUME NEW n \in Nat, n \in T PROVE n + 1 \in T
  <2> SUFFICES ASSUME n + 1 <= N, loop[n + 1].out = "ok" PROVE loop[n + 1].acc = k[n + 1]
    OBVIOUS
  <2>1. n + 1 \in 0..N /\ n + 1 # 0 /\ (n + 1) - 1 = n /\ n <= N
    BY <1>1
  <2>2. loop[n + 1] = Went(loop[n], n + 1) /\ k[n + 1] = KeptNext(k[n], rows[n + 1])
    BY <1>2, <1>3, <2>1
  <2>3. loop[n].out = "ok" /\ loop[n + 1].acc = KeptNext(loop[n].acc, rows[n + 1])
    BY <1>4, <2>2
  <2>4. loop[n].acc = k[n]
    BY <1>6, <2>1, <2>3
  <2> QED BY <2>2, <2>3, <2>4
<1> HIDE DEF T
<1>7. Nat \subseteq T
  BY <1>5, <1>6, InductiveSet
<1>8. N \in T
  BY <1>1, <1>7
<1> QED BY <1>1, <1>8 DEF T, N

LEMMA BatchWaits ==
    ASSUME NEW cw, NEW g, Holds(cw, g), NEW rows, AreRows(rows),
           BatchLoop(cw, rows, FALSE).out = "ok"
    PROVE  BatchLoop(cw, rows, FALSE).acc = NonNull(rows)
<1> DEFINE loop == CHOOSE f : Loops(f, cw, rows, FALSE)
<1>1. Loops(loop, cw, rows, FALSE)
  <2>1. \E f : Loops(f, cw, rows, FALSE)
    BY LoopRecursion
  <2> QED BY <2>1, Zenon
<1>2. PICK k \in [0..Len(rows) -> Seq(Points)] : Keeps(k, rows) /\ NonNull(rows) = k[Len(rows)]
  BY KeptRecursion
<1>3. BatchLoop(cw, rows, FALSE) = loop[Len(rows)]
  BY Zenon DEF BatchLoop, Loops
<1> HIDE DEF loop
<1>4. loop[Len(rows)].acc = k[Len(rows)]
  BY <1>1, <1>2, <1>3, LoopWaits
<1> QED BY <1>2, <1>3, <1>4

(* One column of a tablet.                                                     *)
RowsFor(tb, c) == [r \in 1..RowCount(tb) |-> RowAtIndex(tb, c, r)]

Matching(name, tb, c) == Matrix(tb.columns[c].type) = Matrix(TypeOf[name])

ColumnIn(cw, now, tb, c) ==
    /\ Missing(tb, c) = {}
    /\ NonNull(RowsFor(tb, c)) \in Seq(Points)
    /\ ~Matching(cw.name, tb, c) => NonNull(RowsFor(tb, c)) = <<>>
    /\ \A g : Holds(cw, g) => Holds(now, g \o NonNull(RowsFor(tb, c)))

ColumnGoes(cw, r, tb, c) ==
    /\ r.out \in Outs /\ r.cw \in Writer /\ r.cw.name = cw.name
    /\ r.out # "panic" => \E h : Holds(r.cw, h)
    /\ r.out = "ok" => ColumnIn(cw, r.cw, tb, c)

LEMMA RowsForAre ==
    ASSUME Meant, NEW tb, Writable(tb), NEW c \in DOMAIN tb.columns, NEW n \in 0..RowCount(tb),
           NEW rows, rows = [r \in 1..n |-> RowAtIndex(tb, c, r)]
    PROVE  AreRows(rows)
<1>1. /\ tb.timestamps \in Seq(Stamps) /\ tb.values[c] \in Seq(Int)
      /\ RowCount(tb) = Len(tb.timestamps) /\ Len(tb.timestamps) \in Nat
  BY DEF Writable, RowCount
<1>2. Len(rows) = n /\ n \in Nat
  BY <1>1
<1>3. ASSUME NEW r \in 1..n PROVE rows[r].p \in Points
  <2>1. rows[r].p = [t |-> tb.timestamps[r],
                     v |-> IF r <= Len(tb.values[c]) THEN tb.values[c][r] ELSE Default]
    BY DEF RowAtIndex
  <2>2. tb.timestamps[r] \in Stamps
    BY <1>1
  <2>3. (IF r <= Len(tb.values[c]) THEN tb.values[c][r] ELSE Default) \in Int
    BY <1>1, TabletAssumption
  <2> QED BY <2>1, <2>2, <2>3 DEF Meant
<1> QED BY <1>2, <1>3 DEF AreRows, IsRow

LEMMA NoneOfNone ==
    ASSUME NEW got \in Seq(Points), Sub(got, <<>>)
    PROVE  got = <<>>
<1>1. PICK f \in [1..Len(got) -> 1..Len(<<>>)] : TRUE
  BY DEF Sub
<1>2. CASE 1 \in 1..Len(got)
  BY <1>1, <1>2
<1>3. CASE 1 \notin 1..Len(got)
  BY <1>3
<1> QED BY <1>2, <1>3

LEMMA LeastIs ==
    ASSUME NEW S \in SUBSET Nat, S # {}
    PROVE  Min(S) \in S
<1>1. PICK x \in S : \A y \in S : x <= y
  BY LeastNumber
<1> QED BY <1>1 DEF Min

(* One column is written by its writer.                                        *)
WentIn(r, tb, c, matches, g) ==
    /\ Missing(tb, c) = {} /\ NonNull(RowsFor(tb, c)) \in Seq(Points)
    /\ ~matches => NonNull(RowsFor(tb, c)) = <<>>
    /\ Holds(r.cw, g \o NonNull(RowsFor(tb, c)))

LEMMA ColumnEnds ==
    ASSUME NEW cw, NEW g, Holds(cw, g), NEW rows, AreRows(rows), NEW matches \in BOOLEAN,
           NEW b, b = BatchLoop(cw, rows, matches), b.out = "ok",
           NEW r, r = BatchEnd(b.cw, b.acc, matches)
    PROVE  /\ r.out \in Outs /\ r.cw \in Writer /\ r.cw.name = cw.name
           /\ \E h : Holds(r.cw, h)
           /\ r.out = "ok" => /\ NonNull(rows) \in Seq(Points)
                              /\ ~matches => NonNull(rows) = <<>>
                              /\ Holds(r.cw, g \o NonNull(rows))
<1>1. NonNull(rows) \in Seq(Points) /\ LoopFine(b, cw, g, NonNull(rows), matches)
  BY BatchLoopHolds
<1>2. PICK got \in Seq(Points) :
          /\ MidHolds(b, matches, g \o got) /\ Sub(got, NonNull(rows))
          /\ matches /\ b.out = "ok" => got = NonNull(rows)
  BY <1>1 DEF LoopFine
<1>3. b \in BatchStates(matches) /\ b.cw.name = cw.name
  BY <1>1 DEF LoopFine
<1>4. r.out \in Outs /\ r.cw.name = b.cw.name /\ Holds(r.cw, g \o got)
  BY <1>2, <1>3, EndHolds
<1>5. r.cw \in Writer
  BY <1>4, HoldsTyped
<1>6. ASSUME r.out = "ok", ~matches PROVE NonNull(rows) = <<>>
  <2>1. matches = FALSE
    BY <1>6
  <2>2. b.acc = NonNull(rows)
    BY <2>1, BatchWaits
  <2>3. AppendBatch(b.cw, b.acc, matches).out = "err"
    BY <2>1 DEF AppendBatch, Outcome
  <2>4. b.acc = <<>>
    BY <1>6, <2>3 DEF BatchEnd
  <2> QED BY <2>2, <2>4
<1>7. ASSUME r.out = "ok" PROVE got = NonNull(rows)
  <2>1. CASE matches
    BY <1>2, <2>1
  <2>2. CASE ~matches
    <3>1. NonNull(rows) = <<>>
      BY <1>6, <1>7, <2>2
    <3>2. got = <<>>
      BY <1>2, <3>1, NoneOfNone
    <3> QED BY <3>1, <3>2
  <2> QED BY <2>1, <2>2
<1> QED BY <1>1, <1>3, <1>4, <1>5, <1>6, <1>7

LEMMA ColumnRows ==
    ASSUME Meant, NEW tb, Writable(tb), NEW c \in DOMAIN tb.columns,
           NEW rows, rows = [r \in 1..(IF Missing(tb, c) = {} THEN RowCount(tb)
                                       ELSE Min(Missing(tb, c)) - 1) |-> RowAtIndex(tb, c, r)]
    PROVE  AreRows(rows)
<1>1. Missing(tb, c) \subseteq 1..RowCount(tb) /\ RowCount(tb) \in Nat
  BY DEF Missing, RowCount, Writable
<1> DEFINE n == IF Missing(tb, c) = {} THEN RowCount(tb) ELSE Min(Missing(tb, c)) - 1
<1>2. n \in 0..RowCount(tb)
  <2>1. CASE Missing(tb, c) = {}
    BY <1>1, <2>1
  <2>2. CASE Missing(tb, c) # {}
    <3>1. Missing(tb, c) \in SUBSET Nat
      BY <1>1
    <3>2. Min(Missing(tb, c)) \in 1..RowCount(tb)
      BY <1>1, <2>2, <3>1, LeastIs
    <3> QED BY <1>1, <2>2, <3>2
  <2> QED BY <2>1, <2>2
<1> HIDE DEF n
<1>3. rows = [r \in 1..n |-> RowAtIndex(tb, c, r)]
  BY DEF n
<1> QED BY <1>2, <1>3, RowsForAre

LEMMA ColumnGiven ==
    ASSUME Meant, NEW cw, NEW tb, Writable(tb), NEW c \in DOMAIN tb.columns,
           NEW g, Holds(cw, g), NEW r, r = WriteColumn(cw, tb, c)
    PROVE  /\ r.out \in Outs /\ r.cw \in Writer /\ r.cw.name = cw.name
           /\ r.out # "panic" => \E h : Holds(r.cw, h)
           /\ r.out = "ok" => WentIn(r, tb, c, Matching(cw.name, tb, c), g)
<1> DEFINE missing == Missing(tb, c)
           reached == IF missing = {} THEN RowCount(tb) ELSE Min(missing) - 1
           rows == [k \in 1..reached |-> RowAtIndex(tb, c, k)]
<1>1. PICK mt \in BOOLEAN : mt = Matching(cw.name, tb, c)
  BY DEF Matching
<1> DEFINE b == BatchLoop(cw, rows, mt)
<1>2. AreRows(rows)
  BY ColumnRows
<1>3. r = IF b.out # "ok" THEN Outcome(b.cw, b.out)
          ELSE IF missing # {} THEN Outcome(b.cw, "panic")
          ELSE BatchEnd(b.cw, b.acc, mt)
  BY <1>1 DEF WriteColumn, LoopEnded, Matching
<1>4. missing = {} => rows = RowsFor(tb, c)
  BY DEF RowsFor
<1>5. PICK m : m = missing
  OBVIOUS
<1>6. b = BatchLoop(cw, rows, mt) /\ m = Missing(tb, c)
  BY <1>5
<1> HIDE DEF b, rows, reached, missing
<1>7. LoopFine(b, cw, g, NonNull(rows), mt)
  BY <1>1, <1>2, <1>6, BatchLoopHolds
<1>8. b \in BatchStates(mt) /\ b.cw.name = cw.name
  BY <1>7 DEF LoopFine
<1>9. b.cw \in Writer /\ b.out \in Outs
  BY <1>8 DEF BatchStates
<1>10. CASE b.out # "ok"
  <2>1. r.cw = b.cw /\ r.out = b.out
    BY <1>3, <1>10 DEF Outcome
  <2>2. PICK h : MidHolds(b, mt, h)
    BY <1>8 DEF BatchStates
  <2>3. Holds(b.cw, h)
    BY <1>10, <2>2 DEF MidHolds, Holds
  <2> QED BY <1>8, <1>9, <1>10, <2>1, <2>3
<1>11. CASE b.out = "ok" /\ m # {}
  <2>1. r.cw = b.cw /\ r.out = "panic"
    BY <1>3, <1>5, <1>11 DEF Outcome
  <2> QED BY <1>8, <1>9, <2>1 DEF Outs
<1>12. CASE b.out = "ok" /\ m = {}
  <2>1. r = BatchEnd(b.cw, b.acc, mt)
    BY <1>3, <1>5, <1>12
  <2>2. /\ r.out \in Outs /\ r.cw \in Writer /\ r.cw.name = cw.name
        /\ \E h : Holds(r.cw, h)
        /\ r.out = "ok" => /\ NonNull(rows) \in Seq(Points)
                           /\ ~mt => NonNull(rows) = <<>>
                           /\ Holds(r.cw, g \o NonNull(rows))
    BY <1>1, <1>2, <1>6, <1>12, <2>1, ColumnEnds
  <2>3. rows = RowsFor(tb, c)
    BY <1>4, <1>5, <1>12
  <2>4. ASSUME r.out = "ok" PROVE WentIn(r, tb, c, mt, g)
    <3>1. NonNull(rows) \in Seq(Points)
      BY <2>2, <2>4
    <3>2. ~mt => NonNull(rows) = <<>>
      BY <2>2, <2>4
    <3>3. Holds(r.cw, g \o NonNull(rows))
      BY <2>2, <2>4
    <3>4. Missing(tb, c) = {}
      BY <1>6, <1>12
    <3> QED BY <2>3, <3>1, <3>2, <3>3, <3>4 DEF WentIn
  <2> QED BY <1>1, <2>2, <2>4
<1> QED BY <1>10, <1>11, <1>12

LEMMA ColumnStands ==
    ASSUME Meant, NEW cw, NEW tb, Writable(tb), NEW c \in DOMAIN tb.columns,
           \E g : Holds(cw, g), NEW r, r = WriteColumn(cw, tb, c)
    PROVE  ColumnGoes(cw, r, tb, c)
<1>1. PICK g : Holds(cw, g)
  OBVIOUS
<1>2. /\ r.out \in Outs /\ r.cw \in Writer /\ r.cw.name = cw.name
      /\ r.out # "panic" => \E h : Holds(r.cw, h)
  BY <1>1, ColumnGiven
<1>3. ASSUME r.out = "ok" PROVE ColumnIn(cw, r.cw, tb, c)
  <2>1. WentIn(r, tb, c, Matching(cw.name, tb, c), g)
    BY <1>1, <1>3, ColumnGiven
  <2>2. \A h : Holds(cw, h) => WentIn(r, tb, c, Matching(cw.name, tb, c), h)
    BY <1>3, ColumnGiven
  <2> QED BY <2>1, <2>2 DEF WentIn, ColumnIn
<1> QED BY <1>2, <1>3 DEF ColumnGoes

(* The columns of a tablet, one after the other.                               *)
Writes(f, opened, tb) ==
    f = [n \in 0..Len(opened.w.writers) |->
            IF n = 0 THEN opened
            ELSE IF f[n - 1].out # "ok" THEN f[n - 1]
            ELSE IF n > Len(tb.columns) THEN Returned(f[n - 1].w, "panic")
            ELSE ColumnWritten(f[n - 1].w, n, WriteColumn(f[n - 1].w.writers[n], tb, n))]

LEMMA WriteRecursion ==
    ASSUME NEW opened, NEW tb, NEW N \in Nat, N = Len(opened.w.writers)
    PROVE  \E f : Writes(f, opened, tb)
<1> DEFINE Step(r, n) == IF r.out # "ok" THEN r
                         ELSE IF n > Len(tb.columns) THEN Returned(r.w, "panic")
                         ELSE ColumnWritten(r.w, n, WriteColumn(r.w.writers[n], tb, n))
           Fits(f, n) == f = [k \in 0..n |-> IF k = 0 THEN opened ELSE Step(f[k - 1], k)]
           T == {n \in Nat : \E f : Fits(f, n)}
<1>1. ASSUME NEW f, Fits(f, N) PROVE Writes(f, opened, tb)
  BY <1>1, Zenon DEF Writes
<1> HIDE DEF Step
<1>2. 0 \in T
  <2>1. Fits([k \in 0..0 |-> opened], 0)
    OBVIOUS
  <2> QED BY <2>1
<1>3. ASSUME NEW n \in Nat, n \in T PROVE n + 1 \in T
  <2>1. PICK f : Fits(f, n)
    BY <1>3
  <2> DEFINE g == [k \in 0..(n + 1) |-> IF k = n + 1 THEN Step(f[n], n + 1) ELSE f[k]]
  <2>2. ASSUME NEW k \in 0..(n + 1) PROVE g[k] = IF k = 0 THEN opened ELSE Step(g[k - 1], k)
    <3>1. CASE k = n + 1
      BY <3>1
    <3>2. CASE k # n + 1
      <4>1. k \in 0..n /\ (k # 0 => k - 1 \in 0..n /\ k - 1 # n + 1 /\ k - 1 \in 0..(n + 1))
        BY <3>2
      <4>2. g[k] = f[k] /\ (k # 0 => g[k - 1] = f[k - 1])
        BY <3>2, <4>1
      <4>3. f[k] = IF k = 0 THEN opened ELSE Step(f[k - 1], k)
        BY <2>1, <4>1
      <4> HIDE DEF g
      <4> QED BY <4>2, <4>3
    <3> QED BY <3>1, <3>2
  <2>3. g = [k \in 0..(n + 1) |-> g[k]]
    OBVIOUS
  <2> HIDE DEF g
  <2>4. Fits(g, n + 1)
    BY <2>2, <2>3
  <2> QED BY <2>4
<1> HIDE DEF T
<1>4. Nat \subseteq T
  BY <1>2, <1>3, InductiveSet
<1>5. \E f : Fits(f, N)
  BY <1>4 DEF T
<1> HIDE DEF Fits
<1> QED BY <1>1, <1>5

LEMMA WriteColumnsIs ==
    ASSUME NEW opened, NEW tb, Len(opened.w.writers) \in Nat
    PROVE  \E f : Writes(f, opened, tb) /\ WriteColumns(opened, tb) = f[Len(opened.w.writers)]
<1> DEFINE f == CHOOSE f : Writes(f, opened, tb)
<1>1. Writes(f, opened, tb)
  BY WriteRecursion, Zenon
<1>2. WriteColumns(opened, tb) = f[Len(opened.w.writers)]
  BY Zenon DEF WriteColumns, Writes
<1> HIDE DEF f
<1> QED BY <1>1, <1>2

(* The writers after the first n columns.                                      *)
WroteColumns(v, x, tb, n, result) ==
    /\ result \in Outs
    /\ x = [io |-> v.io, cur |-> v.cur, writers |-> x.writers]
    /\ x.writers \in Seq(Writer) /\ Len(x.writers) = Len(v.writers)
    /\ \A c \in 1..Len(v.writers) : x.writers[c].name = v.writers[c].name
    /\ result # "panic" => \A c \in 1..Len(v.writers) : \E h : Holds(x.writers[c], h)
    /\ result = "ok" =>
          /\ n <= Len(tb.columns)
          /\ \A c \in 1..n : ColumnIn(v.writers[c], x.writers[c], tb, c)
          /\ \A c \in 1..Len(v.writers) : c > n => x.writers[c] = v.writers[c]

LEMMA WriteStep ==
    ASSUME Meant, NEW v, v.writers \in Seq(Writer), NEW tb, Writable(tb), Listed(tb.columns),
           NEW n \in Nat, n + 1 <= Len(v.writers), NEW a, WroteColumns(v, a.w, tb, n, a.out),
           a.out = "ok", n + 1 <= Len(tb.columns),
           NEW b, b = ColumnWritten(a.w, n + 1, WriteColumn(a.w.writers[n + 1], tb, n + 1))
    PROVE  WroteColumns(v, b.w, tb, n + 1, b.out)
<1>1. PICK x : x = a.w
  OBVIOUS
<1>2. PICK k \in Nat : k = Len(v.writers)
  OBVIOUS
<1>3. PICK m \in 1..k : m = n + 1
  BY <1>2
<1>4. /\ x = [io |-> v.io, cur |-> v.cur, writers |-> x.writers]
      /\ x.writers \in Seq(Writer) /\ Len(x.writers) = k
      /\ \A c \in 1..k : x.writers[c].name = v.writers[c].name
      /\ \A c \in 1..k : \E h : Holds(x.writers[c], h)
      /\ \A c \in 1..n : ColumnIn(v.writers[c], x.writers[c], tb, c)
      /\ \A c \in 1..k : c > n => x.writers[c] = v.writers[c]
  BY <1>1, <1>2 DEF WroteColumns
<1>5. PICK r : r = WriteColumn(x.writers[m], tb, m)
  OBVIOUS
<1>6. m \in DOMAIN tb.columns
  BY <1>3 DEF Listed
<1>7. ColumnGoes(x.writers[m], r, tb, m)
  BY <1>4, <1>5, <1>6, ColumnStands
<1>8. b = [w |-> [x EXCEPT !.writers[m] = r.cw], out |-> r.out]
  BY <1>1, <1>3, <1>5 DEF ColumnWritten, Returned
<1>9. PICK y : y = [x EXCEPT !.writers[m] = r.cw]
  OBVIOUS
<1>10. b.w = y /\ b.out = r.out
  BY <1>8, <1>9
<1>11. y = [io |-> v.io, cur |-> v.cur, writers |-> [x.writers EXCEPT ![m] = r.cw]]
  <2>1. PICK ws : ws = x.writers
    OBVIOUS
  <2>2. x = [io |-> v.io, cur |-> v.cur, writers |-> ws]
    BY <1>4, <2>1
  <2>3. [x EXCEPT !.writers[m] = r.cw] =
           [io |-> v.io, cur |-> v.cur, writers |-> [ws EXCEPT ![m] = r.cw]]
    BY <2>2
  <2> QED BY <1>9, <2>1, <2>3
<1>12. r.out \in Outs /\ r.cw \in Writer /\ r.cw.name = x.writers[m].name
       /\ (r.out # "panic" => \E h : Holds(r.cw, h))
  BY <1>7 DEF ColumnGoes
<1>13. /\ y.writers = [x.writers EXCEPT ![m] = r.cw] /\ y.writers \in Seq(Writer)
       /\ Len(y.writers) = k /\ y.writers[m] = r.cw
       /\ \A c \in 1..k : c # m => y.writers[c] = x.writers[c]
  <2>1. y.writers = [x.writers EXCEPT ![m] = r.cw]
    BY <1>11
  <2> QED BY <1>4, <1>12, <2>1
<1>14. y = [io |-> v.io, cur |-> v.cur, writers |-> y.writers]
  BY <1>11, <1>13
<1>15. \A c \in 1..k : y.writers[c].name = v.writers[c].name
  BY <1>4, <1>12, <1>13
<1>16. r.out # "panic" => \A c \in 1..k : \E h : Holds(y.writers[c], h)
  BY <1>4, <1>12, <1>13
<1>17. ASSUME r.out = "ok"
       PROVE  /\ \A c \in 1..(n + 1) : ColumnIn(v.writers[c], y.writers[c], tb, c)
              /\ \A c \in 1..k : c > n + 1 => y.writers[c] = v.writers[c]
  <2>1. ASSUME NEW c \in 1..(n + 1) PROVE ColumnIn(v.writers[c], y.writers[c], tb, c)
    <3>1. CASE c = m
      <4>1. ColumnIn(x.writers[m], r.cw, tb, m)
        BY <1>7, <1>17 DEF ColumnGoes
      <4>2. x.writers[m] = v.writers[m]
        BY <1>3, <1>4
      <4> QED BY <1>13, <3>1, <4>1, <4>2
    <3>2. CASE c # m
      <4>1. c \in 1..n /\ c \in 1..k
        BY <1>3, <3>2
      <4> QED BY <1>4, <1>13, <3>2, <4>1
    <3> QED BY <3>1, <3>2
  <2>2. \A c \in 1..k : c > n + 1 => y.writers[c] = v.writers[c]
    BY <1>3, <1>4, <1>13
  <2> QED BY <2>1, <2>2
<1>18. WroteColumns(v, y, tb, n + 1, r.out)
  BY <1>2, <1>12, <1>13, <1>14, <1>15, <1>16, <1>17 DEF WroteColumns
<1> QED BY <1>10, <1>18

LEMMA WriteLoop ==
    ASSUME Meant, NEW v, GroupOpen(v), v = [io |-> v.io, cur |-> v.cur, writers |-> v.writers],
           NEW tb, Writable(tb), NEW opened, opened = Returned(v, "ok"),
           NEW f, Writes(f, opened, tb)
    PROVE  WroteColumns(v, f[Len(v.writers)].w, tb, Len(v.writers), f[Len(v.writers)].out)
<1> DEFINE N == Len(v.writers)
           Step(r, n) == IF r.out # "ok" THEN r
                         ELSE IF n > Len(tb.columns) THEN Returned(r.w, "panic")
                         ELSE ColumnWritten(r.w, n, WriteColumn(r.w.writers[n], tb, n))
           Fine(n, r) == WroteColumns(v, r.w, tb, n, r.out)
           T == {n \in Nat : n <= N => Fine(n, f[n])}
<1>1. N \in Nat /\ v.writers \in Seq(Writer) /\ opened.w = v /\ opened.out = "ok"
  BY DEF GroupOpen, Returned
<1>2. \A n \in 0..N : f[n] = IF n = 0 THEN opened ELSE Step(f[n - 1], n)
  <2>1. f = [n \in 0..Len(opened.w.writers) |-> IF n = 0 THEN opened ELSE Step(f[n - 1], n)]
    BY Zenon DEF Writes
  <2>2. Len(opened.w.writers) = N
    BY <1>1
  <2> HIDE DEF N, Step
  <2> QED BY <2>1, <2>2
<1>3. Listed(tb.columns)
  BY ListsTyped DEF Writable
<1>4. Fine(0, opened)
  <2>1. \A c \in 1..Len(v.writers) : \E h : Holds(v.writers[c], h)
    BY DEF GroupOpen
  <2>2. 0 <= Len(tb.columns)
    BY <1>3 DEF Listed
  <2> QED BY <1>1, <2>1, <2>2 DEF WroteColumns, Outs
<1>5. ASSUME NEW n \in Nat, n + 1 <= N, NEW r, Fine(n, r) PROVE Fine(n + 1, Step(r, n + 1))
  <2>1. CASE r.out # "ok"
    <3>1. Step(r, n + 1) = r
      BY <2>1
    <3>2. Fine(n + 1, r)
      BY <1>5, <2>1 DEF WroteColumns
    <3> QED BY <3>1, <3>2
  <2>2. CASE r.out = "ok" /\ n + 1 > Len(tb.columns)
    <3>1. PICK b : b = Step(r, n + 1)
      OBVIOUS
    <3>2. b.w = r.w /\ b.out = "panic"
      BY <2>2, <3>1 DEF Returned
    <3>3. WroteColumns(v, b.w, tb, n + 1, b.out)
      BY <1>5, <3>2 DEF WroteColumns, Outs
    <3> QED BY <3>1, <3>3
  <2>3. CASE r.out = "ok" /\ ~(n + 1 > Len(tb.columns))
    <3>1. PICK b : b = Step(r, n + 1)
      OBVIOUS
    <3>2. b = ColumnWritten(r.w, n + 1, WriteColumn(r.w.writers[n + 1], tb, n + 1))
      BY <2>3, <3>1
    <3>3. n + 1 <= Len(tb.columns)
      BY <1>3, <2>3 DEF Listed
    <3>4. WroteColumns(v, b.w, tb, n + 1, b.out)
      BY <1>1, <1>3, <1>5, <2>3, <3>2, <3>3, WriteStep
    <3> QED BY <3>1, <3>4
  <2> QED BY <2>1, <2>2, <2>3
<1> HIDE DEF N, Step, Fine
<1>6. 0 \in T
  <2>1. f[0] = opened
    BY <1>1, <1>2
  <2> QED BY <1>4, <2>1
<1>7. ASSUME NEW n \in Nat, n \in T PROVE n + 1 \in T
  <2> SUFFICES ASSUME n + 1 <= N PROVE Fine(n + 1, f[n + 1])
    OBVIOUS
  <2>1. n + 1 \in 0..N /\ n + 1 # 0 /\ (n + 1) - 1 = n /\ n <= N
    BY <1>1
  <2>2. f[n + 1] = Step(f[n], n + 1) /\ Fine(n, f[n])
    BY <1>2, <1>7, <2>1
  <2> QED BY <1>5, <2>2
<1> HIDE DEF T
<1>8. Nat \subseteq T
  BY <1>6, <1>7, InductiveSet
<1>9. Fine(N, f[N])
  BY <1>1, <1>8 DEF T
<1> QED BY <1>9 DEF N, Fine

LEMMA WriteColumnsHold ==
    ASSUME Meant, NEW v, Ready(v), NEW tb, Writable(tb), v.cur = tb.device,
           NEW opened, opened = Returned(v, "ok"), NEW r, r = WriteColumns(opened, tb)
    PROVE  WroteColumns(v, r.w, tb, Len(v.writers), r.out)
<1>1. GroupOpen(v) /\ v = [io |-> v.io, cur |-> v.cur, writers |-> v.writers]
  BY DEF Ready, Writable, Devices
<1>2. opened.w = v /\ Len(v.writers) \in Nat
  BY <1>1 DEF GroupOpen, Returned
<1>3. PICK f : Writes(f, opened, tb) /\ WriteColumns(opened, tb) = f[Len(opened.w.writers)]
  BY <1>2, WriteColumnsIs
<1> QED BY <1>1, <1>2, <1>3, WriteLoop

(* What each writer was given of them, when it was of another name, nothing.   *)
LEMMA WriterPoints ==
    ASSUME Meant, NEW tb, Writable(tb), NEW A, Listed(A), Listed(tb.columns), Agree(A, tb.columns),
           NEW R, Represents(tb, R),
           \A c \in 1..Len(A) : /\ Missing(tb, c) = {}
                                /\ NonNull(RowsFor(tb, c)) \in Seq(Points)
                                /\ ~Matching(A[c].name, tb, c) => NonNull(RowsFor(tb, c)) = <<>>,
           NEW m
    PROVE  /\ \A c \in 1..Len(A) : A[c].name = m => PointsOf(m, R) = NonNull(RowsFor(tb, c))
           /\ (\A c \in 1..Len(A) : A[c].name # m) => PointsOf(m, R) = <<>>
<1> DEFINE B == tb.columns
<1>1. PICK n \in Nat : n = Len(A) /\ n = Len(B) /\ DOMAIN A = 1..n /\ DOMAIN B = 1..n
  BY DEF Agree, Listed
<1>2. R \in Seq(FileRow) /\ Len(R) = RowCount(tb) /\ RowCount(tb) \in Nat
  BY DEF Represents, RowCount, Writable
<1>3. ASSUME NEW c \in 1..n PROVE PointsOf(B[c].name, R) = NonNull(RowsFor(tb, c))
  <2>1. PICK name : name = B[c].name
    OBVIOUS
  <2>2. PICK rows : rows = RowsFor(tb, c)
    OBVIOUS
  <2>3. rows = [r \in 1..RowCount(tb) |-> RowAtIndex(tb, c, r)]
    BY <2>2 DEF RowsFor
  <2>4. AreRows(rows)
    <3>1. RowCount(tb) \in 0..RowCount(tb) /\ c \in DOMAIN tb.columns
      BY <1>1, <1>2
    <3> QED BY <2>3, <3>1, RowsForAre
  <2>5. Len(rows) = Len(R)
    BY <1>2, <2>3
  <2>6. Missing(tb, c) = {}
    BY <1>1
  <2>7. \A i \in 1..Len(R) : PointAt(name, R[i]) = CellOf(RowAtIndex(tb, c, i))
    BY <1>1, <2>1, <2>6 DEF Represents
  <2>8. \A i \in 1..Len(R) : PointAt(name, R[i]) = IF rows[i].null THEN <<>> ELSE <<rows[i].p>>
    BY <1>2, <2>3, <2>7 DEF CellOf
  <2>9. PointsOf(name, R) = NonNull(rows)
    BY <1>2, <2>4, <2>5, <2>8, PointsMatch
  <2> QED BY <2>1, <2>2, <2>9
<1>4. ASSUME NEW c \in 1..n, A[c].name # B[c].name
      PROVE  NonNull(RowsFor(tb, c)) = <<>>
  <2>1. Matrix(TypeOf[A[c].name]) # Matrix(B[c].type)
    BY <1>1, <1>4 DEF Agree
  <2>2. ~Matching(A[c].name, tb, c)
    BY <2>1 DEF Matching
  <2> QED BY <1>1, <2>2
<1>5. ASSUME NEW c \in 1..n, B[c].name = m, A[c].name # m PROVE PointsOf(m, R) = <<>>
  BY <1>3, <1>4, <1>5
<1>6. ASSUME \A c \in 1..n : B[c].name # m PROVE PointsOf(m, R) = <<>>
  <2>1. ASSUME NEW i \in 1..Len(R) PROVE PointAt(m, R[i]) = <<>>
    <3>1. m \notin DOMAIN R[i].cells
      BY <1>1, <1>6 DEF Represents
    <3> QED BY <3>1 DEF PointAt
  <2> QED BY <1>2, <2>1, PointsNone
<1>7. ASSUME NEW c \in 1..n, A[c].name = m PROVE PointsOf(m, R) = NonNull(RowsFor(tb, c))
  <2>1. CASE B[c].name = m
    BY <1>3, <2>1
  <2>2. CASE B[c].name # m
    <3>1. NonNull(RowsFor(tb, c)) = <<>>
      BY <1>4, <1>7, <2>2
    <3>2. ASSUME NEW e \in 1..n, B[e].name = m PROVE A[e].name # m
      <4>1. e # c
        BY <2>2, <3>2
      <4> QED BY <1>1, <1>7, <4>1 DEF Agree
    <3>3. PointsOf(m, R) = <<>>
      BY <1>5, <1>6, <3>2
    <3> QED BY <3>1, <3>3
  <2> QED BY <2>1, <2>2
<1>8. ASSUME \A c \in 1..n : A[c].name # m PROVE PointsOf(m, R) = <<>>
  BY <1>5, <1>6, <1>8
<1> HIDE DEF B
<1> QED BY <1>1, <1>7, <1>8

LEMMA PointsRegroup == \A a, b, c \in Seq(Points) : (a \o b) \o c = a \o (b \o c)
  BY ConcatAssoc

(* A device whose rows were known has those of the tablet behind them.         *)
LEMMA DeviceGrows ==
    ASSUME Meant, ColumnsAgree, NEW v, Ready(v), NEW tb, Writable(tb), v.cur = tb.device,
           NEW x, WroteColumns(v, x, tb, Len(v.writers), "ok"),
           NEW rows \in Seq(FileRow), CarriesOf(v, v.cur, rows), NEW R, Represents(tb, R)
    PROVE  CarriesOf(x, v.cur, rows \o R)
<1> DEFINE d == v.cur
           N == Len(v.writers)
           B == tb.columns
<1>1. /\ d \in Devices /\ v.writers \in Seq(Writer) /\ N \in Nat
      /\ B \in ColumnLists(d) /\ Listed(B)
  <2>1. GroupOpen(v)
    BY DEF Ready, Writable, Devices
  <2> QED BY <2>1, ListsTyped DEF GroupOpen, Writable
<1>2. PICK A \in ColumnLists(d) : NamedAs(v.writers, A)
  BY DEF Ready, GroupOpen, Writable, Devices
<1>3. Agree(A, B) /\ Listed(A) /\ Len(A) = N
  BY <1>1, <1>2, ListsTyped DEF ColumnsAgree, NamedAs
<1>4. /\ x.io = v.io /\ x.cur = v.cur
      /\ x.writers \in Seq(Writer) /\ Len(x.writers) = N
      /\ \A c \in 1..N : x.writers[c].name = v.writers[c].name
      /\ \A c \in 1..N : ColumnIn(v.writers[c], x.writers[c], tb, c)
  <2>1. x = [io |-> v.io, cur |-> v.cur, writers |-> x.writers]
    BY DEF WroteColumns
  <2>2. x.io = v.io /\ x.cur = v.cur
    BY <2>1
  <2> QED BY <2>2 DEF WroteColumns
<1>5. \A c \in 1..N : A[c].name = v.writers[c].name
  BY <1>2 DEF NamedAs
<1>6. \A c \in 1..Len(A) : /\ Missing(tb, c) = {}
                           /\ NonNull(RowsFor(tb, c)) \in Seq(Points)
                           /\ ~Matching(A[c].name, tb, c) => NonNull(RowsFor(tb, c)) = <<>>
  BY <1>3, <1>4, <1>5 DEF ColumnIn
<1>7. R \in Seq(FileRow)
  BY DEF Represents
<1>10. ASSUME NEW m
       PROVE  /\ \A c \in 1..Len(A) : A[c].name = m => PointsOf(m, R) = NonNull(RowsFor(tb, c))
              /\ (\A c \in 1..Len(A) : A[c].name # m) => PointsOf(m, R) = <<>>
  <2>1. Listed(tb.columns) /\ Agree(A, tb.columns)
    BY <1>1, <1>3
  <2> QED BY <1>3, <1>6, <2>1, WriterPoints
<1> HIDE DEF d, N, B
<1>8. ASSUME NEW m \in Measurements PROVE Has(x, d, m, PointsOf(m, rows \o R))
  <2>1. PICK s \in Seq(Points) : s = PointsOf(m, rows)
    BY PointsOfTyped
  <2>2. PICK p \in Seq(Points) : p = PointsOf(m, R)
    BY <1>7, PointsOfTyped
  <2>3. PointsOf(m, rows \o R) = s \o p
    BY <1>7, <2>1, <2>2, PointsConcat
  <2>4. PICK k : k = ContentOf(v.io, d, m)
    OBVIOUS
  <2>5. k \in Seq(Points)
    <3>1. IOFine(v.io, Devices)
      BY DEF Ready, Filed
    <3> QED BY <2>4, <3>1, ContentTyped DEF ContentOf
  <2>6. Has(v, d, m, s)
    BY <2>1 DEF CarriesOf, d
  <2>7. /\ \A c \in 1..N : A[c].name = m => p = NonNull(RowsFor(tb, c))
        /\ (\A c \in 1..N : A[c].name # m) => p = <<>>
    BY <1>3, <1>10, <2>2
  <2>8. ASSUME NEW c \in 1..N, x.writers[c].name = m
        PROVE  \E g : Holds(x.writers[c], g) /\ s \o p = k \o g
    <3>1. v.writers[c].name = m /\ A[c].name = m
      BY <1>4, <1>5, <2>8
    <3>2. PICK g : Holds(v.writers[c], g) /\ s = k \o g
      BY <2>4, <2>6, <3>1 DEF Has, d, N
    <3>3. g \in Seq(Points)
      BY <3>2, HoldsTyped
    <3>4. p = NonNull(RowsFor(tb, c))
      BY <2>7, <3>1
    <3>5. Holds(x.writers[c], g \o p)
      BY <1>4, <3>2, <3>4 DEF ColumnIn
    <3>6. (k \o g) \o p = k \o (g \o p)
      BY <2>2, <2>5, <3>3, PointsRegroup, Zenon
    <3> QED BY <3>2, <3>5, <3>6, Zenon
  <2>9. ASSUME \A c \in 1..N : x.writers[c].name # m
        PROVE  s \o p = k
    <3>1. \A c \in 1..N : A[c].name # m /\ v.writers[c].name # m
      BY <1>4, <1>5, <2>9
    <3>2. p = <<>> /\ s = k
      BY <2>4, <2>6, <2>7, <3>1 DEF Has, d, N
    <3> QED BY <2>1, <3>2
  <2>10. x.cur = d
    BY <1>4 DEF d
  <2> QED BY <1>4, <2>3, <2>4, <2>8, <2>9, <2>10 DEF Has
<1>9. FirstGroup(x.io, d, rows \o R)
  <2> SUFFICES ASSUME d \in DOMAIN x.io.groups, x.io.groups[d] # <<>>
               PROVE  \E j \in 1..Len(rows \o R) : \A m \in Measurements :
                         LET s == PointsOf(m, SubSeq(rows \o R, 1, j))
                         IN  s # <<>> => FirstIs(x.io, d, m, s)
    BY DEF FirstGroup
  <2>1. PICK j \in 1..Len(rows) : \A m \in Measurements :
            LET s == PointsOf(m, SubSeq(rows, 1, j))
            IN  s # <<>> => FirstIs(v.io, d, m, s)
    BY <1>4 DEF CarriesOf, FirstGroup, d
  <2>2. SubSeq(rows \o R, 1, j) = SubSeq(rows, 1, j) /\ j \in 1..Len(rows \o R)
    BY <1>7
  <2> QED BY <1>4, <2>1, <2>2
<1> QED BY <1>8, <1>9 DEF CarriesOf, d

(* The others have what they had.                                              *)
LEMMA OthersStay ==
    ASSUME NEW v, NEW x, x.io = v.io, x.cur = v.cur, NEW d \in Devices, d # v.cur, NEW rows,
           CarriesOf(v, d, rows)
    PROVE  CarriesOf(x, d, rows)
BY DEF CarriesOf, Has

(* A tablet that is written.                                                   *)
Grown(acc, d, R) == [acc EXCEPT ![d] = @ \o R]

WrittenWell(v, acc, X, tb, R, r) ==
    /\ r.out \in Outs
    /\ r.w.cur \in Devices \cup {NoDevice} /\ DOMAIN r.w.io.groups \subseteq Devices
    /\ r.out # "panic" => Ready(r.w) /\ Carries(r.w, acc, X \cup {v.cur, tb.device})
    /\ r.out = "ok" => /\ r.w.cur = tb.device
                       /\ (ColumnsAgree /\ tb.device \notin X => Represents(tb, R)) =>
                             Carries(r.w, Grown(acc, tb.device, R), X)

LEMMA ColumnsWritten ==
    ASSUME Meant, NEW v, Ready(v), NEW acc, Bookkeeping(acc), NEW X,
           NEW tb, Writable(tb), v.cur = tb.device, NEW R \in Seq(FileRow),
           NEW r, WroteColumns(v, r.w, tb, Len(v.writers), r.out)
    PROVE  /\ r.out \in Outs
           /\ r.w.cur \in Devices \cup {NoDevice} /\ DOMAIN r.w.io.groups \subseteq Devices
           /\ r.out # "panic" => Ready(r.w)
           /\ Carries(v, acc, X) => Carries(r.w, acc, X \cup {v.cur})
           /\ r.out = "ok" /\ Carries(v, acc, X)
              /\ (ColumnsAgree /\ tb.device \notin X => Represents(tb, R)) =>
                    Carries(r.w, Grown(acc, tb.device, R), X)
<1>1. PICK x : x = r.w
  OBVIOUS
<1>2. x = [io |-> v.io, cur |-> v.cur, writers |-> x.writers] /\ r.out \in Outs
  BY <1>1 DEF WroteColumns
<1>3. x.io = v.io /\ x.cur = v.cur
  BY <1>2
<1>4. v.cur \in Devices /\ GroupOpen(v) /\ Filed(v.io) /\ DOMAIN v.io.groups \subseteq Devices
  BY DEF Ready, Writable, Devices, Filed, IOFine
<1>5. ASSUME r.out # "panic" PROVE Ready(x)
  <2>1. /\ x.writers \in Seq(Writer) /\ Len(x.writers) = Len(v.writers)
        /\ \A c \in 1..Len(v.writers) : x.writers[c].name = v.writers[c].name
        /\ \A c \in 1..Len(v.writers) : \E h : Holds(x.writers[c], h)
    BY <1>1, <1>5 DEF WroteColumns
  <2>2. GroupOpen(x)
    BY <1>3, <1>4, <2>1 DEF GroupOpen, NamedAs
  <2>3. x = [io |-> x.io, cur |-> x.cur, writers |-> x.writers]
    BY <1>2, <1>3
  <2> QED BY <1>3, <1>4, <2>2, <2>3 DEF Ready
<1>6. ASSUME Carries(v, acc, X) PROVE Carries(x, acc, X \cup {v.cur})
  BY <1>3, <1>6, OthersStay DEF Carries
<1>7. ASSUME r.out = "ok", Carries(v, acc, X),
             ColumnsAgree /\ tb.device \notin X => Represents(tb, R)
      PROVE  Carries(x, Grown(acc, tb.device, R), X)
  <2> SUFFICES ASSUME ColumnsAgree, NEW d \in Devices \ X
               PROVE  CarriesOf(x, d, Grown(acc, tb.device, R)[d])
    BY DEF Carries
  <2>1. CarriesOf(v, d, acc[d]) /\ acc[d] \in Seq(FileRow)
    BY <1>7 DEF Carries, Bookkeeping
  <2>2. CASE d = v.cur
    <3>1. Grown(acc, tb.device, R)[d] = acc[d] \o R
      BY <2>2 DEF Grown, Bookkeeping
    <3>2. WroteColumns(v, x, tb, Len(v.writers), "ok") /\ Represents(tb, R)
      BY <1>1, <1>7, <2>2
    <3>3. CarriesOf(x, v.cur, acc[d] \o R)
      BY <2>1, <2>2, <3>2, DeviceGrows
    <3> QED BY <2>2, <3>1, <3>3
  <2>3. CASE d # v.cur
    <3>1. Grown(acc, tb.device, R)[d] = acc[d]
      BY <2>3 DEF Grown, Bookkeeping
    <3> QED BY <1>3, <2>1, <2>3, <3>1, OthersStay
  <2> QED BY <2>2, <2>3
<1> QED BY <1>1, <1>2, <1>3, <1>4, <1>5, <1>6, <1>7

LEMMA GroupReturned ==
    ASSUME NEW v, NEW tb, NEW r, r = GroupFor(v, tb), r.out = "ok"
    PROVE  r = Returned(r.w, "ok")
<1>1. CASE v.cur = tb.device
  <2>1. r = Returned(v, "ok")
    BY <1>1 DEF GroupFor
  <2> QED BY <2>1 DEF Returned
<1>2. CASE v.cur # tb.device
  <2>1. PICK f : f = Flush(v)
    OBVIOUS
  <2>2. r = IF f.out # "ok" THEN f ELSE Returned(OpenGroup(f.w, tb), "ok")
    BY <1>2, <2>1 DEF GroupFor
  <2>3. PICK x : x = OpenGroup(f.w, tb)
    OBVIOUS
  <2>4. r = Returned(x, "ok")
    BY <2>2, <2>3
  <2> QED BY <2>4 DEF Returned
<1> QED BY <1>1, <1>2

(* write_tablet                                                                *)
LEMMA WriteTabletHolds ==
    ASSUME Meant, NEW v, Ready(v), NEW acc, Bookkeeping(acc), NEW X, Carries(v, acc, X),
           NEW tb, Writable(tb), NEW R \in Seq(FileRow), NEW r, r = WriteTablet(v, tb)
    PROVE  WrittenWell(v, acc, X, tb, R, r)
<1>1. PICK o : o = GroupFor(v, tb)
  OBVIOUS
<1>2. GroupsWell(v, acc, X, tb, o)
  BY <1>1, GroupHolds
<1>3. r = IF o.out = "ok" THEN WriteColumns(o, tb) ELSE o
  BY <1>1 DEF WriteTablet
<1>4. Ready(o.w) /\ Carries(o.w, acc, X \cup {v.cur}) /\ o.out \in Outs
  BY <1>2 DEF GroupsWell
<1>5. CASE o.out # "ok"
  <2>1. r = o
    BY <1>3, <1>5
  <2>2. Carries(r.w, acc, X \cup {v.cur, tb.device})
    BY <1>4, <2>1, CarriesLess
  <2>3. r.w.cur \in Devices \cup {NoDevice} /\ DOMAIN r.w.io.groups \subseteq Devices
    BY <1>4, <2>1 DEF Ready, GroupOpen, Filed, IOFine
  <2> QED BY <1>4, <1>5, <2>1, <2>2, <2>3 DEF WrittenWell
<1>6. CASE o.out = "ok"
  <2>1. PICK x : x = o.w
    OBVIOUS
  <2>2. Ready(x) /\ x.cur = tb.device /\ Carries(x, acc, X)
    BY <1>2, <1>6, <2>1 DEF GroupsWell
  <2>3. o = Returned(x, "ok")
    BY <1>1, <1>6, <2>1, GroupReturned
  <2>4. r = WriteColumns(o, tb)
    BY <1>3, <1>6
  <2>5. WroteColumns(x, r.w, tb, Len(x.writers), r.out)
    BY <2>2, <2>3, <2>4, WriteColumnsHold
  <2>6. /\ r.out \in Outs
        /\ r.w.cur \in Devices \cup {NoDevice} /\ DOMAIN r.w.io.groups \subseteq Devices
        /\ r.out # "panic" => Ready(r.w)
    BY <2>2, <2>5, ColumnsWritten
  <2>7. Carries(r.w, acc, X \cup {x.cur})
    BY <2>2, <2>5, ColumnsWritten
  <2>8. Carries(r.w, acc, X \cup {v.cur, tb.device})
    BY <2>2, <2>7, CarriesLess
  <2>9. r.out = "ok" => r.w.cur = tb.device
    <3>1. r.w = [io |-> x.io, cur |-> x.cur, writers |-> r.w.writers]
      BY <2>5 DEF WroteColumns
    <3> QED BY <2>2, <3>1
  <2>10. r.out = "ok" /\ (ColumnsAgree /\ tb.device \notin X => Represents(tb, R)) =>
            Carries(r.w, Grown(acc, tb.device, R), X)
    BY <2>2, <2>5, ColumnsWritten
  <2> QED BY <2>6, <2>8, <2>9, <2>10 DEF WrittenWell
<1> QED BY <1>5, <1>6

-------------------------------------------------------------------------------
(* A batch is written, a device after the other.                               *)
LEMMA OrdersAre ==
    ASSUME NEW S, IsFiniteSet(S), NEW order \in SetToSeqs(S)
    PROVE  /\ order \in Seq(S)
           /\ \A i, j \in 1..Len(order) : order[i] = order[j] => i = j
           /\ \A s \in S : \E i \in 1..Len(order) : order[i] = s
<1>1. PICK n \in Nat : n = Cardinality(S)
  BY FS_CardinalityType
<1>2. order \in [1..n -> S] /\ \A i, j \in 1..n : i # j => order[i] # order[j]
  BY <1>1 DEF SetToSeqs
<1>3. order \in Injection(1..n, S)
  BY <1>2 DEF Injection, IsInjective
<1>4. IsFiniteSet(1..n) /\ Cardinality(1..n) = n
  BY FS_Interval
<1>5. order \in Surjection(1..n, S)
  BY <1>1, <1>3, <1>4, FS_Injection
<1>6. \A s \in S : \E i \in 1..n : order[i] = s
  BY <1>5 DEF Surjection
<1>7. order \in Seq(S) /\ Len(order) = n
  BY <1>2, FunctionsAreSequences
<1> QED BY <1>2, <1>6, <1>7

DevicesOf(batch) == ToSet(batch.devices) \ {NoDevice}

LEMMA DevicesOfAre ==
    ASSUME NEW batch \in BATCHES
    PROVE  DevicesOf(batch) \subseteq Devices /\ IsFiniteSet(DevicesOf(batch))
<1>1. PICK s : s = batch.devices
  OBVIOUS
<1>2. PICK n \in Nat : n = Len(s) /\ DOMAIN s = 1..n /\ s \in Seq(Devices \cup {NoDevice})
  BY <1>1, BatchTyped
<1>3. PICK T : T = ToSet(s)
  OBVIOUS
<1>4. T = {s[i] : i \in 1..n}
  BY <1>2, <1>3 DEF ToSet
<1>5. s \in Surjection(1..n, T)
  BY <1>2, <1>4 DEF Surjection
<1>6. IsFiniteSet(T)
  BY <1>5, FS_Interval, FS_Surjection
<1>7. DevicesOf(batch) \subseteq T
  BY <1>1, <1>3 DEF DevicesOf
<1>8. IsFiniteSet(DevicesOf(batch))
  BY <1>6, <1>7, FS_Subset
<1>9. \A i \in 1..n : s[i] \in Devices \cup {NoDevice}
  BY <1>2
<1>10. DevicesOf(batch) \subseteq Devices
  BY <1>1, <1>3, <1>4, <1>9 DEF DevicesOf
<1> QED BY <1>8, <1>10

WritesBatch(f, v, batch, order) ==
    f = [n \in 0..Len(order) |->
            IF n = 0 THEN Returned(v, "ok")
            ELSE IF f[n - 1].out # "ok" THEN f[n - 1]
            ELSE IF ~Extractable(batch) THEN Returned(f[n - 1].w, "err")
            ELSE WriteTablet(f[n - 1].w, BuildTablet(batch, order[n]))]

LEMMA BatchRecursion ==
    ASSUME NEW v, NEW batch, NEW order, NEW N \in Nat, N = Len(order)
    PROVE  \E f : WritesBatch(f, v, batch, order)
<1> DEFINE Step(r, n) == IF r.out # "ok" THEN r
                         ELSE IF ~Extractable(batch) THEN Returned(r.w, "err")
                         ELSE WriteTablet(r.w, BuildTablet(batch, order[n]))
           opened == Returned(v, "ok")
           Fits(f, n) == f = [k \in 0..n |-> IF k = 0 THEN opened ELSE Step(f[k - 1], k)]
           T == {n \in Nat : \E f : Fits(f, n)}
<1>1. ASSUME NEW f, Fits(f, N) PROVE WritesBatch(f, v, batch, order)
  BY <1>1, Zenon DEF WritesBatch
<1> HIDE DEF Step, opened
<1>2. 0 \in T
  <2>1. Fits([k \in 0..0 |-> opened], 0)
    OBVIOUS
  <2> QED BY <2>1
<1>3. ASSUME NEW n \in Nat, n \in T PROVE n + 1 \in T
  <2>1. PICK f : Fits(f, n)
    BY <1>3
  <2> DEFINE g == [k \in 0..(n + 1) |-> IF k = n + 1 THEN Step(f[n], n + 1) ELSE f[k]]
  <2>2. ASSUME NEW k \in 0..(n + 1) PROVE g[k] = IF k = 0 THEN opened ELSE Step(g[k - 1], k)
    <3>1. CASE k = n + 1
      BY <3>1
    <3>2. CASE k # n + 1
      <4>1. k \in 0..n /\ (k # 0 => k - 1 \in 0..n /\ k - 1 # n + 1 /\ k - 1 \in 0..(n + 1))
        BY <3>2
      <4>2. g[k] = f[k] /\ (k # 0 => g[k - 1] = f[k - 1])
        BY <3>2, <4>1
      <4>3. f[k] = IF k = 0 THEN opened ELSE Step(f[k - 1], k)
        BY <2>1, <4>1
      <4> HIDE DEF g
      <4> QED BY <4>2, <4>3
    <3> QED BY <3>1, <3>2
  <2>3. g = [k \in 0..(n + 1) |-> g[k]]
    OBVIOUS
  <2> HIDE DEF g
  <2>4. Fits(g, n + 1)
    BY <2>2, <2>3
  <2> QED BY <2>4
<1> HIDE DEF T
<1>4. Nat \subseteq T
  BY <1>2, <1>3, InductiveSet
<1>5. \E f : Fits(f, N)
  BY <1>4 DEF T
<1> HIDE DEF Fits
<1> QED BY <1>1, <1>5

BatchEnds(v, batch, order, r) ==
    \/ r = Returned(v, TimesOutcome(batch)) /\ TimesOutcome(batch) # "ok"
    \/ r = Returned(v, "err") /\ ~Extractable(batch)
    \/ TimesOutcome(batch) = "ok" /\ \E f : /\ WritesBatch(f, v, batch, order)
                                           /\ r = f[Len(order)]

LEMMA WriteBatchIs ==
    ASSUME NEW v, NEW batch, NEW order, Len(order) \in Nat, NEW r, r = WriteBatchOf(v, batch, order)
    PROVE  BatchEnds(v, batch, order, r)
<1> DEFINE f == CHOOSE f : WritesBatch(f, v, batch, order)
<1>1. WritesBatch(f, v, batch, order)
  BY BatchRecursion, Zenon
<1>2. r = IF TimesOutcome(batch) # "ok" THEN Returned(v, TimesOutcome(batch))
          ELSE IF Len(order) >= PARALLEL_THRESHOLD /\ ~Extractable(batch)
               THEN Returned(v, "err")
          ELSE f[Len(order)]
  BY Zenon DEF WriteBatchOf, WritesBatch
<1> HIDE DEF f
<1> QED BY <1>1, <1>2 DEF BatchEnds

(* What each device has of a batch when the first n of them are written.       *)
Having(acc, batch, order, n) ==
    [d \in Devices |->
        acc[d] \o (IF \E k \in 1..n : order[k] = d THEN RowsGiven(batch, d) ELSE <<>>)]

Imported(v, acc, X, batch, order, n, r) ==
    /\ r.out \in Outs
    /\ r.w.cur \in Devices \cup {NoDevice} /\ DOMAIN r.w.io.groups \subseteq Devices
    /\ r.out # "panic" => Ready(r.w) /\ Carries(r.w, acc, X \cup {v.cur} \cup DevicesOf(batch))
    /\ r.out = "ok" => /\ r.w.cur \in {v.cur} \cup DevicesOf(batch)
                       /\ Carries(r.w, Having(acc, batch, order, n), X)

LEMMA AfterTyped ==
    ASSUME Meant, NEW acc, Bookkeeping(acc), NEW batch \in BATCHES, NEW order, NEW n
    PROVE  Bookkeeping(Having(acc, batch, order, n))
<1>1. \A d \in Devices : acc[d] \in Seq(FileRow) /\ RowsGiven(batch, d) \in Seq(FileRow)
  BY RowsGivenAre DEF Bookkeeping
<1>2. ASSUME NEW d \in Devices
      PROVE  acc[d] \o (IF \E k \in 1..n : order[k] = d THEN RowsGiven(batch, d) ELSE <<>>)
                \in Seq(FileRow)
  <2>1. PICK s \in Seq(FileRow) : s = acc[d]
    BY <1>1
  <2>2. PICK t \in Seq(FileRow) :
           t = IF \E k \in 1..n : order[k] = d THEN RowsGiven(batch, d) ELSE <<>>
    <3>1. <<>> \in Seq(FileRow) /\ RowsGiven(batch, d) \in Seq(FileRow)
      BY <1>1
    <3>2. CASE \E k \in 1..n : order[k] = d
      BY <3>1, <3>2
    <3>3. CASE ~\E k \in 1..n : order[k] = d
      BY <3>1, <3>3
    <3> QED BY <3>2, <3>3
  <2>3. s \o t \in Seq(FileRow)
    OBVIOUS
  <2> QED BY <2>1, <2>2, <2>3
<1> QED BY <1>2 DEF Having, Bookkeeping

LEMMA AfterMore ==
    ASSUME Meant, NEW acc, Bookkeeping(acc), NEW batch \in BATCHES, NEW order \in Seq(Devices),
           \A i, j \in 1..Len(order) : order[i] = order[j] => i = j,
           NEW n \in Nat, n + 1 <= Len(order), NEW d \in Devices, d = order[n + 1]
    PROVE  Grown(Having(acc, batch, order, n), d, RowsGiven(batch, d)) =
              Having(acc, batch, order, n + 1)
<1>1. PICK before : before = Having(acc, batch, order, n)
  OBVIOUS
<1>2. PICK R : R = RowsGiven(batch, d)
  OBVIOUS
<1>3. PICK after : after = Having(acc, batch, order, n + 1)
  OBVIOUS
<1>4. ~\E k \in 1..n : order[k] = d
  OBVIOUS
<1>5. before[d] = acc[d] \o <<>> /\ acc[d] \in Seq(FileRow)
  BY <1>1, <1>4 DEF Having, Bookkeeping
<1>6. before[d] = acc[d]
  <2>1. PICK s \in Seq(FileRow) : s = acc[d]
    BY <1>5
  <2>2. s \o <<>> = s
    OBVIOUS
  <2> QED BY <1>5, <2>1, <2>2
<1>7. after[d] = acc[d] \o R
  <2>1. \E k \in 1..(n + 1) : order[k] = d
    BY SMT
  <2> QED BY <1>2, <1>3, <2>1 DEF Having
<1>8. ASSUME NEW e \in Devices, e # d PROVE after[e] = before[e]
  <2>1. (\E k \in 1..(n + 1) : order[k] = e) <=> (\E k \in 1..n : order[k] = e)
    BY <1>8
  <2> QED BY <1>1, <1>3, <2>1 DEF Having
<1>9. before = [e \in Devices |-> before[e]] /\ after = [e \in Devices |-> after[e]]
  BY <1>1, <1>3 DEF Having
<1>10. Grown(before, d, R) = [before EXCEPT ![d] = before[d] \o R]
  BY DEF Grown
<1>11. Grown(before, d, R) = after
  <2> DEFINE grown == [before EXCEPT ![d] = before[d] \o R]
  <2>1. before[d] \o R = after[d]
    BY <1>6, <1>7, Zenon
  <2>2. grown = [e \in Devices |-> IF e = d THEN before[d] \o R ELSE before[e]]
    BY <1>9
  <2>3. \A e \in Devices : (IF e = d THEN before[d] \o R ELSE before[e]) = after[e]
    BY <1>8, <2>1, Zenon
  <2>4. grown = [e \in Devices |-> after[e]]
    BY <2>2, <2>3
  <2> QED BY <1>9, <1>10, <2>4, Zenon
<1> QED BY <1>1, <1>2, <1>3, <1>11

(* Columns of a batch that agree with each other have names of their own.      *)
LEMMA BatchNames ==
    ASSUME ColumnsAgree, NEW batch \in BATCHES, TimesOutcome(batch) = "ok", Extractable(batch),
           NEW d \in Devices, d \in ToSet(batch.devices)
    PROVE  \A k, l \in 1..Len(batch.columns) :
              batch.columns[k].name = batch.columns[l].name => k = l
<1>1. PICK A : A = ColumnsOf(batch)
  OBVIOUS
<1>2. A \in ColumnLists(d)
  BY <1>1 DEF ColumnLists
<1>3. Agree(A, A)
  BY <1>2 DEF ColumnsAgree
<1>4. \A i, j \in DOMAIN A : A[i].name = A[j].name => i = j
  BY <1>3 DEF Agree
<1>5. DOMAIN A = 1..Len(batch.columns)
      /\ \A c \in 1..Len(batch.columns) : A[c].name = batch.columns[c].name
  BY <1>1, ColumnsOfAre
<1> QED BY <1>4, <1>5

LEMMA CarriesOn ==
    ASSUME NEW v, NEW acc, NEW X, Carries(v, acc, X), NEW more, NEW Y,
           \A d \in Devices \ Y : d \notin X /\ more[d] = acc[d]
    PROVE  Carries(v, more, Y)
<1> SUFFICES ASSUME ColumnsAgree, NEW d \in Devices \ Y PROVE CarriesOf(v, d, more[d])
  BY DEF Carries
<1>1. CarriesOf(v, d, acc[d]) /\ more[d] = acc[d]
  BY DEF Carries
<1> QED BY <1>1

LEMMA ImportStep ==
    ASSUME Meant, NEW v, NEW acc, Bookkeeping(acc), NEW X,
           NEW batch \in BATCHES, TimesOutcome(batch) = "ok", Extractable(batch),
           NEW order \in Seq(DevicesOf(batch)),
           \A i, j \in 1..Len(order) : order[i] = order[j] => i = j,
           NEW n \in Nat, n + 1 <= Len(order), NEW a, Imported(v, acc, X, batch, order, n, a),
           a.out = "ok", NEW r, r = WriteTablet(a.w, BuildTablet(batch, order[n + 1]))
    PROVE  Imported(v, acc, X, batch, order, n + 1, r)
<1>1. PICK d : d = order[n + 1]
  OBVIOUS
<1>2. d \in DevicesOf(batch) /\ d \in Devices /\ d \in ToSet(batch.devices)
  <2>1. n + 1 \in 1..Len(order)
    OBVIOUS
  <2>2. d \in DevicesOf(batch)
    BY <1>1, <2>1
  <2>3. d \in Devices
    BY <2>2, DevicesOfAre
  <2> QED BY <2>2, <2>3 DEF DevicesOf
<1>3. PICK tb : tb = BuildTablet(batch, d)
  OBVIOUS
<1>4. Writable(tb) /\ tb.device = d
  <2>1. Writable(tb)
    BY <1>2, <1>3, BuiltWritable
  <2>2. Built(tb, batch, d, RowsOf(batch, d))
    BY <1>3, BuiltIs
  <2> QED BY <2>1, <2>2 DEF Built
<1>5. PICK R \in Seq(FileRow) : R = RowsGiven(batch, d)
  BY RowsGivenAre
<1>6. PICK before : before = Having(acc, batch, order, n)
  OBVIOUS
<1>7. PICK x : x = a.w
  OBVIOUS
<1>8. /\ Ready(x) /\ Carries(x, before, X) /\ x.cur \in {v.cur} \cup DevicesOf(batch)
  BY <1>6, <1>7 DEF Imported, Outs
<1>9. Bookkeeping(before)
  BY <1>6, AfterTyped
<1>10. r = WriteTablet(x, tb)
  BY <1>1, <1>3, <1>7
<1>11. WrittenWell(x, before, X, tb, R, r)
  BY <1>4, <1>8, <1>9, <1>10, WriteTabletHolds
<1>12. ColumnsAgree => Represents(tb, R)
  <2> SUFFICES ASSUME ColumnsAgree PROVE Represents(tb, R)
    OBVIOUS
  <2>1. \A k, l \in 1..Len(batch.columns) :
           batch.columns[k].name = batch.columns[l].name => k = l
    BY <1>2, BatchNames
  <2> QED BY <1>3, <1>5, <2>1, BatchRepresents
<1>13. r.out = "ok" => Carries(r.w, Having(acc, batch, order, n + 1), X)
  <2> SUFFICES ASSUME r.out = "ok" PROVE Carries(r.w, Having(acc, batch, order, n + 1), X)
    OBVIOUS
  <2>1. Carries(r.w, Grown(before, d, R), X)
    BY <1>4, <1>11, <1>12 DEF WrittenWell
  <2>2. order \in Seq(Devices)
    <3>1. PICK m \in Nat : m = Len(order) /\ order \in [1..m -> DevicesOf(batch)]
      OBVIOUS
    <3>2. order \in [1..m -> Devices]
      BY <3>1, DevicesOfAre
    <3> QED BY <3>2, FunctionsAreSequences
  <2>3. Grown(before, d, R) = Having(acc, batch, order, n + 1)
    BY <1>1, <1>2, <1>5, <1>6, <2>2, AfterMore
  <2> QED BY <2>1, <2>3
<1>14. r.out # "panic" => Ready(r.w) /\ Carries(r.w, acc, X \cup {v.cur} \cup DevicesOf(batch))
  <2> SUFFICES ASSUME r.out # "panic"
               PROVE  Ready(r.w) /\ Carries(r.w, acc, X \cup {v.cur} \cup DevicesOf(batch))
    OBVIOUS
  <2>1. Ready(r.w) /\ Carries(r.w, before, X \cup {x.cur, d})
    BY <1>4, <1>11 DEF WrittenWell
  <2>2. ASSUME NEW e \in Devices \ (X \cup {v.cur} \cup DevicesOf(batch))
        PROVE  e \notin X \cup {x.cur, d} /\ acc[e] = before[e]
    <3>1. e \notin X \cup {x.cur, d}
      BY <1>2, <1>8
    <3>2. ~\E k \in 1..n : order[k] = e
      OBVIOUS
    <3>3. before[e] = acc[e] \o <<>>
      BY <1>6, <3>2 DEF Having
    <3>4. PICK s \in Seq(FileRow) : s = acc[e]
      BY DEF Bookkeeping
    <3>5. s \o <<>> = s
      OBVIOUS
    <3> QED BY <3>1, <3>3, <3>4, <3>5
  <2> QED BY <2>1, <2>2, CarriesOn
<1>15. r.out = "ok" => r.w.cur \in {v.cur} \cup DevicesOf(batch)
  BY <1>2, <1>4, <1>11 DEF WrittenWell
<1>16. r.out \in Outs /\ r.w.cur \in Devices \cup {NoDevice} /\ DOMAIN r.w.io.groups \subseteq Devices
  BY <1>11 DEF WrittenWell
<1> QED BY <1>13, <1>14, <1>15, <1>16 DEF Imported

LEMMA ImportLoop ==
    ASSUME Meant, NEW v, Ready(v), NEW acc, Bookkeeping(acc), NEW X, Carries(v, acc, X),
           NEW batch \in BATCHES, TimesOutcome(batch) = "ok",
           NEW order \in Seq(DevicesOf(batch)),
           \A i, j \in 1..Len(order) : order[i] = order[j] => i = j,
           NEW f, WritesBatch(f, v, batch, order)
    PROVE  Imported(v, acc, X, batch, order, Len(order), f[Len(order)])
<1> DEFINE N == Len(order)
           Step(r, n) == IF r.out # "ok" THEN r
                         ELSE IF ~Extractable(batch) THEN Returned(r.w, "err")
                         ELSE WriteTablet(r.w, BuildTablet(batch, order[n]))
           opened == Returned(v, "ok")
           Fine(n, r) == Imported(v, acc, X, batch, order, n, r)
           T == {n \in Nat : n <= N => Fine(n, f[n])}
<1>1. N \in Nat
  OBVIOUS
<1>2. \A n \in 0..N : f[n] = IF n = 0 THEN opened ELSE Step(f[n - 1], n)
  <2>1. f = [n \in 0..N |-> IF n = 0 THEN opened ELSE Step(f[n - 1], n)]
    BY Zenon DEF WritesBatch
  <2> HIDE DEF N, Step, opened
  <2> QED BY <2>1
<1>3. Fine(0, opened)
  <2>1. opened.w = v /\ opened.out = "ok"
    BY DEF Returned
  <2>2. v.cur \in Devices \cup {NoDevice} /\ DOMAIN v.io.groups \subseteq Devices
    BY DEF Ready, GroupOpen, Filed, IOFine
  <2>3. ASSUME NEW d \in Devices PROVE Having(acc, batch, order, 0)[d] = acc[d]
    <3>1. PICK s \in Seq(FileRow) : s = acc[d]
      BY DEF Bookkeeping
    <3>2. s \o <<>> = s
      OBVIOUS
    <3>3. ~\E k \in 1..0 : order[k] = d
      OBVIOUS
    <3> QED BY <3>1, <3>2, <3>3 DEF Having
  <2>4. Carries(v, Having(acc, batch, order, 0), X)
    BY <2>3, CarriesOn
  <2>5. Carries(v, acc, X \cup {v.cur} \cup DevicesOf(batch))
    BY CarriesOn
  <2> HIDE DEF opened
  <2> QED BY <2>1, <2>2, <2>4, <2>5 DEF Imported, Outs
<1>4. ASSUME NEW n \in Nat, n + 1 <= N, NEW r, Fine(n, r) PROVE Fine(n + 1, Step(r, n + 1))
  <2>1. CASE r.out # "ok"
    <3>1. Step(r, n + 1) = r
      BY <2>1
    <3>2. Fine(n + 1, r)
      BY <1>4, <2>1 DEF Imported
    <3> QED BY <3>1, <3>2
  <2>2. CASE r.out = "ok" /\ ~Extractable(batch)
    <3>1. PICK b : b = Step(r, n + 1)
      OBVIOUS
    <3>2. b.w = r.w /\ b.out = "err"
      BY <2>2, <3>1 DEF Returned
    <3>3. Imported(v, acc, X, batch, order, n + 1, b)
      BY <1>4, <2>2, <3>2 DEF Imported, Outs
    <3> QED BY <3>1, <3>3
  <2>3. CASE r.out = "ok" /\ Extractable(batch)
    <3>1. PICK b : b = Step(r, n + 1)
      OBVIOUS
    <3>2. b = WriteTablet(r.w, BuildTablet(batch, order[n + 1]))
      BY <2>3, <3>1
    <3>3. Imported(v, acc, X, batch, order, n + 1, b)
      BY <1>1, <1>4, <2>3, <3>2, ImportStep
    <3> QED BY <3>1, <3>3
  <2> QED BY <2>1, <2>2, <2>3
<1> HIDE DEF N, Step, Fine, opened
<1>5. 0 \in T
  <2>1. f[0] = opened
    BY <1>1, <1>2
  <2> QED BY <1>3, <2>1
<1>6. ASSUME NEW n \in Nat, n \in T PROVE n + 1 \in T
  <2> SUFFICES ASSUME n + 1 <= N PROVE Fine(n + 1, f[n + 1])
    OBVIOUS
  <2>1. n + 1 \in 0..N /\ n + 1 # 0 /\ (n + 1) - 1 = n /\ n <= N
    BY <1>1
  <2>2. f[n + 1] = Step(f[n], n + 1) /\ Fine(n, f[n])
    BY <1>2, <1>6, <2>1
  <2> QED BY <1>4, <2>2
<1> HIDE DEF T
<1>7. Nat \subseteq T
  BY <1>5, <1>6, InductiveSet
<1>8. Fine(N, f[N])
  BY <1>1, <1>7 DEF T
<1> QED BY <1>8 DEF N, Fine

(* What the writer has when a call is over that was for the rows given[d] of   *)
(* each device d.                                                              *)
Accepted(acc, given) ==
    [d \in Devices |-> acc[d] \o (IF d \in DOMAIN given THEN given[d] ELSE <<>>)]

EndsWell(v, acc, X, given, r) ==
    /\ r.out \in Outs
    /\ r.w.cur \in Devices \cup {NoDevice} /\ DOMAIN r.w.io.groups \subseteq Devices
    /\ r.out # "panic" => Ready(r.w)
    /\ r.out = "ok" => Bookkeeping(Accepted(acc, given)) /\ Carries(r.w, Accepted(acc, given), X)
    /\ r.out = "err" => Carries(r.w, acc, X \cup {v.cur} \cup DOMAIN given)

LEMMA ImportHolds ==
    ASSUME Meant, NEW v, Ready(v), NEW acc, Bookkeeping(acc), NEW X, Carries(v, acc, X),
           NEW batch \in BATCHES, NEW order \in SetToSeqs(DevicesOf(batch)),
           NEW r, r = WriteBatchOf(v, batch, order),
           NEW given, given = [d \in DevicesOf(batch) |-> RowsGiven(batch, d)]
    PROVE  EndsWell(v, acc, X, given, r)
<1>1. /\ order \in Seq(DevicesOf(batch)) /\ Len(order) \in Nat
      /\ \A i, j \in 1..Len(order) : order[i] = order[j] => i = j
      /\ \A d \in DevicesOf(batch) : \E i \in 1..Len(order) : order[i] = d
  BY DevicesOfAre, OrdersAre
<1>2. ASSUME NEW bad, bad \in {"err", "panic"}, r = Returned(v, bad)
      PROVE  EndsWell(v, acc, X, given, r)
  <2>1. r.w = v /\ r.out = bad
    BY <1>2 DEF Returned
  <2>2. v.cur \in Devices \cup {NoDevice} /\ DOMAIN v.io.groups \subseteq Devices
    BY DEF Ready, GroupOpen, Filed, IOFine
  <2>3. Carries(v, acc, X \cup {v.cur} \cup DOMAIN given)
    BY CarriesOn
  <2> QED BY <1>2, <2>1, <2>2, <2>3 DEF EndsWell, Outs
<1>3. CASE r = Returned(v, TimesOutcome(batch)) /\ TimesOutcome(batch) # "ok"
  <2>1. TimesOutcome(batch) \in {"err", "panic"}
    BY <1>3 DEF TimesOutcome
  <2> QED BY <1>2, <1>3, <2>1
<1>4. CASE r = Returned(v, "err")
  BY <1>2, <1>4
<1>5. CASE TimesOutcome(batch) = "ok" /\ \E f : /\ WritesBatch(f, v, batch, order)
                                               /\ r = f[Len(order)]
  <2>1. PICK f : WritesBatch(f, v, batch, order) /\ r = f[Len(order)]
    BY <1>5
  <2>2. Imported(v, acc, X, batch, order, Len(order), r)
    BY <1>1, <1>5, <2>1, ImportLoop
  <2>3. PICK after : after = Having(acc, batch, order, Len(order))
    OBVIOUS
  <2>4. after = Accepted(acc, given)
    <3>1. ASSUME NEW d \in Devices PROVE after[d] = Accepted(acc, given)[d]
      <4>1. (\E k \in 1..Len(order) : order[k] = d) <=> d \in DevicesOf(batch)
        BY <1>1
      <4>2. CASE d \in DevicesOf(batch)
        <5>1. after[d] = acc[d] \o RowsGiven(batch, d)
          BY <2>3, <4>1, <4>2 DEF Having
        <5>2. Accepted(acc, given)[d] = acc[d] \o given[d]
          BY <4>2 DEF Accepted
        <5> QED BY <4>2, <5>1, <5>2
      <4>3. CASE d \notin DevicesOf(batch)
        BY <2>3, <4>1, <4>3 DEF Having, Accepted
      <4> QED BY <4>2, <4>3
    <3>2. after = [d \in Devices |-> after[d]]
      BY <2>3 DEF Having
    <3>3. Accepted(acc, given) = [d \in Devices |-> Accepted(acc, given)[d]]
      BY DEF Accepted
    <3> QED BY <3>1, <3>2, <3>3
  <2>5. Bookkeeping(after)
    BY <2>3, AfterTyped
  <2>6. X \cup {v.cur} \cup DOMAIN given = X \cup {v.cur} \cup DevicesOf(batch)
    OBVIOUS
  <2> QED BY <2>2, <2>3, <2>4, <2>5, <2>6 DEF Imported, EndsWell
<1>6. BatchEnds(v, batch, order, r)
  BY <1>1, WriteBatchIs
<1> QED BY <1>3, <1>4, <1>5, <1>6, Zenon DEF BatchEnds

-------------------------------------------------------------------------------
(* The caller's tablet is always for the same device and of the same columns,  *)
(* and its rows have a cell for each of them.                                  *)
Stays(tb, x) == x.device = tb.device /\ x.columns = tb.columns

LEMMA PushedStays ==
    ASSUME NEW tb, Formed(tb), NEW row, NEW columns, NEW p, p = Pushed(tb, row, columns)
    PROVE  /\ Stays(tb, p)
           /\ \A m, bit : LET q == [p EXCEPT !.bitmaps[m] = bit] IN Stays(tb, q)
<1> DEFINE Bits(b, cells) ==
              LET rows(where) == {row + i - 1 : i \in where} \cap 1..b.size
              IN  [b EXCEPT !.nulls = (@ \ rows(DOMAIN cells)) \cup
                                      rows({i \in DOMAIN cells : cells[i] = <<>>})]
           V == [c \in DOMAIN tb.values |->
                    tb.values[c] \o [i \in DOMAIN columns[c] |-> Number(columns[c][i])]]
           B == [c \in DOMAIN tb.bitmaps |-> Bits(tb.bitmaps[c], columns[c])]
<1>1. p = [tb EXCEPT !.values = V, !.bitmaps = B]
  BY Zenon DEF Pushed
<1>2. tb = [device |-> tb.device, columns |-> tb.columns, max_rows |-> tb.max_rows,
            aligned |-> tb.aligned, timestamps |-> tb.timestamps,
            values |-> tb.values, bitmaps |-> tb.bitmaps]
  BY DEF Formed
<1> HIDE DEF V, B
<1>3. p = [device |-> tb.device, columns |-> tb.columns, max_rows |-> tb.max_rows,
           aligned |-> tb.aligned, timestamps |-> tb.timestamps,
           values |-> V, bitmaps |-> B]
  BY <1>1, <1>2
<1> QED BY <1>3 DEF Stays

LEMMA PushColumnsStays ==
    ASSUME NEW tb, Formed(tb), NEW row, NEW columns, NEW x, x = PushColumns(tb, row, columns)
    PROVE  /\ DOMAIN x = {"tab", "out"} /\ Stays(tb, x.tab)
           /\ \A m, bit : LET q == [x.tab EXCEPT !.bitmaps[m] = bit] IN Stays(tb, q)
<1> DEFINE fitting == [c \in DOMAIN columns |-> Fitting(tb.columns[c], columns[c])]
           short == {c \in DOMAIN columns : fitting[c] # columns[c]}
           all == [c \in DOMAIN columns |->
                      IF short = {} \/ c <= Min(short) THEN fitting[c] ELSE <<>>]
<1>1. x = [tab |-> Pushed(tb, row, all), out |-> IF short = {} THEN "ok" ELSE "err"]
  BY Zenon DEF PushColumns, Answer
<1> HIDE DEF all, short
<1>2. x.tab = Pushed(tb, row, all) /\ DOMAIN x = {"tab", "out"}
  BY <1>1
<1> QED BY <1>2, PushedStays

LEMMA AddRowStays ==
    ASSUME NEW tb, Formed(tb), NEW t, NEW cells, NEW x, x = AddRow(tb, t, cells)
    PROVE  Stays(tb, x.tab) /\ (x.out = "ok" => Len(cells) = Len(tb.columns))
<1>1. CASE ~MayAddRow(tb, t, cells)
  <2>1. x = [tab |-> tb, out |-> "err"]
    BY <1>1, Zenon DEF AddRow, Answer
  <2> QED BY <2>1 DEF Stays
<1>2. CASE MayAddRow(tb, t, cells)
  <2>1. PICK e : e = [tb EXCEPT !.timestamps = Append(@, t)]
    OBVIOUS
  <2>2. PICK row : row = RowCount(tb) + 1
    OBVIOUS
  <2>3. x = PushCells(e, row, cells)
    BY <1>2, <2>1, <2>2 DEF AddRow
  <2>4. PICK times : times = Append(tb.timestamps, t)
    OBVIOUS
  <2>5. e = [device |-> tb.device, columns |-> tb.columns, max_rows |-> tb.max_rows,
             aligned |-> tb.aligned, timestamps |-> times,
             values |-> tb.values, bitmaps |-> tb.bitmaps]
    <3>1. tb = [device |-> tb.device, columns |-> tb.columns, max_rows |-> tb.max_rows,
                aligned |-> tb.aligned, timestamps |-> tb.timestamps,
                values |-> tb.values, bitmaps |-> tb.bitmaps]
      BY DEF Formed
    <3> QED BY <2>1, <2>4, <3>1
  <2>6. Formed(e) /\ Stays(tb, e)
    BY <2>5 DEF Formed, Stays
  <2> DEFINE bad == {c \in DOMAIN cells : ~Accepts(e.columns[c], cells[c])}
  <2>7. PICK pushed : pushed = PushColumns(e, row, [c \in DOMAIN cells |-> <<cells[c]>>])
    OBVIOUS
  <2>8. x = IF bad = {} THEN pushed
            ELSE [pushed EXCEPT !.tab.bitmaps[Min(bad)] = BitMapSet(@, row, FALSE)]
    BY <2>3, <2>7, Zenon DEF PushCells
  <2> HIDE DEF bad
  <2>9. /\ DOMAIN pushed = {"tab", "out"} /\ Stays(e, pushed.tab)
        /\ \A m, bit : LET q == [pushed.tab EXCEPT !.bitmaps[m] = bit] IN Stays(e, q)
    BY <2>6, <2>7, PushColumnsStays
  <2>10. Stays(e, x.tab)
    <3>1. CASE bad = {}
      BY <2>8, <2>9, <3>1
    <3>2. CASE bad # {}
      <4>1. PICK m : m = Min(bad)
        OBVIOUS
      <4>2. PICK bit : bit = BitMapSet(pushed.tab.bitmaps[m], row, FALSE)
        OBVIOUS
      <4>3. PICK q : q = [pushed.tab EXCEPT !.bitmaps[m] = bit]
        OBVIOUS
      <4>4. x = [pushed EXCEPT !.tab = q]
        BY <2>8, <3>2, <4>1, <4>2, <4>3
      <4>5. x.tab = q
        BY <2>9, <4>4
      <4> QED BY <2>9, <4>3, <4>5
    <3> QED BY <3>1, <3>2
  <2> QED BY <1>2, <2>6, <2>10 DEF Stays, MayAddRow
<1> QED BY <1>1, <1>2

LEMMA AddRowsBulkStays ==
    ASSUME NEW tb, Formed(tb), NEW times, NEW columns,
           NEW x, x = AddRowsBulk(tb, times, columns)
    PROVE  Stays(tb, x.tab) /\ (x.out = "ok" => times = <<>> \/ Len(columns) = Len(tb.columns))
<1>1. PICK wrong \in BOOLEAN :
         wrong <=> \/ RowCount(tb) + Len(times) > tb.max_rows
                   \/ Len(columns) # Len(tb.columns)
                   \/ \E c \in DOMAIN columns : Len(columns[c]) # Len(times)
  OBVIOUS
<1>2. x = IF times = <<>> THEN [tab |-> tb, out |-> "ok"]
          ELSE IF wrong THEN [tab |-> tb, out |-> "err"]
          ELSE PushColumns(Adding(tb, times), RowCount(tb) + 1, columns)
  BY <1>1, Zenon DEF AddRowsBulk, Adding, Answer
<1>3. CASE times = <<>>
  <2>1. x.tab = tb
    BY <1>2, <1>3
  <2> QED BY <1>3, <2>1 DEF Stays
<1>4. CASE times # <<>> /\ wrong
  <2>1. x.tab = tb /\ x.out = "err"
    BY <1>2, <1>4
  <2> QED BY <2>1 DEF Stays
<1>5. CASE times # <<>> /\ ~wrong
  <2>1. PICK e : e = Adding(tb, times)
    OBVIOUS
  <2>2. Formed(e) /\ Stays(tb, e)
    <3>1. e = [device |-> tb.device, columns |-> tb.columns, max_rows |-> tb.max_rows,
               aligned |-> tb.aligned, timestamps |-> tb.timestamps \o times,
               values |-> tb.values, bitmaps |-> tb.bitmaps]
          /\ Formed(e)
      BY <2>1, AddingIs
    <3>2. e.device = tb.device /\ e.columns = tb.columns
      BY <3>1
    <3> QED BY <3>1, <3>2 DEF Stays
  <2>3. x = PushColumns(e, RowCount(tb) + 1, columns)
    BY <1>2, <1>5, <2>1
  <2>4. Stays(e, x.tab)
    BY <2>2, <2>3, PushColumnsStays
  <2> QED BY <1>1, <1>5, <2>2, <2>4 DEF Stays
<1> QED BY <1>3, <1>4, <1>5

LEMMA ClearStays ==
    ASSUME NEW tb, Formed(tb)
    PROVE  Stays(tb, Clear(tb))
<1>1. tb = [device |-> tb.device, columns |-> tb.columns, max_rows |-> tb.max_rows,
            aligned |-> tb.aligned, timestamps |-> tb.timestamps,
            values |-> tb.values, bitmaps |-> tb.bitmaps]
  BY DEF Formed
<1> DEFINE V == [c \in DOMAIN tb.values |-> <<>>]
           B == [c \in DOMAIN tb.bitmaps |-> NewBitMap(tb.max_rows)]
<1>2. Clear(tb) = [tb EXCEPT !.timestamps = <<>>, !.values = V, !.bitmaps = B]
  BY Zenon DEF Clear
<1> HIDE DEF V, B
<1> QED BY <1>1, <1>2 DEF Stays

TabletFits ==
    subject = "file" => /\ tab.device \in Devices /\ tab.columns \in ColumnLists(tab.device)
                        /\ Full(tab, kept)

LEMMA SubjectStays ==
    ASSUME [Next]_vars
    PROVE  subject' = subject
<1>1. ASSUME NEW t, NEW v, Observe(t, v) PROVE subject' = subject
  BY <1>1, Zenon DEF Observe
<1>2. ASSUME NEW points, ObserveBatch(points) PROVE subject' = subject
  BY <1>2, Zenon DEF ObserveBatch
<1>3. ASSUME SealPage PROVE subject' = subject
  BY <1>3, Zenon DEF SealPage
<1>4. ASSUME NEW row, AddOne(row) PROVE subject' = subject
  BY <1>4, Zenon DEF AddOne, Call
<1>5. ASSUME NEW bulk, AddMany(bulk) PROVE subject' = subject
  BY <1>5, Zenon DEF AddMany, Call
<1>6. ASSUME ClearTablet PROVE subject' = subject
  BY <1>6, Zenon DEF ClearTablet, Call
<1>7. ASSUME WriteIt PROVE subject' = subject
  BY <1>7, Zenon DEF WriteIt, Call
<1>8. ASSUME NEW batch, Import(batch) PROVE subject' = subject
  BY <1>8, Zenon DEF Import, Call
<1>9. ASSUME Close PROVE subject' = subject
  BY <1>9, Zenon DEF Close
<1>10. ASSUME Open PROVE subject' = subject
  BY <1>10, Zenon DEF Open, Reads
<1>11. ASSUME NextBatch PROVE subject' = subject
  BY <1>11, Zenon DEF NextBatch, Reads
<1>12. ASSUME NEW d, QueryDevice(d) PROVE subject' = subject
  BY <1>12, Zenon DEF QueryDevice, Reads
<1>13. ASSUME UNCHANGED vars PROVE subject' = subject
  BY <1>13, Zenon DEF vars
<1> QED BY <1>1, <1>2, <1>3, <1>4, <1>5, <1>6, <1>7, <1>8, <1>9, <1>10, <1>11, <1>12, <1>13,
           Zenon DEF Next

LEMMA FullMore ==
    ASSUME NEW tb, NEW x, Stays(tb, x), NEW h \in Rows, Full(tb, h), NEW g \in Rows, Full(tb, g)
    PROVE  Full(x, h \o g)
<1> DEFINE Kept == [t : Stamps, cells : Seq(Cells)]
<1>1. h \in Seq(Kept) /\ g \in Seq(Kept)
  BY DEF Rows
<1> HIDE DEF Kept
<1>2. PICK n \in Nat, k \in Nat : n = Len(h) /\ k = Len(g)
  BY <1>1
<1>3. ASSUME NEW i \in 1..(n + k) PROVE Len((h \o g)[i].cells) = Len(tb.columns)
  <2>1. CASE i <= n
    <3>1. (h \o g)[i] = h[i] /\ i \in 1..n
      BY <1>1, <1>2, <2>1
    <3> QED BY <1>2, <3>1 DEF Full
  <2>2. CASE i > n
    <3>1. PICK j \in 1..k : j = i - n
      BY <2>2
    <3>2. (h \o g)[i] = g[j]
      BY <1>1, <1>2, <2>2, <3>1
    <3>3. Len(g[j].cells) = Len(tb.columns)
      BY <1>2, <3>1 DEF Full
    <3> QED BY <3>2, <3>3
  <2> QED BY <1>2, <2>1, <2>2
<1>4. Len(h \o g) = n + k
  BY <1>1, <1>2
<1> QED BY <1>3, <1>4 DEF Full, Stays

LEMMA FitsStep ==
    ASSUME TabletInv, TabletFits, [Next]_vars
    PROVE  TabletFits'
<1>1. subject' = subject
  BY SubjectStays
<1> SUFFICES ASSUME subject = "file"
             PROVE  /\ tab'.device \in Devices /\ tab'.columns \in ColumnLists(tab'.device)
                    /\ Full(tab', kept')
  BY <1>1 DEF TabletFits
<1>2. /\ tab.device \in Devices /\ tab.columns \in ColumnLists(tab.device) /\ Full(tab, kept)
      /\ Formed(tab) /\ kept \in Rows
  BY DEF TabletFits, TabletInv, HasRows
<1>3. ASSUME NEW answer, NEW rows \in Rows, TabletAnswered(answer, rows), Stays(tab, answer.tab),
             answer.out = "ok" => Full(tab, rows)
      PROVE  /\ tab'.device \in Devices /\ tab'.columns \in ColumnLists(tab'.device)
             /\ Full(tab', kept')
  <2>1. tab' = answer.tab /\ kept' = (IF answer.out = "ok" THEN kept \o rows ELSE kept)
    BY <1>3, Zenon DEF TabletAnswered
  <2>2. CASE answer.out = "ok"
    <3>1. Full(answer.tab, kept \o rows)
      BY <1>2, <1>3, <2>2, FullMore
    <3> QED BY <1>2, <1>3, <2>1, <2>2, <3>1 DEF Stays
  <2>3. CASE answer.out # "ok"
    BY <1>2, <1>3, <2>1, <2>3 DEF Full, Stays
  <2> QED BY <2>2, <2>3
<1>4. ASSUME NEW row \in ROWS, AddOne(row)
      PROVE  /\ tab'.device \in Devices /\ tab'.columns \in ColumnLists(tab'.device)
             /\ Full(tab', kept')
  <2>1. row \in [t : Stamps, cells : Seq(Cells)]
    BY TabletAssumption, Zenon DEF Stamps
  <2>2. PICK answer : answer = AddRow(tab, row.t, row.cells)
    OBVIOUS
  <2>3. TabletAnswered(answer, <<row>>)
    BY <1>4, <2>2, Zenon DEF AddOne
  <2>4. Stays(tab, answer.tab) /\ (answer.out = "ok" => Len(row.cells) = Len(tab.columns))
    BY <1>2, <2>2, AddRowStays
  <2>5. <<row>> \in Rows /\ (answer.out = "ok" => Full(tab, <<row>>))
    BY <2>1, <2>4 DEF Rows, Full
  <2> QED BY <1>3, <2>3, <2>4, <2>5
<1>5. ASSUME NEW bulk \in BULKS, AddMany(bulk)
      PROVE  /\ tab'.device \in Devices /\ tab'.columns \in ColumnLists(tab'.device)
             /\ Full(tab', kept')
  <2>1. bulk.times \in Seq(Stamps) /\ bulk.columns \in Seq(Seq(Cells))
    <3>1. BULKS \subseteq [times : Seq(I64Min..I64Max), columns : Seq(Seq(Cells))]
      BY TabletAssumption, Zenon
    <3> QED BY <3>1 DEF Stamps
  <2>2. PICK answer : answer = AddRowsBulk(tab, bulk.times, bulk.columns)
    OBVIOUS
  <2>3. PICK rows : rows = RowsAcross(bulk.times, bulk.columns)
    OBVIOUS
  <2>4. TabletAnswered(answer, rows)
    BY <1>5, <2>2, <2>3, Zenon DEF AddMany, RowsAcross
  <2>5. /\ Stays(tab, answer.tab)
        /\ answer.out = "ok" => bulk.times = <<>> \/ Len(bulk.columns) = Len(tab.columns)
    BY <1>2, <2>2, AddRowsBulkStays
  <2>6. PICK k \in Nat : k = Len(bulk.times) /\ DOMAIN bulk.times = 1..k
    BY <2>1
  <2>7. PICK n \in Nat : n = Len(bulk.columns) /\ DOMAIN bulk.columns = 1..n
    BY <2>1
  <2>8. Len(rows) = k /\ \A i \in 1..k : Len(rows[i].cells) = n
    BY <2>3, <2>6, <2>7 DEF RowsAcross
  <2>9. bulk.times = <<>> => k = 0
    BY <2>6
  <2>10. answer.out = "ok" => Full(tab, rows)
    BY <2>5, <2>7, <2>8, <2>9 DEF Full
  <2>11. CASE answer.out = "ok"
    <3>1. tab' = answer.tab /\ kept' = kept \o rows
      BY <2>4, <2>11, Zenon DEF TabletAnswered
    <3>2. HasRows(tab', kept', torn')
      BY TabletStep DEF TabletInv
    <3>3. kept \o rows \in Rows /\ Full(tab, kept)
      BY <1>2, <3>1, <3>2 DEF HasRows
    <3>4. PICK m \in Nat : m = Len(kept)
      BY <1>2 DEF Rows
    <3>5. /\ Len(kept \o rows) = m + k
          /\ \A i \in 1..m : (kept \o rows)[i] = kept[i]
          /\ \A i \in (m + 1)..(m + k) : (kept \o rows)[i] = rows[i - m]
      BY <2>8, <3>4
    <3>6. ASSUME NEW i \in 1..(m + k) PROVE Len((kept \o rows)[i].cells) = Len(tab.columns)
      <4>1. CASE i <= m
        BY <3>3, <3>4, <3>5, <4>1 DEF Full
      <4>2. CASE i > m
        <5>1. PICK j \in 1..k : j = i - m
          BY <4>2
        <5>2. (kept \o rows)[i] = rows[j]
          BY <3>5, <4>2, <5>1
        <5>3. Len(rows[j].cells) = Len(tab.columns)
          BY <2>8, <2>10, <2>11, <5>1 DEF Full
        <5> QED BY <5>2, <5>3
      <4>3. i <= m \/ i > m
        <5>1. k \in Nat /\ m \in Nat
          BY <2>6, <3>4
        <5> QED BY <5>1
      <4> QED BY <4>1, <4>2, <4>3, Zenon
    <3> QED BY <1>2, <2>5, <3>1, <3>5, <3>6 DEF Full, Stays
  <2>12. CASE answer.out # "ok"
    <3>1. tab' = answer.tab /\ kept' = kept
      BY <2>4, <2>12, Zenon DEF TabletAnswered
    <3> QED BY <1>2, <2>5, <3>1 DEF Full, Stays
  <2> QED BY <2>11, <2>12
<1>6. CASE ClearTablet
  <2>1. tab' = Clear(tab) /\ kept' = <<>>
    BY <1>6, Zenon DEF ClearTablet
  <2>2. Stays(tab, tab')
    BY <1>2, <2>1, ClearStays
  <2> QED BY <1>2, <2>1, <2>2 DEF Full, Stays
<1>7. CASE UNCHANGED tabletVars
  <2>1. tab' = tab /\ kept' = kept
    BY <1>7, Zenon DEF tabletVars
  <2> QED BY <1>2, <2>1, Zenon
<1> QED BY <1>4, <1>5, <1>6, <1>7, OthersKeepTablet, Zenon DEF Next

LEMMA FitsFirst ==
    ASSUME Init
    PROVE  TabletFits
<1> SUFFICES ASSUME subject = "file"
             PROVE  /\ tab.device \in Devices /\ tab.columns \in ColumnLists(tab.device)
                    /\ Full(tab, kept)
  BY DEF TabletFits
<1>1. tab \in TABLETS /\ kept = <<>>
  BY DEF Init
<1>2. tab.device # NoDevice
  BY <1>1, FileAssumption
<1> QED BY <1>1, <1>2 DEF Devices, ColumnLists, Full

-------------------------------------------------------------------------------
(* The caller's tablet is written; what it holds is its rows, unless it lost a *)
(* cell.                                                                       *)
LEMMA TabletEnds ==
    ASSUME Meant, NEW v, Ready(v), NEW acc, Bookkeeping(acc), NEW X, Carries(v, acc, X),
           NEW tb, NEW h, NEW lost, HasRows(tb, h, lost), tb.device \in Devices,
           tb.columns \in ColumnLists(tb.device), Full(tb, h),
           NEW Y, Y = X \cup (IF lost THEN {tb.device} ELSE {}),
           NEW r, r = WriteTablet(v, tb),
           NEW given, given = Only(tb.device, RowsIn(tb, h))
    PROVE  EndsWell(v, acc, Y, given, r)
<1>1. PICK d \in Devices : d = tb.device
  OBVIOUS
<1>2. Carries(v, acc, Y)
  BY CarriesLess
<1>3. Listed(tb.columns)
  BY ListsTyped
<1>4. Formed(tb) /\ Bounded(tb) /\ h \in Rows /\ lost \in BOOLEAN
  BY DEF HasRows
<1>5. Writable(tb)
  BY <1>4 DEF Writable, Formed, Bounded
<1>6. PICK R \in Seq(FileRow) : R = RowsIn(tb, h)
  BY <1>3, <1>4, RowsInAre
<1>7. WrittenWell(v, acc, Y, tb, R, r)
  BY <1>2, <1>5, WriteTabletHolds
<1>8. ColumnsAgree /\ d \notin Y => Represents(tb, R)
  <2> SUFFICES ASSUME ColumnsAgree, d \notin Y PROVE Represents(tb, R)
    OBVIOUS
  <2>1. HasRows(tb, h, FALSE)
    <3>1. lost = FALSE
      BY <1>1, <1>4
    <3> QED BY <3>1
  <2>2. Agree(tb.columns, tb.columns)
    BY DEF ColumnsAgree
  <2>3. \A k, l \in 1..Len(tb.columns) : tb.columns[k].name = tb.columns[l].name => k = l
    BY <1>3, <2>2 DEF Agree, Listed
  <2> QED BY <1>3, <1>6, <2>1, <2>3, TabletRepresents
<1>9. Grown(acc, d, R) = Accepted(acc, given) /\ Bookkeeping(Accepted(acc, given))
  <2>1. DOMAIN given = {d} /\ given[d] = R
    BY <1>1, <1>6 DEF Only
  <2>2. \A e \in Devices : acc[e] \in Seq(FileRow) /\ acc[e] \o <<>> = acc[e]
                           /\ acc[e] \o R \in Seq(FileRow)
    BY DEF Bookkeeping
  <2>3. \A e \in Devices : (IF e \in DOMAIN given THEN given[e] ELSE <<>>) =
                              IF e = d THEN R ELSE <<>>
    BY <2>1
  <2>4. Accepted(acc, given) = [e \in Devices |-> IF e = d THEN acc[e] \o R ELSE acc[e]]
    BY <2>2, <2>3 DEF Accepted
  <2>5. acc \in [Devices -> Seq(FileRow)]
    BY DEF Bookkeeping
  <2>6. Grown(acc, d, R) = [e \in Devices |-> IF e = d THEN acc[e] \o R ELSE acc[e]]
    BY <2>5 DEF Grown
  <2>7. [e \in Devices |-> IF e = d THEN acc[e] \o R ELSE acc[e]] \in [Devices -> Seq(FileRow)]
    <3>1. \A e \in Devices : (IF e = d THEN acc[e] \o R ELSE acc[e]) \in Seq(FileRow)
      BY <2>2
    <3> QED BY <3>1
  <2> QED BY <2>4, <2>6, <2>7 DEF Bookkeeping
<1>10. Y \cup {v.cur} \cup DOMAIN given = Y \cup {v.cur, d}
  <2>1. DOMAIN given = {d}
    BY <1>1 DEF Only
  <2> QED BY <2>1
<1>11. PICK more : more = Accepted(acc, given)
  OBVIOUS
<1>12. r.out = "ok" => Bookkeeping(more) /\ Carries(r.w, more, Y)
  BY <1>1, <1>7, <1>8, <1>9, <1>11 DEF WrittenWell
<1>13. r.out # "panic" => Ready(r.w) /\ Carries(r.w, acc, Y \cup {v.cur} \cup DOMAIN given)
  BY <1>1, <1>7, <1>10 DEF WrittenWell
<1> QED BY <1>7, <1>11, <1>12, <1>13 DEF WrittenWell, EndsWell

(* The writer in every state: it has the rows that were accepted, but for the  *)
(* devices of calls that failed.                                               *)
Phases == {"writing", "closed", "reading", "gone", "panicked"}

WriterHas(v, acc, bad, now) ==
    /\ v.cur \in Devices \cup {NoDevice} /\ DOMAIN v.io.groups \subseteq Devices
    /\ Bookkeeping(acc) /\ bad \subseteq Devices /\ now \in Phases
    /\ now # "panicked" => Ready(v)
    /\ now \in {"writing", "closed", "reading"} => Carries(v, acc, bad)
    /\ now \in {"closed", "reading"} => v.cur = NoDevice

WriterInv == WriterHas(w, accepted, damaged, phase)

LEMMA AnsweredHolds ==
    ASSUME WriterInv, phase = "writing", NEW given, DOMAIN given \subseteq Devices,
           NEW hurt, hurt \subseteq Devices, NEW answer,
           EndsWell(w, accepted, damaged \cup hurt, given, answer),
           WriterAnswered(answer, given, hurt)
    PROVE  WriterInv'
<1>1. PICK lost : lost = IF answer.out = "ok" \/ answer.w = w THEN {} ELSE DOMAIN given \cup {w.cur}
  OBVIOUS
<1>2. /\ w' = answer.w
      /\ phase' = IF answer.out = "panic" THEN "panicked" ELSE "writing"
      /\ damaged' = damaged \cup hurt \cup (lost \ {NoDevice})
      /\ accepted' = [d \in Devices |-> accepted[d] \o
                        (IF answer.out = "ok" /\ d \in DOMAIN given THEN given[d] ELSE <<>>)]
  BY <1>1, Zenon DEF WriterAnswered
<1>3. /\ Ready(w) /\ Bookkeeping(accepted) /\ Carries(w, accepted, damaged)
      /\ damaged \subseteq Devices /\ w.cur \in Devices \cup {NoDevice}
  BY DEF WriterInv, WriterHas
<1>4. /\ answer.out \in Outs
      /\ answer.w.cur \in Devices \cup {NoDevice} /\ DOMAIN answer.w.io.groups \subseteq Devices
      /\ answer.out # "panic" => Ready(answer.w)
  BY DEF EndsWell
<1>5. damaged' \subseteq Devices
  BY <1>1, <1>2, <1>3
<1>6. answer.out # "ok" => accepted' = accepted
  <2> SUFFICES ASSUME answer.out # "ok" PROVE accepted' = accepted
    OBVIOUS
  <2>1. \A d \in Devices : accepted[d] \in Seq(FileRow) /\ accepted[d] \o <<>> = accepted[d]
    BY <1>3 DEF Bookkeeping
  <2>2. accepted' = [d \in Devices |-> accepted[d]]
    BY <1>2, <2>1
  <2> QED BY <1>3, <2>2 DEF Bookkeeping
<1>7. CASE answer.out = "ok"
  <2>1. accepted' = Accepted(accepted, given)
    BY <1>2, <1>7 DEF Accepted
  <2>2. Bookkeeping(accepted') /\ Carries(answer.w, accepted', damaged \cup hurt)
    BY <1>7, <2>1 DEF EndsWell
  <2>3. damaged' = damaged \cup hurt
    BY <1>1, <1>2, <1>7
  <2>4. phase' = "writing"
    BY <1>2, <1>7
  <2>5. WriterHas(answer.w, accepted', damaged', phase')
    BY <1>4, <1>5, <1>7, <2>2, <2>3, <2>4 DEF WriterHas, Phases
  <2> QED BY <1>2, <2>5 DEF WriterInv
<1>8. CASE answer.out = "err"
  <2>1. Carries(answer.w, accepted, damaged')
    <3>1. CASE answer.w = w
      <4>1. damaged \subseteq damaged'
        BY <1>2
      <4>2. Carries(w, accepted, damaged')
        BY <1>3, <4>1, CarriesLess
      <4> QED BY <3>1, <4>2
    <3>2. CASE answer.w # w
      <4>1. Carries(answer.w, accepted, damaged \cup hurt \cup {w.cur} \cup DOMAIN given)
        BY <1>8 DEF EndsWell
      <4>2. lost = DOMAIN given \cup {w.cur} /\ NoDevice \notin Devices
        BY <1>1, <1>8, <3>2 DEF Devices
      <4>3. Devices \ damaged' = Devices \ (damaged \cup hurt \cup {w.cur} \cup DOMAIN given)
        BY <1>2, <4>2
      <4> QED BY <4>1, <4>3 DEF Carries
    <3> QED BY <3>1, <3>2
  <2>2. phase' = "writing"
    BY <1>2, <1>8
  <2>3. WriterHas(answer.w, accepted', damaged', phase')
    BY <1>3, <1>4, <1>5, <1>6, <1>8, <2>1, <2>2 DEF WriterHas, Phases
  <2> QED BY <1>2, <2>3 DEF WriterInv
<1>9. CASE answer.out = "panic"
  <2>1. phase' = "panicked"
    BY <1>2, <1>9
  <2>2. WriterHas(answer.w, accepted', damaged', phase')
    BY <1>3, <1>4, <1>5, <1>6, <1>9, <2>1 DEF WriterHas, Phases
  <2> QED BY <1>2, <2>2 DEF WriterInv
<1> QED BY <1>4, <1>7, <1>8, <1>9 DEF Outs

LEMMA WriterFirst ==
    ASSUME Meant, Init
    PROVE  WriterInv
<1>1. /\ w = NewWriter /\ phase = "writing" /\ damaged = {}
      /\ accepted = [d \in Devices |-> <<>>]
  BY DEF Init
<1>2. PICK v : v = NewWriter
  OBVIOUS
<1>3. v = [io |-> NewIOWriter, cur |-> NoDevice, writers |-> <<>>]
  BY <1>2 DEF NewWriter
<1>4. PICK io : io = NewIOWriter
  OBVIOUS
<1>5. v.io = io /\ v.cur = NoDevice /\ v.writers = <<>>
      /\ v = [io |-> v.io, cur |-> v.cur, writers |-> v.writers]
  BY <1>3, <1>4
<1>6. DOMAIN io.groups = {}
  BY <1>4 DEF NewIOWriter
<1>7. Filed(io)
  <2>1. IOFine(io, Devices) /\ Plain(io.stream)
    BY <1>4, NewIOFine
  <2>2. IsFiniteSet(DOMAIN io.groups)
    BY <1>6, FS_EmptySet
  <2> QED BY <1>6, <2>1, <2>2 DEF Filed
<1>8. Ready(v)
  BY <1>5, <1>7 DEF Ready
<1>9. PICK acc : acc = [d \in Devices |-> <<>>]
  OBVIOUS
<1>10. Bookkeeping(acc)
  <2>1. <<>> \in Seq(FileRow)
    OBVIOUS
  <2> QED BY <1>9, <2>1 DEF Bookkeeping
<1>11. Carries(v, acc, {})
  <2>1. ASSUME NEW d \in Devices PROVE CarriesOf(v, d, acc[d])
    <3>1. acc[d] = <<>> /\ <<>> \in Seq(FileRow)
      BY <1>9
    <3>2. ASSUME NEW m \in Measurements PROVE Has(v, d, m, PointsOf(m, acc[d]))
      <4>1. PICK rows \in Seq(FileRow) : rows = acc[d] /\ rows = <<>>
        BY <3>1
      <4>2. PointsOf(m, rows) = <<>>
        BY <4>1, PointsOfTyped
      <4>3. ContentOf(io, d, m) = <<>>
        BY <1>6, EmptyContent
      <4>4. 1..Len(v.writers) = {}
        BY <1>5
      <4> QED BY <1>5, <4>1, <4>2, <4>3, <4>4 DEF Has
    <3>3. FirstGroup(v.io, d, acc[d])
      BY <1>5, <1>6 DEF FirstGroup
    <3> QED BY <3>2, <3>3 DEF CarriesOf
  <2> QED BY <2>1 DEF Carries
<1>12. v.cur \in Devices \cup {NoDevice} /\ DOMAIN v.io.groups \subseteq Devices
  BY <1>5, <1>6
<1>13. WriterHas(v, acc, {}, "writing")
  BY <1>8, <1>10, <1>11, <1>12 DEF WriterHas, Phases
<1> QED BY <1>1, <1>2, <1>9, <1>13 DEF WriterInv

LEMMA OthersKeepWriter ==
    ASSUME \/ \E t \in TIMES, v \in UNION {VALUES[y] : y \in TYPES} : Observe(t, v)
           \/ \E n \in 1..(MaxPoints - Len(seen)) :
                 \E points \in [1..n -> [t : TIMES, value : VALUES[type]]] : ObserveBatch(points)
           \/ SealPage \/ \E row \in ROWS : AddOne(row)
           \/ \E bulk \in BULKS : AddMany(bulk)
           \/ ClearTablet \/ NextBatch \/ \E d \in Devices : QueryDevice(d)
           \/ UNCHANGED vars
    PROVE  UNCHANGED writerVars
<1>1. ASSUME NEW t, NEW v, Observe(t, v) PROVE UNCHANGED writerVars
  BY <1>1, Zenon DEF Observe
<1>2. ASSUME NEW points, ObserveBatch(points) PROVE UNCHANGED writerVars
  BY <1>2, Zenon DEF ObserveBatch
<1>3. ASSUME SealPage PROVE UNCHANGED writerVars
  BY <1>3, Zenon DEF SealPage
<1>4. ASSUME NEW row, AddOne(row) PROVE UNCHANGED writerVars
  BY <1>4, Zenon DEF AddOne, TabletAnswered
<1>5. ASSUME NEW bulk, AddMany(bulk) PROVE UNCHANGED writerVars
  BY <1>5, Zenon DEF AddMany, TabletAnswered
<1>6. ASSUME ClearTablet PROVE UNCHANGED writerVars
  BY <1>6, Zenon DEF ClearTablet
<1>7. ASSUME NextBatch PROVE UNCHANGED writerVars
  BY <1>7 DEF NextBatch, Reads, writerVars
<1>8. ASSUME NEW d, QueryDevice(d) PROVE UNCHANGED writerVars
  BY <1>8 DEF QueryDevice, Reads, writerVars
<1>9. ASSUME UNCHANGED vars PROVE UNCHANGED writerVars
  BY <1>9, Zenon DEF vars
<1> QED BY <1>1, <1>2, <1>3, <1>4, <1>5, <1>6, <1>7, <1>8, <1>9, Zenon

LEMMA WriterStep ==
    ASSUME Meant, TabletInv, TabletFits, WriterInv, [Next]_vars
    PROVE  WriterInv'
<1>1. /\ DOMAIN w.io.groups \subseteq Devices
      /\ Bookkeeping(accepted) /\ damaged \subseteq Devices /\ phase \in Phases
      /\ phase # "panicked" => Ready(w)
      /\ phase \in {"writing", "closed", "reading"} => Carries(w, accepted, damaged)
      /\ phase \in {"closed", "reading"} => w.cur = NoDevice
      /\ w.cur \in Devices \cup {NoDevice}
  BY DEF WriterInv, WriterHas
<1>2. CASE WriteIt
  <2>1. subject = "file" /\ phase = "writing"
    BY <1>2, Zenon DEF WriteIt, Call, Writing
  <2>2. PICK answer : answer = WriteTablet(w, tab)
    OBVIOUS
  <2>3. PICK given : given = Only(tab.device, RowsIn(tab, kept))
    OBVIOUS
  <2>4. PICK hurt : hurt = IF torn THEN {tab.device} ELSE {}
    OBVIOUS
  <2>5. WriterAnswered(answer, given, hurt)
    BY <1>2, <2>2, <2>3, <2>4, Zenon DEF WriteIt, RowsIn
  <2>6. tab.device \in Devices /\ tab.columns \in ColumnLists(tab.device) /\ Full(tab, kept)
    BY <2>1 DEF TabletFits
  <2>7. EndsWell(w, accepted, damaged \cup hurt, given, answer)
    <3>1. PICK Y : Y = damaged \cup (IF torn THEN {tab.device} ELSE {})
      OBVIOUS
    <3>2. Ready(w) /\ Carries(w, accepted, damaged)
      BY <1>1, <2>1
    <3>3. HasRows(tab, kept, torn)
      BY DEF TabletInv
    <3>4. EndsWell(w, accepted, Y, given, answer)
      BY <1>1, <2>2, <2>3, <2>6, <3>1, <3>2, <3>3, TabletEnds
    <3> QED BY <2>4, <3>1, <3>4
  <2>8. DOMAIN given \subseteq Devices /\ hurt \subseteq Devices
    BY <2>3, <2>4, <2>6 DEF Only
  <2> QED BY <2>1, <2>5, <2>7, <2>8, AnsweredHolds
<1>3. ASSUME NEW batch \in BATCHES, Import(batch) PROVE WriterInv'
  <2>1. phase = "writing"
    BY <1>3, Zenon DEF Import, Call, Writing
  <2>2. PICK given : given = [d \in DevicesOf(batch) |-> RowsGiven(batch, d)]
    OBVIOUS
  <2>3. PICK order \in SetToSeqs(DevicesOf(batch)) :
           WriterAnswered(WriteBatchOf(w, batch, order), given, {})
    BY <1>3, <2>2, Zenon DEF Import, DevicesOf, RowsGiven
  <2>4. PICK answer : answer = WriteBatchOf(w, batch, order)
    OBVIOUS
  <2>5. EndsWell(w, accepted, damaged, given, answer)
    BY <1>1, <2>1, <2>2, <2>4, ImportHolds
  <2>6. damaged \cup {} = damaged /\ {} \subseteq Devices
    OBVIOUS
  <2>7. DOMAIN given \subseteq Devices
    BY <2>2, DevicesOfAre
  <2>8. EndsWell(w, accepted, damaged \cup {}, given, answer)
    BY <2>5, <2>6
  <2>9. WriterAnswered(answer, given, {})
    BY <2>3, <2>4
  <2> QED BY <2>1, <2>6, <2>7, <2>8, <2>9, AnsweredHolds
<1>4. CASE Close
  <2>1. PICK flushed : flushed = Flush(w)
    OBVIOUS
  <2>2. /\ phase = "writing" /\ w' = flushed.w /\ accepted' = accepted /\ damaged' = damaged
        /\ phase' = IF flushed.out = "ok" THEN "closed"
                    ELSE IF flushed.out = "panic" THEN "panicked" ELSE "gone"
    BY <1>4, <2>1, Zenon DEF Close, Writing
  <2>3. FlushesWell(w, accepted, damaged, flushed)
    BY <1>1, <2>1, <2>2, FlushHolds
  <2>4. flushed.w.cur = NoDevice
    <3>1. flushed.w = Closed(w, flushed.w.io)
      BY <2>3 DEF FlushesWell
    <3> QED BY <3>1 DEF Closed
  <2>5. Ready(flushed.w) /\ (flushed.out = "ok" => Carries(flushed.w, accepted, damaged))
    BY <2>3 DEF FlushesWell
  <2>6. DOMAIN flushed.w.io.groups \subseteq Devices
    BY <2>5 DEF Ready, Filed, IOFine
  <2>7. WriterHas(flushed.w, accepted, damaged, phase')
    BY <1>1, <2>2, <2>4, <2>5, <2>6 DEF WriterHas, Phases
  <2> QED BY <2>2, <2>7 DEF WriterInv
<1>5. CASE Open
  <2>1. phase = "closed" /\ phase' = "reading" /\ w' = w /\ accepted' = accepted
        /\ damaged' = damaged
    BY <1>5, Zenon DEF Open, Reads
  <2>2. WriterHas(w, accepted, damaged, "reading")
    BY <1>1, <2>1 DEF WriterHas, Phases
  <2> QED BY <2>1, <2>2 DEF WriterInv
<1>6. CASE UNCHANGED writerVars
  <2>1. w' = w /\ phase' = phase /\ accepted' = accepted /\ damaged' = damaged
    BY <1>6 DEF writerVars
  <2> QED BY <2>1 DEF WriterInv
<1> QED BY <1>2, <1>3, <1>4, <1>5, <1>6, OthersKeepWriter, Zenon DEF Next

-------------------------------------------------------------------------------
(* What the file has of a series, and what a query for it gets.                *)
LEMMA PickedHas ==
    ASSUME NEW X, NEW s \in Seq(X), NEW places, NEW i \in 1..Len(s), i \in places
    PROVE  \E k \in DOMAIN Picked(s, places) : Picked(s, places)[k] = s[i]
<1> DEFINE N == Len(s)
           In(q) == \E k \in DOMAIN q : q[k] = s[i]
<1>1. PICK f : /\ Picked(s, places) = f[N] /\ f[0] = <<>>
               /\ \A n \in 1..N :
                     f[n] = IF n \in places THEN Append(f[n - 1], s[n]) ELSE f[n - 1]
  BY PickedIs
<1> DEFINE T == {n \in Nat : n <= N => f[n] \in Seq(X) /\ (i <= n => In(f[n]))}
<1>2. N \in Nat /\ i \in 1..N /\ \A n \in 1..N : s[n] \in X
  OBVIOUS
<1> HIDE DEF N
<1>3. 0 \in T
  <2>1. f[0] \in Seq(X) /\ ~(i <= 0)
    BY <1>1, <1>2
  <2> QED BY <2>1
<1>4. ASSUME NEW n \in Nat, n \in T PROVE n + 1 \in T
  <2> SUFFICES ASSUME n + 1 <= N PROVE f[n + 1] \in Seq(X) /\ (i <= n + 1 => In(f[n + 1]))
    OBVIOUS
  <2>1. n + 1 \in 1..N /\ (n + 1) - 1 = n /\ f[n] \in Seq(X) /\ (i <= n => In(f[n]))
    BY <1>2, <1>4
  <2>2. f[n + 1] = IF n + 1 \in places THEN Append(f[n], s[n + 1]) ELSE f[n]
    BY <1>1, <2>1
  <2>3. PICK q \in Seq(X) : q = f[n]
    BY <2>1
  <2>4. PICK x \in X : x = s[n + 1]
    BY <1>2, <2>1
  <2>5. /\ Append(q, x) \in Seq(X) /\ Len(q) + 1 \in DOMAIN Append(q, x)
        /\ Append(q, x)[Len(q) + 1] = x
        /\ \A k \in DOMAIN q : k \in DOMAIN Append(q, x) /\ Append(q, x)[k] = q[k]
    OBVIOUS
  <2>6. f[n + 1] \in Seq(X)
    BY <2>2, <2>3, <2>4, <2>5
  <2>7. CASE i <= n
    BY <2>1, <2>2, <2>3, <2>4, <2>5, <2>6, <2>7
  <2>8. CASE i = n + 1
    BY <2>2, <2>3, <2>4, <2>5, <2>6, <2>8
  <2> QED BY <1>2, <2>6, <2>7, <2>8
<1> HIDE DEF T
<1>5. Nat \subseteq T
  BY <1>3, <1>4, InductiveSet
<1>6. In(f[N])
  <2>1. N \in T /\ i <= N
    BY <1>2, <1>5
  <2> QED BY <1>2, <2>1 DEF T
<1> QED BY <1>1, <1>6

LEMMA JoinedNone ==
    ASSUME NEW X, NEW seqs \in Seq(Seq(X)), \A i \in 1..Len(seqs) : seqs[i] = <<>>
    PROVE  Joined(seqs) = <<>>
<1>1. PICK N \in Nat : N = Len(seqs)
  OBVIOUS
<1>2. PICK f \in [0..N -> Seq(X)] :
         /\ Joined(seqs) = f[N] /\ f[0] = <<>>
         /\ \A n \in 1..N : f[n] = f[n - 1] \o seqs[n]
  <2>1. \E f \in [0..Len(seqs) -> Seq(X)] :
           /\ Joined(seqs) = f[Len(seqs)] /\ f[0] = <<>>
           /\ \A n \in 1..Len(seqs) : f[n] = f[n - 1] \o seqs[n]
    BY JoinSteps
  <2> QED BY <1>1, <2>1, Zenon
<1> DEFINE T == {n \in Nat : n <= N => f[n] = <<>>}
<1>3. 0 \in T
  BY <1>2
<1>4. ASSUME NEW n \in Nat, n \in T PROVE n + 1 \in T
  <2> SUFFICES ASSUME n + 1 <= N PROVE f[n + 1] = <<>>
    OBVIOUS
  <2>1. n + 1 \in 1..N /\ (n + 1) - 1 = n /\ f[n] = <<>>
    BY <1>1, <1>4
  <2>2. f[n + 1] = <<>> \o <<>>
    BY <1>1, <1>2, <2>1
  <2> QED BY <2>2
<1> HIDE DEF T
<1>5. Nat \subseteq T
  BY <1>3, <1>4, InductiveSet
<1>6. f[N] = <<>>
  BY <1>1, <1>5 DEF T
<1> QED BY <1>2, <1>6

Of(io, d, m) == {i \in 1..Len(io.groups[d]) : io.groups[d][i].name = m}

LEMMA FirstOf ==
    ASSUME NEW io, Filed(io), NEW d \in DOMAIN io.groups, NEW m, Of(io, d, m) # {},
           NEW first, first = ReadFirst(io, d, m)
    PROVE  /\ first \in Seq(Points) /\ first # <<>>
           /\ Begins(first, ContentOf(io, d, m), Points) /\ FirstIs(io, d, m, first)
           /\ \E i \in 1..Len(io.groups[d]) : FirstChunk(io, d, m) = io.groups[d][i]
<1>1. IOFine(io, Devices)
  BY DEF Filed
<1> DEFINE seqs == Chunked(io.groups, io.stream, d, m)
<1>2. /\ seqs \in Seq(Seq(Points)) /\ Len(seqs) = Len(io.groups[d])
      /\ Len(io.groups[d]) \in Nat
  BY <1>1, ChunkedTyped
<1>3. DOMAIN io.groups[d] = 1..Len(io.groups[d])
  <2>1. io.groups[d] \in Seq(Meta)
    BY <1>1 DEF IOFine
  <2> QED BY <2>1
<1>4. PICK i : i = Min(Of(io, d, m))
  OBVIOUS
<1>5. i \in Of(io, d, m) /\ \A j \in Of(io, d, m) : i <= j
  <2>1. Of(io, d, m) \in SUBSET Nat
    BY <1>2 DEF Of
  <2>2. \E x \in Of(io, d, m) : \A y \in Of(io, d, m) : x <= y
    BY <2>1, LeastNumber
  <2> QED BY <1>4, <2>2 DEF Min
<1>6. i \in 1..Len(seqs) /\ io.groups[d][i].name = m
  BY <1>2, <1>5 DEF Of
<1>7. /\ FirstChunk(io, d, m) = io.groups[d][i]
      /\ first = ChunkContent(io.stream, io.groups[d][i])
  <2>1. Of(io, d, m) = {j \in DOMAIN io.groups[d] : io.groups[d][j].name = m}
    BY <1>3 DEF Of
  <2> QED BY <1>4, <2>1 DEF ReadFirst, FirstChunk
<1>8. seqs[i] = first
  BY <1>2, <1>6, <1>7 DEF Chunked
<1>9. \A j \in 1..(i - 1) : j \in 1..Len(io.groups[d]) /\ io.groups[d][j].name # m
  <2> SUFFICES ASSUME NEW j \in 1..(i - 1)
               PROVE  j \in 1..Len(io.groups[d]) /\ io.groups[d][j].name # m
    OBVIOUS
  <2>1. j \in 1..Len(io.groups[d]) /\ ~(i <= j)
    BY <1>2, <1>6
  <2> QED BY <1>5, <2>1 DEF Of
<1>10. \A j \in 1..(i - 1) : seqs[j] = <<>>
  BY <1>9 DEF Chunked
<1>11. ContentOf(io, d, m) = Joined(seqs)
  BY DEF ContentOf, Content, Chunked
<1> HIDE DEF seqs
<1>12. first \in Seq(Points)
  BY <1>2, <1>6, <1>8
<1>13. Begins(first, ContentOf(io, d, m), Points)
  BY <1>2, <1>6, <1>8, <1>10, <1>11, JoinedFirst
<1>14. first # <<>>
  BY <1>2, <1>6, <1>7 DEF Filed
<1>15. FirstIs(io, d, m, first)
  BY <1>2, <1>6, <1>7, <1>9 DEF FirstIs
<1> QED BY <1>2, <1>6, <1>7, <1>12, <1>13, <1>14, <1>15

LEMMA NoneOf ==
    ASSUME NEW io, Filed(io), NEW d, NEW m, d \in DOMAIN io.groups => Of(io, d, m) = {}
    PROVE  ContentOf(io, d, m) = <<>>
<1>1. CASE d \notin DOMAIN io.groups
  BY <1>1 DEF ContentOf, Content
<1>2. CASE d \in DOMAIN io.groups
  <2>1. IOFine(io, Devices)
    BY DEF Filed
  <2> DEFINE seqs == Chunked(io.groups, io.stream, d, m)
  <2>2. /\ seqs \in Seq(Seq(Points)) /\ Len(seqs) = Len(io.groups[d])
        /\ Len(io.groups[d]) \in Nat
    BY <1>2, <2>1, ChunkedTyped
  <2>3. \A i \in 1..Len(seqs) : seqs[i] = <<>>
    BY <1>2, <2>2 DEF Chunked, Of
  <2>4. ContentOf(io, d, m) = Joined(seqs)
    BY <1>2 DEF ContentOf, Content, Chunked
  <2> HIDE DEF seqs
  <2> QED BY <2>2, <2>3, <2>4, JoinedNone
<1> QED BY <1>1, <1>2

(* A sequence that is joined with others is no longer than what they give.     *)
LEMMA PartOfJoined ==
    ASSUME NEW X, NEW seqs \in Seq(Seq(X)), NEW i \in 1..Len(seqs)
    PROVE  Len(seqs[i]) <= Len(Joined(seqs))
<1>1. PICK N \in Nat : N = Len(seqs)
  OBVIOUS
<1>2. PICK join \in [0..N -> Seq(X)] :
         /\ Joined(seqs) = join[N]
         /\ \A n \in 1..N : join[n] = join[n - 1] \o seqs[n]
  BY <1>1, JoinSteps
<1>3. i \in 1..N /\ i \in Nat /\ \A n \in 1..N : seqs[n] \in Seq(X)
  BY <1>1
<1> DEFINE T == {n \in Nat : i <= n /\ n <= N => Len(seqs[i]) <= Len(join[n])}
<1>4. 0 \in T
  BY <1>3
<1>5. ASSUME NEW n \in Nat, n \in T PROVE n + 1 \in T
  <2> SUFFICES ASSUME i <= n + 1, n + 1 <= N PROVE Len(seqs[i]) <= Len(join[n + 1])
    OBVIOUS
  <2>1. n + 1 \in 1..N /\ (n + 1) - 1 = n /\ n \in 0..N
    BY <1>1
  <2>2. join[n + 1] = join[n] \o seqs[n + 1]
    BY <1>2, <2>1
  <2>3. join[n] \in Seq(X) /\ seqs[n + 1] \in Seq(X)
    BY <1>2, <1>3, <2>1
  <2>4. Len(join[n + 1]) = Len(join[n]) + Len(seqs[n + 1])
    BY <2>2, <2>3
  <2>5. PICK before \in Nat, more \in Nat, whole \in Nat :
           before = Len(join[n]) /\ more = Len(seqs[n + 1]) /\ whole = Len(join[n + 1])
    <3>1. Len(join[n]) \in Nat /\ Len(seqs[n + 1]) \in Nat
      BY <2>3
    <3>2. join[n + 1] \in Seq(X)
      BY <1>2, <2>1
    <3>3. Len(join[n + 1]) \in Nat
      BY <3>2
    <3> QED BY <3>1, <3>3
  <2>6. whole = before + more
    BY <2>4, <2>5
  <2>7. before <= whole /\ more <= whole
    BY <2>6
  <2>8. CASE i = n + 1
    BY <2>5, <2>7, <2>8
  <2>9. CASE i <= n
    <3>1. PICK part \in Nat : part = Len(seqs[i])
      BY <1>3
    <3>2. part <= before
      BY <1>5, <2>1, <2>5, <2>9, <3>1
    <3>3. part <= whole
      BY <2>6, <3>2
    <3> QED BY <2>5, <3>1, <3>3
  <2> QED BY <1>3, <2>8, <2>9
<1> HIDE DEF T
<1>6. Nat \subseteq T
  BY <1>4, <1>5, InductiveSet
<1> QED BY <1>1, <1>2, <1>3, <1>6 DEF T

\* No mini-block is longer than the chunk.
LEMMA BlockIsPart ==
    ASSUME NEW pages, PagesTyped(pages), NEW i \in DOMAIN pages,
           NEW j \in DOMAIN pages[i].blocks
    PROVE  Len(pages[i].blocks[j].times) <= Len(ReadChunk(pages))
<1> DEFINE Read(k, l) == BlockPoints(pages[k].blocks[l])
           X == {Read(k, l)[n] : k \in Nat, l \in Nat, n \in Nat}
           parts(k) == [l \in 1..Len(pages[k].blocks) |-> Read(k, l)]
           whole == [k \in 1..Len(pages) |-> PagePoints(pages[k])]
<1>1. pages \in Seq(Page) /\ DOMAIN pages = 1..Len(pages) /\ Len(pages) \in Nat
  BY DEF PagesTyped
<1>2. ASSUME NEW k \in 1..Len(pages)
      PROVE  /\ pages[k].blocks \in Seq(Block)
             /\ DOMAIN pages[k].blocks = 1..Len(pages[k].blocks)
             /\ Len(pages[k].blocks) \in Nat
  <2>1. pages[k] \in Page
    BY <1>1
  <2>2. pages[k].blocks \in Seq(Block)
    BY <2>1 DEF Page
  <2> QED BY <2>2
<1>3. ASSUME NEW k \in 1..Len(pages), NEW l \in 1..Len(pages[k].blocks)
      PROVE  /\ Read(k, l) \in Seq(X)
             /\ Len(Read(k, l)) = Len(pages[k].blocks[l].times)
  <2>1. pages[k].blocks[l] \in Block
    BY <1>2
  <2>2. PICK n \in Nat : n = Len(pages[k].blocks[l].times)
    BY <2>1 DEF Block
  <2>3. PICK f : f = Read(k, l)
    OBVIOUS
  <2>4. DOMAIN f = 1..n /\ f = [x \in 1..n |-> f[x]]
    BY <2>2, <2>3 DEF BlockPoints
  <2> HIDE DEF Read
  <2>5. ASSUME NEW x \in 1..n PROVE f[x] \in X
    <3>1. k \in Nat /\ l \in Nat /\ x \in Nat
      BY <1>1, <1>2
    <3>2. Read(k, l)[x] \in X
      BY <3>1
    <3> QED BY <2>3, <3>2
  <2> HIDE DEF X
  <2>6. f \in [1..n -> X]
    BY <2>4, <2>5
  <2>7. f \in Seq(X) /\ Len(f) = n
    BY <2>6, FunctionsAreSequences
  <2> QED BY <2>2, <2>3, <2>7
<1> HIDE DEF X, Read
<1>4. ASSUME NEW k \in 1..Len(pages)
      PROVE  /\ parts(k) \in Seq(Seq(X)) /\ PagePoints(pages[k]) = Joined(parts(k))
             /\ Len(parts(k)) = Len(pages[k].blocks)
  <2>1. PICK n \in Nat : n = Len(pages[k].blocks)
    BY <1>2
  <2>2. parts(k) \in [1..n -> Seq(X)]
    BY <1>3, <2>1
  <2>3. PagePoints(pages[k]) = Joined(parts(k))
    BY DEF PagePoints, Read
  <2> HIDE DEF parts
  <2> QED BY <2>1, <2>2, <2>3, FunctionsAreSequences
<1>5. PICK k \in 1..Len(pages) : k = i
  BY <1>1
<1>6. PICK l \in 1..Len(pages[k].blocks) : l = j
  BY <1>2, <1>5
<1>7. parts(k)[l] = Read(k, l)
  OBVIOUS
<1> HIDE DEF parts
<1>8. Len(Read(k, l)) <= Len(PagePoints(pages[k]))
  BY <1>4, <1>7, PartOfJoined
<1>9. whole \in Seq(Seq(X)) /\ Len(whole) = Len(pages) /\ whole[k] = PagePoints(pages[k])
  <2>1. \A x \in 1..Len(pages) : PagePoints(pages[x]) \in Seq(X)
    BY <1>4, JoinedTyped
  <2>2. whole \in [1..Len(pages) -> Seq(X)] /\ whole[k] = PagePoints(pages[k])
    BY <2>1
  <2> HIDE DEF whole
  <2> QED BY <1>1, <2>2, FunctionsAreSequences
<1>10. ReadChunk(pages) = Joined(whole)
  BY DEF ReadChunk
<1> HIDE DEF whole
<1>11. Len(PagePoints(pages[k])) <= Len(ReadChunk(pages))
  BY <1>9, <1>10, PartOfJoined
<1>12. Len(PagePoints(pages[k])) \in Nat /\ Len(Read(k, l)) \in Nat
  BY <1>3, <1>4, JoinedTyped
<1>13. Len(ReadChunk(pages)) \in Nat
  BY DEF PagesTyped
<1>14. Len(Read(k, l)) <= Len(ReadChunk(pages))
  BY <1>8, <1>11, <1>12, <1>13
<1>15. Len(Read(k, l)) = Len(pages[i].blocks[j].times)
  BY <1>3, <1>5, <1>6
<1> QED BY <1>14, <1>15

(* A chunk of a type that can be read is read if a mini-block of all its       *)
(* points would be.                                                            *)
LEMMA ShortReads ==
    ASSUME NEW io, Filed(io), NEW d \in DOMAIN io.groups, NEW m, Of(io, d, m) # {},
           TypeOf[m] \notin Unreadable,
           NEW n \in Nat, BlockReads(m, n), Len(ReadFirst(io, d, m)) <= n
    PROVE  ChunkReads(io, d, m)
<1>1. CASE UnpackedAsPacked(m)
  BY <1>1 DEF ChunkReads
<1>2. CASE ~UnpackedAsPacked(m)
  <2>1. n <= 2
    BY <1>2 DEF BlockReads
  <2>2. PICK i \in 1..Len(io.groups[d]) : FirstChunk(io, d, m) = io.groups[d][i]
    BY FirstOf
  <2>3. Regions(io.stream) /\ Addressed(io.groups, io.stream)
    BY DEF Filed, IOFine
  <2>4. PICK k \in 1..Len(io.stream) :
           io.stream[k].kind = "chunk" /\ io.stream[k].off = io.groups[d][i].off
    BY <2>3 DEF Addressed
  <2>5. PICK pages : pages = io.stream[k].pages
    OBVIOUS
  <2>6. PagesTyped(pages)
    BY <2>3, <2>4, <2>5 DEF Addressed
  <2>7. RegionAt(io.stream, FirstChunk(io, d, m).off).pages = pages
    BY <2>2, <2>3, <2>4, <2>5, RegionAtIs
  <2>8. ReadFirst(io, d, m) = ReadChunk(pages)
    BY <2>7 DEF ReadFirst, ChunkContent
  <2>9. Len(ReadChunk(pages)) \in Nat
    BY <2>6 DEF PagesTyped
  <2>10. ASSUME NEW opened \in ToSet(pages), NEW block \in ToSet(opened.blocks)
         PROVE  BlockReads(m, Len(block.times))
    <3>1. PICK x \in DOMAIN pages : opened = pages[x]
      BY DEF ToSet
    <3>2. PICK z \in DOMAIN pages[x].blocks : block = pages[x].blocks[z]
      BY <3>1 DEF ToSet
    <3>3. Len(block.times) <= Len(ReadChunk(pages))
      BY <2>6, <3>2, BlockIsPart
    <3>4. Len(block.times) \in Nat
      <4>1. pages[x] \in Page
        BY <2>6 DEF PagesTyped
      <4>2. pages[x].blocks \in Seq(Block)
        BY <4>1 DEF Page
      <4>3. block \in Block
        BY <3>2, <4>2
      <4> QED BY <4>3 DEF Block
    <3> QED BY <2>1, <2>8, <2>9, <3>3, <3>4 DEF BlockReads
  <2> QED BY <2>7, <2>10 DEF ChunkReads
<1> QED BY <1>1, <1>2

LEMMA DecodableHas ==
    ASSUME NEW io, Filed(io), NEW d \in DOMAIN io.groups, NEW m
    PROVE  m \in ToSet(Decodable(io, d)) <=> ChunkReads(io, d, m) /\ Of(io, d, m) # {}
<1>1. PICK names : names = MeasurementsOf(io, d)
  OBVIOUS
<1>2. io.groups[d] \in Seq(Meta)
  BY DEF Filed, IOFine
<1>3. PICK n \in Nat : n = Len(io.groups[d]) /\ DOMAIN io.groups[d] = 1..n
  BY <1>2
<1>4. names = [i \in 1..n |-> io.groups[d][i].name]
  BY <1>1, <1>3 DEF MeasurementsOf
<1> DEFINE X == {io.groups[d][i].name : i \in 1..n}
           places == {i \in DOMAIN names : ChunkReads(io, d, names[i])}
<1>5. names \in [1..n -> X]
  BY <1>4
<1> HIDE DEF X
<1>6. names \in Seq(X) /\ Len(names) = n /\ DOMAIN names = 1..n
  BY <1>3, <1>5, FunctionsAreSequences
<1>7. PICK p : p = Picked(names, places)
  OBVIOUS
<1>8. Decodable(io, d) = p
  BY <1>1, <1>7 DEF Decodable
<1>9. \A i \in 1..n : i \in places <=> ChunkReads(io, d, names[i])
  BY <1>6
<1> HIDE DEF places
<1>10. ToSet(p) = {p[k] : k \in DOMAIN p}
  BY DEF ToSet
<1>11. ASSUME NEW i \in 1..n, names[i] = m, ChunkReads(io, d, m)
       PROVE  m \in ToSet(p)
  <2>1. i \in places
    BY <1>9, <1>11
  <2>2. \E k \in DOMAIN p : p[k] = m
    BY <1>6, <1>7, <1>11, <2>1, PickedHas
  <2> QED BY <1>10, <2>2
<1>12. ASSUME m \in ToSet(p)
       PROVE  \E i \in 1..n : names[i] = m /\ ChunkReads(io, d, m)
  <2> DEFINE Y == {names[i] : i \in {i \in 1..Len(names) : i \in places}}
  <2>1. p \in Seq(Y)
    BY <1>6, <1>7, PickedTyped
  <2>2. \A y \in Y : \E i \in 1..n : i \in places /\ y = names[i]
    BY <1>6
  <2> HIDE DEF Y
  <2>3. m \in Y
    BY <1>10, <1>12, <2>1
  <2> QED BY <1>9, <2>2, <2>3
<1>13. Of(io, d, m) # {} <=> \E i \in 1..n : names[i] = m
  BY <1>3, <1>4 DEF Of
<1> QED BY <1>8, <1>11, <1>12, <1>13

LEMMA StoredHolds ==
    ASSUME Meant, WriterInv
    PROVE  StoredAsGiven
<1> SUFFICES ASSUME ColumnsAgree, phase = "closed", NEW d \in Devices \ damaged,
                    NEW m \in DOMAIN TypeOf, NEW read, read = ExecuteColumn(w.io, d, m)
             PROVE  /\ Content(w.io.groups, w.io.stream, d, m) = Given(d, m)
                    /\ IsPrefix(read.rows, Given(d, m))
                    /\ read.rows # <<>> => TypeOf[m] \notin Unreadable
                    /\ /\ Given(d, m) # <<>> /\ TypeOf[m] \notin Unreadable
                       /\ BlockReads(m, Len(Given(d, m)))
                       => read.rows # <<>>
  BY Zenon DEF StoredAsGiven
<1>1. /\ Ready(w) /\ w.cur = NoDevice /\ Bookkeeping(accepted)
      /\ Carries(w, accepted, damaged)
  BY DEF WriterInv, WriterHas
<1>2. PICK io : io = w.io /\ Filed(io)
  BY <1>1 DEF Ready
<1>3. m \in Measurements /\ d \in Devices /\ d # NoDevice
  BY DEF Meant, Devices
<1>4. PICK given \in Seq(Points) : given = Given(d, m)
  <2>1. accepted[d] \in Seq(FileRow)
    BY <1>1 DEF Bookkeeping
  <2> QED BY <2>1, PointsOfTyped DEF Given
<1>5. ContentOf(io, d, m) = given
  <2>1. Has(w, d, m, PointsOf(m, accepted[d]))
    BY <1>1, <1>3 DEF Carries, CarriesOf
  <2> QED BY <1>1, <1>2, <1>3, <1>4, <2>1 DEF Has, Given
<1>6. CASE d \in DOMAIN io.groups /\ Of(io, d, m) # {}
  <2>1. PICK first \in Seq(Points) :
           /\ first = ReadFirst(io, d, m) /\ first # <<>>
           /\ Begins(first, given, Points)
    BY <1>2, <1>5, <1>6, FirstOf
  <2>3. IsPrefix(first, given)
    BY <2>1 DEF Begins, IsPrefix
  <2>4. CASE ~ChunkReads(io, d, m)
    <3>1. m \notin ToSet(Decodable(io, d))
      BY <1>2, <1>6, <2>4, DecodableHas
    <3>2. read.rows = <<>>
      BY <1>2, <3>1 DEF ExecuteColumn
    <3>3. IsPrefix(<<>>, given)
      BY DEF IsPrefix
    <3>4. ~(TypeOf[m] \notin Unreadable /\ BlockReads(m, Len(given)))
      <4>1. Len(given) \in Nat /\ Len(first) <= Len(given)
        BY <2>1 DEF Begins
      <4> QED BY <1>2, <1>6, <2>1, <2>4, <4>1, ShortReads
    <3> QED BY <1>2, <1>4, <1>5, <3>2, <3>3, <3>4 DEF ContentOf
  <2>5. CASE ChunkReads(io, d, m)
    <3>1. m \in ToSet(Decodable(io, d))
      BY <1>2, <1>6, <2>5, DecodableHas
    <3>2. read.rows = first
      BY <1>2, <1>6, <2>1, <3>1 DEF ExecuteColumn
    <3>3. TypeOf[m] \notin Unreadable
      BY <2>5 DEF ChunkReads
    <3> QED BY <1>2, <1>4, <1>5, <2>1, <2>3, <3>2, <3>3 DEF ContentOf
  <2> QED BY <2>4, <2>5
<1>7. CASE ~(d \in DOMAIN io.groups /\ Of(io, d, m) # {})
  <2>1. given = <<>>
    BY <1>2, <1>5, <1>7, NoneOf
  <2>2. d \in DOMAIN io.groups => m \notin ToSet(Decodable(io, d))
    BY <1>2, <1>7, DecodableHas
  <2>3. read.rows = <<>>
    BY <1>2, <2>2 DEF ExecuteColumn
  <2>4. IsPrefix(<<>>, <<>>)
    BY DEF IsPrefix
  <2> QED BY <1>2, <1>4, <1>5, <2>1, <2>3, <2>4 DEF ContentOf
<1> QED BY <1>6, <1>7

-------------------------------------------------------------------------------
(* What an iteration has passed of the devices when it stands behind place n.  *)
PassedBy(io, devs, n) ==
    LET passed == SubSeq(devs, 1, n)
    IN  Picked(passed, {i \in DOMAIN passed : Decodable(io, passed[i]) # <<>>})

LEMMA PassedNone ==
    ASSUME NEW io, NEW X, NEW devs \in Seq(X)
    PROVE  PassedBy(io, devs, 0) = <<>>
<1>1. PICK s \in Seq(X) : s = SubSeq(devs, 1, 0) /\ s = <<>>
  <2>1. SubSeq(devs, 1, 0) = <<>> /\ <<>> \in Seq(X)
    OBVIOUS
  <2> QED BY <2>1
<1>2. PICK places : places = {i \in DOMAIN s : Decodable(io, s[i]) # <<>>}
  OBVIOUS
<1>3. Picked(s, places) \in Seq({s[i] : i \in {i \in 1..Len(s) : i \in places}})
  BY PickedTyped
<1>4. {s[i] : i \in {i \in 1..Len(s) : i \in places}} = {}
  BY <1>1
<1>5. Picked(s, places) = <<>>
  <2>1. PICK q \in Seq({}) : q = Picked(s, places)
    BY <1>3, <1>4
  <2>2. q = <<>>
    OBVIOUS
  <2> QED BY <2>1, <2>2
<1> QED BY <1>1, <1>2, <1>5 DEF PassedBy

LEMMA PassedMore ==
    ASSUME NEW io, NEW X, NEW devs \in Seq(X), NEW n \in Nat, n + 1 <= Len(devs)
    PROVE  PassedBy(io, devs, n + 1) =
              IF Decodable(io, devs[n + 1]) # <<>>
              THEN Append(PassedBy(io, devs, n), devs[n + 1]) ELSE PassedBy(io, devs, n)
<1>1. PICK s : s = SubSeq(devs, 1, n)
  OBVIOUS
<1>2. PICK x : x = devs[n + 1]
  OBVIOUS
<1>3. PICK t : t = SubSeq(devs, 1, n + 1)
  OBVIOUS
<1>4. s \in Seq(X) /\ x \in X /\ Len(s) = n /\ DOMAIN s = 1..n
  BY <1>1, <1>2
<1>5. t = Append(s, x) /\ DOMAIN t = 1..(n + 1) /\ t[n + 1] = x
      /\ \A i \in 1..n : t[i] = s[i]
  BY <1>1, <1>2, <1>3
<1> DEFINE places == {i \in DOMAIN s : Decodable(io, s[i]) # <<>>}
           now == {i \in DOMAIN t : Decodable(io, t[i]) # <<>>}
<1>6. \A i \in 1..Len(s) : i \in places <=> i \in now
  BY <1>4, <1>5
<1>7. Len(s) + 1 \in now <=> Decodable(io, x) # <<>>
  BY <1>4, <1>5
<1>8. PassedBy(io, devs, n) = Picked(s, places) /\ PassedBy(io, devs, n + 1) = Picked(t, now)
  BY <1>1, <1>3 DEF PassedBy
<1> HIDE DEF places, now
<1>9. Picked(Append(s, x), now) =
         IF Len(s) + 1 \in now THEN Append(Picked(s, places), x) ELSE Picked(s, places)
  BY <1>4, <1>6, PickedMore
<1> QED BY <1>2, <1>5, <1>7, <1>8, <1>9

LEMMA PassedOver ==
    ASSUME NEW io, NEW X, NEW devs \in Seq(X), NEW n \in Nat, NEW m \in Nat, n <= m,
           m <= Len(devs), \A i \in (n + 1)..m : Decodable(io, devs[i]) = <<>>
    PROVE  PassedBy(io, devs, m) = PassedBy(io, devs, n)
<1> DEFINE T == {k \in Nat : n + k <= m => PassedBy(io, devs, n + k) = PassedBy(io, devs, n)}
<1>1. 0 \in T
  <2>1. n + 0 = n
    OBVIOUS
  <2> QED BY <2>1
<1>2. ASSUME NEW k \in Nat, k \in T PROVE k + 1 \in T
  <2> SUFFICES ASSUME n + (k + 1) <= m
               PROVE  PassedBy(io, devs, n + (k + 1)) = PassedBy(io, devs, n)
    OBVIOUS
  <2>1. PICK l \in Nat : l = n + k
    OBVIOUS
  <2>2. l + 1 = n + (k + 1) /\ l + 1 \in (n + 1)..m /\ l + 1 <= Len(devs) /\ n + k <= m
    BY <2>1
  <2>3. PassedBy(io, devs, l) = PassedBy(io, devs, n)
    BY <1>2, <2>1, <2>2
  <2>4. PassedBy(io, devs, l + 1) = PassedBy(io, devs, l)
    BY <2>2, PassedMore
  <2> QED BY <2>2, <2>3, <2>4
<1> HIDE DEF T
<1>3. Nat \subseteq T
  BY <1>1, <1>2, InductiveSet
<1>4. PICK k \in Nat : n + k = m
  <2>1. m - n \in Nat /\ n + (m - n) = m
    OBVIOUS
  <2> QED BY <2>1
<1>5. k \in T
  BY <1>3
<1> QED BY <1>4, <1>5 DEF T

(* The next device is the first behind the last of which something can be read. *)
NextIs(io, r, at) ==
    /\ at \in r.index..(Len(r.devices) + 1)
    /\ at <= Len(r.devices) => Decodable(io, r.devices[at]) # <<>>
    /\ \A i \in r.index..(at - 1) : Decodable(io, r.devices[i]) = <<>>

LEMMA NextDeviceIs ==
    ASSUME NEW io, NEW r, NEW X, r.devices \in Seq(X),
           r.index \in Nat, 1 <= r.index, r.index <= Len(r.devices) + 1
    PROVE  NextIs(io, r, NextDevice(io, r))
<1>1. PICK n \in Nat : n = Len(r.devices)
  OBVIOUS
<1>2. PICK k \in 1..(n + 1) : k = r.index
  BY <1>1
<1>9. PICK at : at = NextDevice(io, r)
  OBVIOUS
<1> DEFINE S == {i \in k..n : Decodable(io, r.devices[i]) # <<>>} \cup {n + 1}
<1>10. at = Min(S)
  BY <1>1, <1>2, <1>9 DEF NextDevice
<1>3. S \in SUBSET Nat /\ S # {} /\ n + 1 \in S /\ S \subseteq k..(n + 1)
  BY <1>1
<1>4. \A i \in S : i <= n => Decodable(io, r.devices[i]) # <<>>
  BY <1>1
<1>5. \A i \in k..n : i \notin S => Decodable(io, r.devices[i]) = <<>>
  BY <1>1
<1> HIDE DEF S
<1>6. at \in S /\ \A j \in S : at <= j
  <2>1. \E x \in S : \A y \in S : x <= y
    BY <1>3, LeastNumber
  <2> QED BY <1>10, <2>1 DEF Min
<1>7. at \in k..(n + 1) /\ (at <= n => Decodable(io, r.devices[at]) # <<>>)
  BY <1>3, <1>4, <1>6
<1>8. ASSUME NEW i \in k..(at - 1) PROVE Decodable(io, r.devices[i]) = <<>>
  <2>1. i \in k..n /\ ~(at <= i)
    BY <1>1, <1>7
  <2> QED BY <1>5, <1>6, <2>1
<1> QED BY <1>1, <1>2, <1>7, <1>8, <1>9 DEF NextIs

(* The batch of a device is made of its arrays, or refused with its name.      *)
LEMMA BatchHandedOver ==
    ASSUME NEW schema, NEW d, NEW arrays, NEW b, b = BatchOf(schema, d, arrays)
    PROVE  b.device = d /\ b.kind \in {"batch", "err"}
BY DEF BatchOf, NoBatch

(* The reader in every state: it stands behind a place of its devices, what it *)
(* passed was answered, and the last batch is that of a device of the file.    *)
Standing(rd) == Smaller(rd.index - 1, Len(rd.devices))

Fetched(io, rd, answer) ==
    /\ answer.kind \in {"none", "err", "batch"}
    /\ answer.kind # "none" /\ answer.device # NoDevice =>
          /\ answer.device \in DOMAIN io.groups /\ Decodable(io, answer.device) # <<>>
          /\ answer = BatchOf(rd.schema, answer.device, ArraysOf(io, answer.device))

Iterates(io, rd, done) ==
    /\ rd = [devices |-> rd.devices, index |-> rd.index, ok |-> rd.ok, schema |-> rd.schema]
    /\ rd.devices \in Seq(DOMAIN io.groups)
    /\ rd.index \in Nat /\ 1 <= rd.index /\ rd.index <= Len(rd.devices) + 1
    /\ done = PassedBy(io, rd.devices, Standing(rd))

AnswersFor(io, answer, about) ==
    about # NoDevice /\ Decodable(io, about) # <<>> =>
        answer.device = about /\ answer.kind \in {"batch", "err"}

ReaderHas(io, rd, answer, done, about, now) ==
    /\ now # "reading" => /\ rd = NoReader /\ answer = NoBatch
                          /\ done = <<>> /\ about = NoDevice
    /\ now = "reading" => Iterates(io, rd, done)
    /\ Fetched(io, rd, answer) /\ AnswersFor(io, answer, about)

ReaderInv == ReaderHas(w.io, reader, out, yielded, asked, phase)

LEMMA FetchedFor ==
    ASSUME NEW io, NEW r, r.devices \in Seq(DOMAIN io.groups),
           r.index \in Nat, 1 <= r.index, r.index <= Len(r.devices) + 1,
           NEW answer, answer = ReadNextBatch(io, r)
    PROVE  /\ Fetched(io, r, answer)
           /\ answer.kind = "none" <=> NextDevice(io, r) > Len(r.devices)
           /\ NextDevice(io, r) <= Len(r.devices) =>
                 answer.device = r.devices[NextDevice(io, r)]
<1>1. PICK n \in Nat : n = Len(r.devices)
  OBVIOUS
<1>2. PICK k \in 1..(n + 1) : k = r.index
  BY <1>1
<1>3. PICK at : at = NextDevice(io, r)
  OBVIOUS
<1>4. at \in k..(n + 1) /\ (at <= n => Decodable(io, r.devices[at]) # <<>>)
  BY <1>1, <1>2, <1>3, NextDeviceIs DEF NextIs
<1>5. at \in Nat /\ (at <= n \/ at > n)
  BY <1>1, <1>2, <1>4
<1>6. CASE at > n
  <2>1. answer = NoBatch
    BY <1>1, <1>3, <1>6 DEF ReadNextBatch
  <2>2. answer.kind = "none" /\ ~(at <= n)
    BY <1>1, <1>5, <1>6, <2>1 DEF NoBatch
  <2> QED BY <1>1, <1>3, <1>6, <2>2 DEF Fetched
<1>7. CASE at <= n
  <2>1. PICK d : d = r.devices[at]
    OBVIOUS
  <2>2. ~(at > n) /\ at \in 1..n
    BY <1>1, <1>2, <1>4, <1>7
  <2>3. answer = BatchOf(r.schema, d, ArraysOf(io, d))
    BY <1>1, <1>3, <2>1, <2>2 DEF ReadNextBatch
  <2>4. d \in DOMAIN io.groups
    BY <1>1, <2>1, <2>2
  <2>5. answer.device = d /\ answer.kind \in {"batch", "err"}
    BY <2>3, BatchHandedOver
  <2>6. Decodable(io, d) # <<>>
    BY <1>4, <1>7, <2>1
  <2> QED BY <1>1, <1>3, <2>1, <2>2, <2>3, <2>4, <2>5, <2>6 DEF Fetched
<1> QED BY <1>5, <1>6, <1>7

LEMMA AdvancedOn ==
    ASSUME NEW io, NEW r, NEW done, Iterates(io, r, done), r.index <= Len(r.devices),
           NEW answer, answer = ReadNextBatch(io, r), NEW x, x = Advanced(io, r)
    PROVE  /\ Iterates(io, x, IF answer.kind = "none" THEN done
                              ELSE Append(done, answer.device))
           /\ x.schema = r.schema
<1>1. PICK devs \in Seq(DOMAIN io.groups) : devs = r.devices
  BY DEF Iterates
<1>2. PICK n \in Nat : n = Len(devs)
  OBVIOUS
<1>3. PICK m \in Nat : r.index = m + 1 /\ m + 1 <= n
  <2>1. r.index - 1 \in Nat /\ r.index = (r.index - 1) + 1
    BY <1>1, <1>2 DEF Iterates
  <2> QED BY <1>1, <1>2, <2>1
<1>4. PICK at : at = NextDevice(io, r)
  OBVIOUS
<1>5. /\ at \in (m + 1)..(n + 1) /\ (at <= n => Decodable(io, devs[at]) # <<>>)
      /\ \A i \in (m + 1)..(at - 1) : Decodable(io, devs[i]) = <<>>
  <2>1. NextIs(io, r, at)
    BY <1>4, NextDeviceIs DEF Iterates
  <2> QED BY <1>1, <1>2, <1>3, <2>1 DEF NextIs
<1>6. done = PassedBy(io, devs, m)
  <2>1. Standing(r) = m
    BY <1>1, <1>2, <1>3 DEF Standing, Smaller
  <2> QED BY <1>1, <2>1 DEF Iterates
<1>7. Fetched(io, r, answer) /\ (answer.kind = "none" <=> at > n)
      /\ (at <= n => answer.device = devs[at])
  <2>1. r.index \in Nat /\ 1 <= r.index /\ r.index <= Len(r.devices) + 1
    BY DEF Iterates
  <2> QED BY <1>1, <1>2, <1>4, <2>1, FetchedFor
<1>8. /\ x = [devices |-> devs, index |-> Smaller(at, n) + 1, ok |-> r.ok, schema |-> r.schema]
      /\ x.devices = devs /\ x.index = Smaller(at, n) + 1 /\ x.schema = r.schema /\ x.ok = r.ok
  BY <1>1, <1>2, <1>4 DEF Advanced, Iterates
<1>9. at \in Nat /\ at >= m + 1 /\ (at = n + 1 \/ at <= n)
  BY <1>2, <1>3, <1>5
<1>10. CASE at = n + 1
  <2>1. Smaller(at, n) = n /\ x.index = n + 1 /\ Standing(x) = n /\ answer.kind = "none"
    BY <1>2, <1>7, <1>8, <1>10 DEF Smaller, Standing
  <2>2. \A i \in (m + 1)..n : Decodable(io, devs[i]) = <<>>
    BY <1>2, <1>3, <1>5, <1>10
  <2>3. PassedBy(io, devs, n) = done
    BY <1>2, <1>3, <1>6, <2>2, PassedOver
  <2> QED BY <1>1, <1>2, <1>8, <2>1, <2>3 DEF Iterates
<1>11. CASE at <= n
  <2>1. PICK l \in Nat : at = l + 1 /\ m <= l /\ l + 1 <= n
    <3>1. at - 1 \in Nat /\ at = (at - 1) + 1 /\ m <= at - 1 /\ (at - 1) + 1 <= n
      BY <1>2, <1>3, <1>9, <1>11
    <3> QED BY <3>1
  <2>2. Smaller(at, n) = l + 1 /\ x.index = (l + 1) + 1 /\ Standing(x) = l + 1
        /\ answer.kind # "none"
    BY <1>2, <1>7, <1>8, <1>11, <2>1 DEF Smaller, Standing
  <2>3. \A i \in (m + 1)..l : Decodable(io, devs[i]) = <<>>
    BY <1>3, <1>5, <2>1
  <2>4. l <= Len(devs)
    BY <1>2, <2>1
  <2>5. PassedBy(io, devs, l) = done
    BY <1>2, <1>3, <1>6, <2>1, <2>3, <2>4, PassedOver
  <2>6. PassedBy(io, devs, l + 1) = Append(done, devs[l + 1])
    BY <1>2, <1>5, <1>11, <2>1, <2>5, PassedMore
  <2>7. answer.device = devs[l + 1]
    BY <1>7, <1>11, <2>1
  <2> QED BY <1>1, <1>2, <1>8, <2>1, <2>2, <2>6, <2>7 DEF Iterates
<1> QED BY <1>8, <1>9, <1>10, <1>11

(* A query starts at the device it is for.                                     *)
LEMMA QueriedFor ==
    ASSUME NEW io, NEW r, NEW done, Iterates(io, r, done),
           NEW d \in ToSet(r.devices), NEW read, read = ExecuteBatch(io, r, d)
    PROVE  /\ read.r = r /\ Fetched(io, r, read.batch) /\ AnswersFor(io, read.batch, d)
<1>1. PICK n \in Nat : n = Len(r.devices) /\ DOMAIN r.devices = 1..n
  BY DEF Iterates
<1>2. PICK i : i = CHOOSE j \in DOMAIN r.devices : r.devices[j] = d
  OBVIOUS
<1>3. i \in 1..n /\ r.devices[i] = d
  <2>1. \E j \in DOMAIN r.devices : r.devices[j] = d
    BY DEF ToSet
  <2> QED BY <1>1, <1>2, <2>1
<1>4. PICK x : x = At(r, d)
  OBVIOUS
<1>5. x.devices = r.devices /\ x.index = i /\ x.schema = r.schema
      /\ x.devices \in Seq(DOMAIN io.groups)
  BY <1>2, <1>4 DEF At, Iterates
<1>6. PICK batch : batch = ReadNextBatch(io, x)
  OBVIOUS
<1>7. PICK at : at = NextDevice(io, x)
  OBVIOUS
<1>8. /\ at \in i..(n + 1) /\ (at <= n => Decodable(io, r.devices[at]) # <<>>)
      /\ \A j \in i..(at - 1) : Decodable(io, r.devices[j]) = <<>>
  <2>1. /\ x.devices \in Seq(DOMAIN io.groups)
        /\ x.index \in Nat /\ 1 <= x.index /\ x.index <= Len(x.devices) + 1
    BY <1>1, <1>3, <1>5
  <2>2. NextIs(io, x, at)
    BY <1>7, <2>1, NextDeviceIs
  <2> QED BY <1>1, <1>5, <2>2 DEF NextIs
<1>9. /\ Fetched(io, x, batch) /\ (batch.kind = "none" <=> at > n)
      /\ at <= n => batch.device = r.devices[at]
  <2>1. i \in Nat /\ 1 <= i /\ i <= Len(r.devices) + 1
    BY <1>1, <1>3
  <2> QED BY <1>1, <1>5, <1>6, <1>7, <2>1, FetchedFor
<1>10. /\ read.r = r
       /\ read.batch = IF batch.kind = "none" THEN [NoBatch EXCEPT !.kind = "err"] ELSE batch
  BY <1>4, <1>6 DEF ExecuteBatch
<1>11. Fetched(io, r, read.batch)
  <2>1. CASE batch.kind = "none"
    <3>1. read.batch.kind = "err" /\ read.batch.device = NoDevice
      BY <1>10, <2>1 DEF NoBatch
    <3> QED BY <3>1 DEF Fetched
  <2>2. CASE batch.kind # "none"
    <3>1. read.batch = batch
      BY <1>10, <2>2
    <3> QED BY <1>5, <1>9, <3>1 DEF Fetched
  <2> QED BY <2>1, <2>2
<1>12. AnswersFor(io, read.batch, d)
  <2> SUFFICES ASSUME Decodable(io, d) # <<>>
               PROVE  read.batch.device = d /\ read.batch.kind \in {"batch", "err"}
    BY DEF AnswersFor
  <2>1. at = i
    <3>1. ~(i <= at - 1)
      BY <1>3, <1>8
    <3> QED BY <1>1, <1>3, <1>8, <3>1
  <2>2. at <= n /\ ~(at > n)
    BY <1>1, <1>3, <2>1
  <2>3. batch.kind # "none" /\ batch.device = d
    BY <1>3, <1>9, <2>1, <2>2
  <2> QED BY <1>9, <1>10, <2>3 DEF Fetched
<1> QED BY <1>10, <1>11, <1>12

LEMMA ReaderFirst ==
    ASSUME Init
    PROVE  ReaderInv
<1>1. /\ phase = "writing" /\ reader = NoReader /\ out = NoBatch
      /\ yielded = <<>> /\ asked = NoDevice
  BY DEF Init
<1>2. NoBatch.kind = "none"
  BY DEF NoBatch
<1>3. Fetched(w.io, reader, out) /\ AnswersFor(w.io, out, asked)
  BY <1>1, <1>2 DEF Fetched, AnswersFor
<1> QED BY <1>1, <1>3 DEF ReaderInv, ReaderHas

(* Before the file is closed nothing is read.                                  *)
LEMMA StillWriting ==
    ASSUME ReaderInv, phase # "reading", phase' # "reading", UNCHANGED readerVars
    PROVE  ReaderInv'
<1>1. reader' = reader /\ out' = out /\ yielded' = yielded /\ asked' = asked
  BY DEF readerVars
<1>2. reader = NoReader /\ out = NoBatch /\ yielded = <<>> /\ asked = NoDevice
  BY DEF ReaderInv, ReaderHas
<1>3. NoBatch.kind = "none"
  BY DEF NoBatch
<1>4. PICK io : io = w'.io
  OBVIOUS
<1>5. PICK now : now = phase' /\ now # "reading"
  OBVIOUS
<1>6. Fetched(io, NoReader, NoBatch) /\ AnswersFor(io, NoBatch, NoDevice)
  BY <1>3 DEF Fetched, AnswersFor
<1>7. ReaderHas(io, NoReader, NoBatch, <<>>, NoDevice, now)
  BY <1>5, <1>6 DEF ReaderHas
<1>8. ReaderHas(w'.io, reader', out', yielded', asked', phase')
  BY <1>1, <1>2, <1>4, <1>5, <1>7
<1> QED BY <1>8 DEF ReaderInv

LEMMA OpenReads ==
    ASSUME WriterInv, ReaderInv, Open
    PROVE  ReaderInv'
<1>1. PICK order \in SetToSeqs(DOMAIN w.io.groups) : reader' = OpenReader(w.io, order)
  BY Zenon DEF Open
<1>2. /\ phase = "closed" /\ phase' = "reading" /\ w' = w
      /\ out' = out /\ yielded' = yielded /\ asked' = asked
  BY Zenon DEF Open, Reads
<1>3. PICK io : io = w.io /\ IsFiniteSet(DOMAIN io.groups)
  BY <1>2 DEF WriterInv, WriterHas, Ready, Filed
<1>4. PICK rd : rd = OpenReader(io, order)
  OBVIOUS
<1>5. order \in Seq(DOMAIN io.groups)
  BY <1>1, <1>3, OrdersAre
<1>6. /\ rd = [devices |-> rd.devices, index |-> rd.index, ok |-> rd.ok, schema |-> rd.schema]
      /\ rd.devices = order /\ rd.index = 1
  BY <1>4 DEF OpenReader
<1>7. out = NoBatch /\ yielded = <<>> /\ asked = NoDevice
  BY <1>2 DEF ReaderInv, ReaderHas
<1>8. Standing(rd) = 0
  <2>1. PICK n \in Nat : n = Len(order)
    BY <1>5
  <2> QED BY <1>6, <2>1 DEF Standing, Smaller
<1>9. Iterates(io, rd, <<>>)
  <2>1. PassedBy(io, order, 0) = <<>>
    BY <1>5, PassedNone
  <2>2. Len(order) \in Nat
    BY <1>5
  <2> QED BY <1>5, <1>6, <1>8, <2>1, <2>2 DEF Iterates
<1>10. Fetched(io, rd, NoBatch) /\ AnswersFor(io, NoBatch, NoDevice)
  BY DEF NoBatch, Fetched, AnswersFor
<1>11. ReaderHas(io, rd, NoBatch, <<>>, NoDevice, "reading")
  BY <1>9, <1>10 DEF ReaderHas
<1>12. ReaderHas(w'.io, reader', out', yielded', asked', phase')
  BY <1>1, <1>2, <1>3, <1>4, <1>7, <1>11
<1> QED BY <1>12 DEF ReaderInv

LEMMA NextBatchReads ==
    ASSUME ReaderInv, NextBatch
    PROVE  ReaderInv'
<1>1. PICK io : io = w.io
  OBVIOUS
<1>2. /\ phase = "reading" /\ phase' = phase /\ w' = w
      /\ reader' = Advanced(w.io, reader) /\ reader.index <= Len(reader.devices)
      /\ out' = ReadNextBatch(w.io, reader) /\ asked' = NoDevice
      /\ yielded' = IF out'.kind = "none" THEN yielded ELSE Append(yielded, out'.device)
  BY DEF NextBatch, Advance, Usable, Reading, Reads
<1>3. PICK rd : rd = reader
  OBVIOUS
<1>4. PICK x : x = Advanced(io, rd)
  OBVIOUS
<1>5. PICK answer : answer = ReadNextBatch(io, rd)
  OBVIOUS
<1>6. PICK done : done = IF answer.kind = "none" THEN yielded ELSE Append(yielded, answer.device)
  OBVIOUS
<1>7. Iterates(io, rd, yielded)
  BY <1>1, <1>2, <1>3 DEF ReaderInv, ReaderHas
<1>8. Iterates(io, x, done) /\ x.schema = rd.schema
  BY <1>2, <1>3, <1>4, <1>5, <1>6, <1>7, AdvancedOn
<1>9. Fetched(io, rd, answer)
  BY <1>5, <1>7, FetchedFor DEF Iterates
<1>10. Fetched(io, x, answer) /\ AnswersFor(io, answer, NoDevice)
  BY <1>8, <1>9 DEF Fetched, AnswersFor
<1>11. ReaderHas(io, x, answer, done, NoDevice, "reading")
  BY <1>8, <1>10 DEF ReaderHas
<1>12. ReaderHas(w'.io, reader', out', yielded', asked', phase')
  BY <1>1, <1>2, <1>3, <1>4, <1>5, <1>6, <1>11
<1> QED BY <1>12 DEF ReaderInv

LEMMA QueryReads ==
    ASSUME ReaderInv, NEW d, QueryDevice(d)
    PROVE  ReaderInv'
<1>1. PICK io : io = w.io
  OBVIOUS
<1>2. PICK read : read = ExecuteBatch(w.io, reader, d)
  OBVIOUS
<1>3. /\ phase = "reading" /\ phase' = phase /\ w' = w /\ yielded' = yielded
      /\ reader' = read.r /\ out' = read.batch /\ asked' = d /\ d \in ToSet(reader.devices)
  BY <1>2 DEF QueryDevice, Usable, Reading, Reads
<1>4. PICK rd : rd = reader
  OBVIOUS
<1>5. Iterates(io, rd, yielded)
  BY <1>1, <1>3, <1>4 DEF ReaderInv, ReaderHas
<1>6. read.r = rd /\ Fetched(io, rd, read.batch) /\ AnswersFor(io, read.batch, d)
  BY <1>1, <1>2, <1>3, <1>4, <1>5, QueriedFor
<1>7. ReaderHas(io, rd, read.batch, yielded, d, "reading")
  BY <1>5, <1>6 DEF ReaderHas
<1>8. ReaderHas(w'.io, reader', out', yielded', asked', phase')
  BY <1>1, <1>3, <1>4, <1>6, <1>7
<1> QED BY <1>8 DEF ReaderInv

LEMMA KeepsReader ==
    ASSUME ReaderInv, UNCHANGED writerVars, UNCHANGED readerVars
    PROVE  ReaderInv'
<1>1. w' = w /\ phase' = phase
  BY DEF writerVars
<1>2. reader' = reader /\ out' = out /\ yielded' = yielded /\ asked' = asked
  BY DEF readerVars
<1> QED BY <1>1, <1>2 DEF ReaderInv

LEMMA ReaderStep ==
    ASSUME WriterInv, ReaderInv, [Next]_vars
    PROVE  ReaderInv'
<1>1. ASSUME NEW t \in TIMES, NEW v \in UNION {VALUES[y] : y \in TYPES}, Observe(t, v)
      PROVE  ReaderInv'
  BY <1>1, KeepsReader, Zenon DEF Observe
<1>2. ASSUME NEW points, ObserveBatch(points) PROVE ReaderInv'
  BY <1>2, KeepsReader, Zenon DEF ObserveBatch
<1>3. CASE SealPage
  BY <1>3, KeepsReader, Zenon DEF SealPage
<1>4. ASSUME NEW row, AddOne(row) PROVE ReaderInv'
  BY <1>4, KeepsReader, Zenon DEF AddOne, TabletAnswered, Call
<1>5. ASSUME NEW bulk, AddMany(bulk) PROVE ReaderInv'
  BY <1>5, KeepsReader, Zenon DEF AddMany, TabletAnswered, Call
<1>6. CASE ClearTablet
  BY <1>6, KeepsReader, Zenon DEF ClearTablet, Call
<1>7. CASE WriteIt
  <2>1. phase = "writing" /\ UNCHANGED readerVars
    BY <1>7, Zenon DEF WriteIt, Call, Writing
  <2>2. PICK answer, given, hurt : WriterAnswered(answer, given, hurt)
    BY <1>7, Zenon DEF WriteIt
  <2>3. phase' = IF answer.out = "panic" THEN "panicked" ELSE "writing"
    BY <2>2, Zenon DEF WriterAnswered
  <2> QED BY <2>1, <2>3, StillWriting
<1>8. ASSUME NEW batch, Import(batch) PROVE ReaderInv'
  <2>1. phase = "writing" /\ UNCHANGED readerVars
    BY <1>8, Zenon DEF Import, Call, Writing
  <2>2. PICK answer, given, hurt : WriterAnswered(answer, given, hurt)
    BY <1>8, Zenon DEF Import
  <2>3. phase' = IF answer.out = "panic" THEN "panicked" ELSE "writing"
    BY <2>2, Zenon DEF WriterAnswered
  <2> QED BY <2>1, <2>3, StillWriting
<1>9. CASE Close
  <2>1. phase = "writing" /\ UNCHANGED readerVars
    BY <1>9, Zenon DEF Close, Writing
  <2>2. phase' = IF Flush(w).out = "ok" THEN "closed"
                 ELSE IF Flush(w).out = "panic" THEN "panicked" ELSE "gone"
    BY <1>9, Zenon DEF Close
  <2> QED BY <2>1, <2>2, StillWriting
<1>10. CASE UNCHANGED vars
  BY <1>10, KeepsReader, Zenon DEF vars
<1> QED BY <1>1, <1>2, <1>3, <1>4, <1>5, <1>6, <1>7, <1>8, <1>9, <1>10,
           OpenReads, NextBatchReads, QueryReads, Zenon DEF Next

(* An iteration is what its invariant says.                                    *)
LEMMA IterationHolds ==
    ASSUME ReaderInv
    PROVE  IterationIsUndisturbed
<1> SUFFICES ASSUME reader.ok,
                    NEW passed, passed = SubSeq(reader.devices, 1,
                                   Smaller(reader.index - 1, Len(reader.devices)))
    PROVE  /\ yielded = Picked(passed, {i \in DOMAIN passed : Readable(passed[i])})
           /\ asked # NoDevice /\ Readable(asked) =>
                 out.device = asked /\ out.kind \in {"batch", "err"}
  BY Zenon DEF IterationIsUndisturbed
<1>1. phase = "reading"
  <2>1. ~NoReader.ok
    BY DEF NoReader
  <2> QED BY <2>1 DEF ReaderInv, ReaderHas
<1>2. Iterates(w.io, reader, yielded) /\ AnswersFor(w.io, out, asked)
  BY <1>1 DEF ReaderInv, ReaderHas
<1>3. yielded = Picked(passed, {i \in DOMAIN passed : Decodable(w.io, passed[i]) # <<>>})
  BY <1>2, Zenon DEF Iterates, PassedBy, Standing
<1> QED BY <1>2, <1>3 DEF Readable, AnswersFor

-------------------------------------------------------------------------------
(* The first chunk of a series is one.                                         *)
LEMMA FirstIsOne ==
    ASSUME NEW io, NEW d, NEW m, NEW s, FirstIs(io, d, m, s), NEW t, FirstIs(io, d, m, t),
           Len(io.groups[d]) \in Nat
    PROVE  s = t
<1>1. PICK n \in Nat : n = Len(io.groups[d])
  OBVIOUS
<1>2. PICK i \in 1..n : /\ io.groups[d][i].name = m
                        /\ \A k \in 1..(i - 1) : io.groups[d][k].name # m
                        /\ ChunkContent(io.stream, io.groups[d][i]) = s
  BY <1>1 DEF FirstIs
<1>3. PICK j \in 1..n : /\ io.groups[d][j].name = m
                        /\ \A k \in 1..(j - 1) : io.groups[d][k].name # m
                        /\ ChunkContent(io.stream, io.groups[d][j]) = t
  BY <1>1 DEF FirstIs
<1>4. ~(i <= j - 1) /\ ~(j <= i - 1)
  <2>1. i <= j - 1 => i \in 1..(j - 1)
    BY <1>1
  <2>2. j <= i - 1 => j \in 1..(i - 1)
    BY <1>1
  <2> QED BY <1>2, <1>3, <2>1, <2>2
<1>5. i = j
  BY <1>1, <1>4
<1> QED BY <1>2, <1>3, <1>5

(* The first chunks of a device whose rows have no null have the points of the *)
(* same rows, as many as each other.                                           *)
NoNull(m, rows) == \A i \in 1..Len(rows) : m \in DOMAIN rows[i].cells /\ rows[i].cells[m] # <<>>

ReadsRows(io, d, m, rows, j) ==
    LET first == ReadFirst(io, d, m)
    IN  /\ Len(first) = j
        /\ \A i \in 1..j : first[i] = [t |-> rows[i].t, v |-> rows[i].cells[m][1]]

LEMMA FirstDense ==
    ASSUME Meant, NEW v, Ready(v), NEW d \in Devices, NEW rows \in Seq(FileRow),
           CarriesOf(v, d, rows), d \in DOMAIN v.io.groups, v.io.groups[d] # <<>>
    PROVE  \E j \in 1..Len(rows) : \A m \in Measurements :
              Of(v.io, d, m) # {} /\ NoNull(m, rows) => ReadsRows(v.io, d, m, rows, j)
<1>1. PICK io : io = v.io /\ Filed(io)
  BY DEF Ready
<1>2. PICK j \in 1..Len(rows) : \A m \in Measurements :
         LET s == PointsOf(m, SubSeq(rows, 1, j)) IN s # <<>> => FirstIs(io, d, m, s)
  BY <1>1 DEF CarriesOf, FirstGroup
<1>3. PICK n \in Nat : n = Len(rows) /\ j \in 1..n
  BY <1>2
<1>4. PICK part \in Seq(FileRow) :
         /\ part = SubSeq(rows, 1, j) /\ Len(part) = j
         /\ \A i \in 1..j : part[i] = rows[i] /\ i \in 1..n
  <2>1. /\ SubSeq(rows, 1, j) \in Seq(FileRow) /\ Len(SubSeq(rows, 1, j)) = j
        /\ \A i \in 1..j : SubSeq(rows, 1, j)[i] = rows[i]
    BY <1>3
  <2>2. \A i \in 1..j : i \in 1..n
    BY <1>3
  <2> QED BY <2>1, <2>2
<1>5. ASSUME NEW m \in Measurements, Of(io, d, m) # {}, NoNull(m, rows)
      PROVE  ReadsRows(io, d, m, rows, j)
  <2>1. \A i \in 1..Len(part) : m \in DOMAIN part[i].cells /\ part[i].cells[m] # <<>>
    BY <1>3, <1>4, <1>5 DEF NoNull
  <2>2. PICK s \in Seq(Points) : s = PointsOf(m, part)
    BY PointsOfTyped
  <2>3. Len(s) = j /\ \A i \in 1..j : s[i] = [t |-> part[i].t, v |-> part[i].cells[m][1]]
    <3>1. /\ Len(PointsOf(m, part)) = Len(part)
          /\ \A i \in 1..Len(part) :
                PointsOf(m, part)[i] = [t |-> part[i].t, v |-> part[i].cells[m][1]]
      BY <2>1, PointsDense
    <3> QED BY <1>4, <2>2, <3>1
  <2>4. s # <<>>
    BY <1>3, <2>3
  <2>5. FirstIs(io, d, m, s)
    BY <1>2, <1>4, <2>2, <2>4
  <2>6. FirstIs(io, d, m, ReadFirst(io, d, m))
    BY <1>1, <1>5, FirstOf
  <2>7. Len(io.groups[d]) \in Nat
    <3>1. io.groups[d] \in Seq(Meta)
      BY <1>1 DEF Filed, IOFine
    <3> QED BY <3>1
  <2>8. ReadFirst(io, d, m) = s
    BY <2>5, <2>6, <2>7, FirstIsOne
  <2> QED BY <1>4, <2>3, <2>8 DEF ReadsRows
<1> QED BY <1>1, <1>2, <1>3, <1>5

LEMMA MeasurementsAre ==
    ASSUME NEW io, Filed(io), NEW d \in DOMAIN io.groups
    PROVE  /\ MeasurementsOf(io, d) \in Seq(Measurements)
           /\ Len(MeasurementsOf(io, d)) = Len(io.groups[d])
           /\ \A i \in 1..Len(io.groups[d]) : MeasurementsOf(io, d)[i] = io.groups[d][i].name
<1>1. io.groups[d] \in Seq(Meta)
  BY DEF Filed, IOFine
<1>2. PICK n \in Nat : n = Len(io.groups[d]) /\ io.groups[d] \in [1..n -> Meta]
  BY <1>1
<1>3. PICK names : names = MeasurementsOf(io, d)
  OBVIOUS
<1>4. names = [i \in 1..n |-> io.groups[d][i].name]
  BY <1>2, <1>3 DEF MeasurementsOf
<1>5. \A i \in 1..n : io.groups[d][i].name \in Measurements
  BY <1>2 DEF Meta
<1>6. names \in [1..n -> Measurements]
  BY <1>4, <1>5
<1>7. names \in Seq(Measurements) /\ Len(names) = n
  BY <1>6, FunctionsAreSequences
<1> QED BY <1>2, <1>3, <1>4, <1>7

(* A device of which every series can be read has an array for each chunk.     *)
LEMMA ArraysAre ==
    ASSUME NEW io, Filed(io), NEW d \in DOMAIN io.groups,
           NEW names, names = MeasurementsOf(io, d),
           \A i \in 1..Len(names) : ChunkReads(io, d, names[i])
    PROVE  /\ Decodable(io, d) = names
           /\ ArraysOf(io, d) = [i \in 1..Len(names) |->
                 [type |-> TimbreToArrow[TypeOf[names[i]]], points |-> ReadFirst(io, d, names[i])]]
<1>1. PICK s \in Seq(Measurements) : s = names
  BY MeasurementsAre
<1>2. PICK n \in Nat : n = Len(s) /\ DOMAIN s = 1..n
  OBVIOUS
<1> DEFINE places == {i \in DOMAIN s : ChunkReads(io, d, s[i])}
<1>3. 1..Len(s) \subseteq places
  BY <1>1, <1>2
<1>4. Decodable(io, d) = Picked(s, places)
  BY <1>1 DEF Decodable
<1> HIDE DEF places
<1>5. Picked(s, places) = s
  BY <1>3, PickedAll
<1>6. Decodable(io, d) = s
  BY <1>4, <1>5
<1>7. ArraysOf(io, d) = [i \in DOMAIN s |->
         [type |-> TimbreToArrow[TypeOf[s[i]]], points |-> ReadFirst(io, d, s[i])]]
  BY <1>6 DEF ArraysOf
<1> QED BY <1>1, <1>2, <1>6, <1>7

DenseIn(names, rows) ==
    \A i \in DOMAIN rows : LET r == rows[i] IN
        \A m \in ToSet(names) : m \in DOMAIN r.cells /\ r.cells[m] # <<>>

FieldsOf(names) ==
    [c \in DOMAIN names |-> [name |-> names[c], type |-> TimbreToArrow[TypeOf[names[c]]]]]

RowAs(names, r) == [t |-> r.t, cells |-> [c \in DOMAIN names |-> r.cells[names[c]][1]]]

LEMMA DenseExported ==
    ASSUME Meant, NEW v, Ready(v), NEW io, io = v.io, NEW d \in Devices, d \in DOMAIN io.groups,
           NEW rows \in Seq(FileRow), CarriesOf(v, d, rows), Decodable(io, d) # <<>>,
           NEW names, names = MeasurementsOf(io, d), DenseIn(names, rows),
           \A i \in DOMAIN names : /\ TypeOf[names[i]] \notin Unreadable
                                  /\ BlockReads(names[i], Len(rows)),
           NEW batch, batch = BatchOf(FieldsOf(names), d, ArraysOf(io, d))
    PROVE  /\ batch.kind = "batch" /\ Len(batch.rows) <= Len(rows)
           /\ \A i \in DOMAIN batch.rows : batch.rows[i] = RowAs(names, rows[i])
<1>1. Filed(io)
  BY DEF Ready
<1>8. PICK n \in Nat : /\ n = Len(names) /\ DOMAIN names = 1..n /\ n = Len(io.groups[d])
                       /\ \A i \in 1..n : names[i] = io.groups[d][i].name /\ names[i] \in Measurements
  <2>1. /\ names \in Seq(Measurements) /\ Len(names) = Len(io.groups[d])
        /\ \A i \in 1..Len(io.groups[d]) : names[i] = io.groups[d][i].name
    BY <1>1, MeasurementsAre
  <2> QED BY <2>1
<1>9. PICK arrays : arrays = ArraysOf(io, d)
  OBVIOUS
<1>11. n > 0 /\ io.groups[d] # <<>>
  <2>1. names # <<>>
    <3> SUFFICES ASSUME names = <<>> PROVE FALSE
      OBVIOUS
    <3>1. <<>> \in Seq(Measurements) /\ 1..Len(<<>>) = {}
      OBVIOUS
    <3>2. \A places : Picked(<<>>, places) = <<>>
      BY <3>1, PickedAll
    <3> QED BY <3>2 DEF Decodable
  <2>2. io.groups[d] \in Seq(Meta) /\ names \in Seq(Measurements)
    BY <1>1, MeasurementsAre DEF Filed, IOFine
  <2> QED BY <1>8, <2>1, <2>2
<1>12. PICK j \in 1..Len(rows) : \A m \in Measurements :
          Of(io, d, m) # {} /\ NoNull(m, rows) => ReadsRows(io, d, m, rows, j)
  BY <1>11, FirstDense
<1>23. ASSUME NEW i \in 1..n
       PROVE  /\ Of(io, d, names[i]) # {} /\ NoNull(names[i], rows)
              /\ ChunkReads(io, d, names[i])
  <2>1. PICK m \in Measurements : m = names[i]
    BY <1>8
  <2>2. Of(io, d, m) # {}
    BY <1>8, <2>1 DEF Of
  <2>3. m \in ToSet(names)
    BY <1>8, <2>1 DEF ToSet
  <2>4. NoNull(m, rows)
    BY <2>3 DEF DenseIn, NoNull
  <2>5. Len(ReadFirst(io, d, m)) = j
    BY <1>12, <2>2, <2>4 DEF ReadsRows
  <2>6. Len(rows) \in Nat /\ j <= Len(rows)
    OBVIOUS
  <2>7. TypeOf[m] \notin Unreadable /\ BlockReads(m, Len(rows))
    BY <1>8, <2>1
  <2>8. ChunkReads(io, d, m)
    BY <1>1, <2>2, <2>5, <2>6, <2>7, ShortReads
  <2> QED BY <2>1, <2>2, <2>4, <2>8
<1>10. /\ Decodable(io, d) = names
       /\ arrays = [i \in 1..n |->
             [type |-> TimbreToArrow[TypeOf[names[i]]], points |-> ReadFirst(io, d, names[i])]]
  <2>1. \A i \in 1..Len(names) : ChunkReads(io, d, names[i])
    BY <1>8, <1>23
  <2>2. /\ Decodable(io, d) = names
        /\ ArraysOf(io, d) = [i \in 1..Len(names) |->
             [type |-> TimbreToArrow[TypeOf[names[i]]], points |-> ReadFirst(io, d, names[i])]]
    BY <1>1, <2>1, ArraysAre
  <2> QED BY <1>8, <1>9, <2>2
<1>13. ASSUME NEW c \in 1..n
       PROVE  /\ arrays[c].type = TimbreToArrow[TypeOf[names[c]]]
              /\ Len(arrays[c].points) = j
              /\ \A i \in 1..j : arrays[c].points[i] =
                    [t |-> rows[i].t, v |-> rows[i].cells[names[c]][1]]
  <2>1. PICK m \in Measurements : m = names[c]
    BY <1>8
  <2>2. Of(io, d, m) # {} /\ NoNull(m, rows)
    BY <1>23, <2>1
  <2>5. arrays[c].points = ReadFirst(io, d, m) /\ arrays[c].type = TimbreToArrow[TypeOf[names[c]]]
    BY <1>10, <2>1
  <2>6. /\ Len(ReadFirst(io, d, m)) = j
        /\ \A i \in 1..j : ReadFirst(io, d, m)[i] = [t |-> rows[i].t, v |-> rows[i].cells[m][1]]
    BY <1>12, <2>2 DEF ReadsRows
  <2> QED BY <2>1, <2>5, <2>6
<1>14. PICK schema : schema = FieldsOf(names)
  OBVIOUS
<1>15. BatchFits(schema, arrays)
  <2>1. Len(schema) = n /\ \A i \in 1..n : schema[i].type = TimbreToArrow[TypeOf[names[i]]]
    <3>1. schema = [c \in 1..n |-> [name |-> names[c], type |-> TimbreToArrow[TypeOf[names[c]]]]]
      BY <1>8, <1>14 DEF FieldsOf
    <3> QED BY <3>1
  <2>2. Len(arrays) = n /\ DOMAIN arrays = 1..n /\ 1 \in 1..n
    BY <1>10, <1>11
  <2> QED BY <1>13, <2>1, <2>2 DEF BatchFits
<1>16. 1 \in 1..n /\ DOMAIN arrays = 1..n
  BY <1>10, <1>11
<1>17. /\ batch.kind = "batch"
       /\ batch.rows = [i \in DOMAIN arrays[1].points |->
                         [t |-> arrays[1].points[i].t,
                          cells |-> [c \in DOMAIN arrays |-> arrays[c].points[i].v]]]
  BY <1>9, <1>14, <1>15 DEF BatchOf
<1>18. DOMAIN arrays[1].points = 1..j
  <2>1. names[1] \in Measurements /\ Of(io, d, names[1]) # {}
    BY <1>8, <1>16 DEF Of
  <2>2. ReadFirst(io, d, names[1]) \in Seq(Points)
    BY <1>1, <2>1, FirstOf
  <2>3. PICK s \in Seq(Points) : s = arrays[1].points
    BY <1>10, <1>16, <2>2
  <2>4. Len(s) = j
    BY <1>13, <1>16, <2>3
  <2> QED BY <2>3, <2>4
<1>19. ASSUME NEW i \in 1..j
       PROVE  batch.rows[i] = [t |-> rows[i].t, cells |-> [c \in 1..n |-> rows[i].cells[names[c]][1]]]
  <2>1. batch.rows[i] = [t |-> arrays[1].points[i].t,
                       cells |-> [c \in 1..n |-> arrays[c].points[i].v]]
    BY <1>16, <1>17, <1>18
  <2>4. \A c \in 1..n : arrays[c].points[i] = [t |-> rows[i].t, v |-> rows[i].cells[names[c]][1]]
    BY <1>13
  <2>2. arrays[1].points[i].t = rows[i].t
    <3>1. PICK x : x = arrays[1].points[i]
      OBVIOUS
    <3>2. x = [t |-> rows[i].t, v |-> rows[i].cells[names[1]][1]]
      BY <1>16, <2>4, <3>1
    <3> QED BY <3>1, <3>2
  <2>3. \A c \in 1..n : arrays[c].points[i].v = rows[i].cells[names[c]][1]
    <3> SUFFICES ASSUME NEW c \in 1..n PROVE arrays[c].points[i].v = rows[i].cells[names[c]][1]
      OBVIOUS
    <3>1. PICK x : x = arrays[c].points[i]
      OBVIOUS
    <3>2. x = [t |-> rows[i].t, v |-> rows[i].cells[names[c]][1]]
      BY <2>4, <3>1
    <3> QED BY <3>1, <3>2
  <2> QED BY <2>1, <2>2, <2>3
<1>20. DOMAIN batch.rows = 1..j /\ Len(batch.rows) = j
  BY <1>17, <1>18, <1>12
<1>21. j <= Len(rows)
  BY <1>12
<1>22. ASSUME NEW i \in 1..j PROVE batch.rows[i] = RowAs(names, rows[i])
  BY <1>8, <1>19 DEF RowAs
<1> QED BY <1>17, <1>20, <1>21, <1>22

LEMMA RowsHold ==
    ASSUME Meant, WriterInv, ReaderInv
    PROVE  RowsExported
<1> DEFINE device == out.device
           columns == MeasurementsOf(w.io, device)
<1> SUFFICES
      ASSUME ColumnsAgree, out.kind # "none", device \notin damaged \cup {NoDevice},
             DenseIn(columns, accepted[device]),
             \A i \in DOMAIN columns : /\ TypeOf[columns[i]] \notin Unreadable
                                      /\ BlockReads(columns[i], Len(accepted[device])),
             reader.schema = FieldsOf(columns)
      PROVE  /\ out.kind = "batch"
             /\ Len(out.rows) <= Len(accepted[device])
             /\ \A i \in DOMAIN out.rows : out.rows[i] = RowAs(columns, accepted[device][i])
  BY Zenon DEF RowsExported, DenseIn, FieldsOf, RowAs
<1>1. PICK v, io, d, names, batch :
         /\ v = w /\ io = w.io /\ d = device /\ names = columns /\ batch = out
  OBVIOUS
<1>2. phase = "reading"
  <2>1. NoBatch.kind = "none"
    BY DEF NoBatch
  <2> QED BY <2>1 DEF ReaderInv, ReaderHas
<1>3. /\ d \in DOMAIN io.groups /\ Decodable(io, d) # <<>>
      /\ batch = BatchOf(FieldsOf(names), d, ArraysOf(io, d))
  BY <1>1 DEF ReaderInv, ReaderHas, Fetched
<1>4. Ready(v) /\ Carries(v, accepted, damaged) /\ Bookkeeping(accepted)
      /\ DOMAIN io.groups \subseteq Devices
  BY <1>1, <1>2 DEF WriterInv, WriterHas
<1>5. d \in Devices
  BY <1>3, <1>4
<1>6. PICK rows \in Seq(FileRow) : rows = accepted[d]
  BY <1>4, <1>5 DEF Bookkeeping
<1>7. CarriesOf(v, d, rows)
  BY <1>1, <1>4, <1>5, <1>6 DEF Carries
<1>8. /\ io = v.io /\ names = MeasurementsOf(io, d) /\ DenseIn(names, rows)
      /\ \A i \in DOMAIN names : /\ TypeOf[names[i]] \notin Unreadable
                                 /\ BlockReads(names[i], Len(rows))
  BY <1>1, <1>6
<1> HIDE DEF device, columns
<1>9. /\ batch.kind = "batch" /\ Len(batch.rows) <= Len(rows)
      /\ \A i \in DOMAIN batch.rows : batch.rows[i] = RowAs(names, rows[i])
  BY <1>3, <1>4, <1>5, <1>7, <1>8, DenseExported
<1> QED BY <1>1, <1>6, <1>9

-------------------------------------------------------------------------------
(* The bounds of a behaviour, and the kind of it.                              *)
Point == [t : TIMES, value : UNION {VALUES[y] : y \in TYPES \cup {"Boolean"}}]

CountInv ==
    /\ subject \in {"statistic", "file"} /\ type \in TYPES \cup {"Boolean"}
    /\ seen \in Seq(Point) /\ Len(seen) <= MaxPoints /\ calls \in 0..MaxCalls

LEMMA CountFirst ==
    ASSUME Init
    PROVE  CountInv
<1>1. /\ subject \in {"statistic", "file"} /\ seen = <<>> /\ calls = 0
      /\ type \in IF subject = "statistic" THEN TYPES ELSE {"Boolean"}
  BY DEF Init
<1>2. Len(<<>>) = 0 /\ <<>> \in Seq(Point)
  OBVIOUS
<1>3. MaxPoints \in Nat /\ MaxCalls \in Nat
  BY ColumnAssumption, FileAssumption, Zenon
<1>4. seen \in Seq(Point) /\ Len(seen) <= MaxPoints /\ calls \in 0..MaxCalls
  BY <1>1, <1>2, <1>3
<1>5. type \in TYPES \cup {"Boolean"}
  BY <1>1, Zenon
<1> QED BY <1>1, <1>4, <1>5 DEF CountInv

LEMMA SeenGrows ==
    ASSUME CountInv, NEW points \in Seq(Point), Len(seen) + Len(points) <= MaxPoints
    PROVE  seen \o points \in Seq(Point) /\ Len(seen \o points) <= MaxPoints
<1>1. PICK s \in Seq(Point) : s = seen
  BY DEF CountInv
<1>2. s \o points \in Seq(Point) /\ Len(s \o points) = Len(s) + Len(points)
  OBVIOUS
<1> QED BY <1>1, <1>2

LEMMA CallCounts ==
    ASSUME CountInv, Call, Counted
    PROVE  CountInv'
<1>1. calls < MaxCalls /\ subject' = subject /\ type' = type /\ seen' = seen
  BY Zenon DEF Call, statVars
<1>2. calls' = calls \/ calls' = calls + 1
  BY DEF Counted
<1>3. calls' \in 0..MaxCalls
  <2>1. calls \in 0..MaxCalls /\ MaxCalls \in Nat
    BY FileAssumption, Zenon DEF CountInv
  <2> QED BY <1>1, <1>2, <2>1
<1> QED BY <1>1, <1>3 DEF CountInv

LEMMA CountStays ==
    ASSUME CountInv, UNCHANGED <<subject, type, seen, calls>>
    PROVE  CountInv'
BY DEF CountInv

LEMMA CountStep ==
    ASSUME CountInv, [Next]_vars
    PROVE  CountInv'
<1>1. ASSUME NEW t \in TIMES, NEW v \in UNION {VALUES[y] : y \in TYPES}, Observe(t, v)
      PROVE  CountInv'
  <2>1. /\ Len(seen) < MaxPoints /\ subject' = subject /\ type' = type /\ calls' = calls
        /\ seen' = IF v.type = type THEN Append(seen, [t |-> t, value |-> v]) ELSE seen
    BY <1>1, Zenon DEF Observe
  <2>2. [t |-> t, value |-> v] \in Point
    BY DEF Point
  <2>3. PICK x \in Point : x = [t |-> t, value |-> v]
    BY <2>2
  <2>4. PICK s \in Seq(Point) : s = seen
    BY DEF CountInv
  <2>5. Append(s, x) \in Seq(Point) /\ Len(Append(s, x)) = Len(s) + 1
    OBVIOUS
  <2>6. MaxPoints \in Nat
    BY ColumnAssumption, Zenon
  <2>7. seen' \in Seq(Point) /\ Len(seen') <= MaxPoints
    BY <2>1, <2>3, <2>4, <2>5, <2>6 DEF CountInv
  <2> QED BY <2>1, <2>7 DEF CountInv
<1>2. ASSUME NEW n \in 1..(MaxPoints - Len(seen)),
             NEW points \in [1..n -> [t : TIMES, value : VALUES[type]]], ObserveBatch(points)
      PROVE  CountInv'
  <2>1. /\ subject' = subject /\ type' = type /\ calls' = calls
        /\ Len(seen) + Len(points) <= MaxPoints /\ seen' = seen \o points
    BY <1>2, Zenon DEF ObserveBatch
  <2>2. \A x \in [t : TIMES, value : VALUES[type]] : x \in Point
    <3>1. VALUES[type] \subseteq UNION {VALUES[y] : y \in TYPES \cup {"Boolean"}}
      BY Zenon DEF CountInv
    <3> QED BY <3>1 DEF Point
  <2>3. points \in Seq(Point)
    <3>1. n \in Nat
      OBVIOUS
    <3>2. points \in [1..n -> Point]
      BY <2>2
    <3> QED BY <3>1, <3>2, FunctionsAreSequences
  <2>4. seen' \in Seq(Point) /\ Len(seen') <= MaxPoints
    BY <2>1, <2>3, SeenGrows
  <2> QED BY <2>1, <2>4 DEF CountInv
<1>3. CASE SealPage
  BY <1>3, CountStays, Zenon DEF SealPage
<1>4. ASSUME NEW row, AddOne(row) PROVE CountInv'
  BY <1>4, CallCounts, Zenon DEF AddOne
<1>5. ASSUME NEW bulk, AddMany(bulk) PROVE CountInv'
  BY <1>5, CallCounts, Zenon DEF AddMany
<1>6. CASE ClearTablet
  BY <1>6, CallCounts, Zenon DEF ClearTablet
<1>7. CASE WriteIt
  BY <1>7, CallCounts, Zenon DEF WriteIt
<1>8. ASSUME NEW batch, Import(batch) PROVE CountInv'
  BY <1>8, CallCounts, Zenon DEF Import
<1>9. CASE Close
  BY <1>9, CountStays, Zenon DEF Close, statVars
<1>10. CASE Open
  BY <1>10, CountStays, Zenon DEF Open, Reads, statVars
<1>11. CASE NextBatch
  BY <1>11, CountStays, Zenon DEF NextBatch, Reads, statVars
<1>12. ASSUME NEW d, QueryDevice(d) PROVE CountInv'
  BY <1>12, CountStays, Zenon DEF QueryDevice, Reads, statVars
<1>13. CASE UNCHANGED vars
  BY <1>13, CountStays, Zenon DEF vars, statVars
<1> QED BY <1>1, <1>2, <1>3, <1>4, <1>5, <1>6, <1>7, <1>8, <1>9, <1>10, <1>11, <1>12, <1>13,
           Zenon DEF Next

LEMMA TypeHolds ==
    ASSUME CountInv, TabletInv, WriterInv, ReaderInv
    PROVE  TypeOK
<1>1. /\ subject \in {"statistic", "file"} /\ type \in TYPES \cup {"Boolean"}
      /\ Len(seen) <= MaxPoints /\ calls \in 0..MaxCalls
  BY DEF CountInv
<1>2. Formed(tab) /\ Bounded(tab)
  BY DEF TabletInv, HasRows
<1>3. DOMAIN tab.values = DOMAIN tab.columns /\ DOMAIN tab.bitmaps = DOMAIN tab.columns
  BY <1>2 DEF Formed
<1>4. /\ RowCount(tab) <= tab.max_rows
      /\ \A c \in DOMAIN tab.columns : tab.bitmaps[c].nulls \subseteq 1..RowCount(tab)
  BY <1>2 DEF Bounded, RowCount
<1>5. /\ w.cur \in Devices \cup {NoDevice} /\ DOMAIN w.io.groups \subseteq Devices
      /\ phase \in {"writing", "closed", "reading", "gone", "panicked"}
      /\ damaged \subseteq Devices
  BY DEF WriterInv, WriterHas, Phases
<1>6. /\ reader # NoReader => phase = "reading"
      /\ out.kind \in {"none", "err", "batch"}
  BY DEF ReaderInv, ReaderHas, Fetched
<1>7. reader # NoReader => phase = "reading" /\ w.cur = NoDevice
  <2>1. phase = "reading" => w.cur = NoDevice
    BY DEF WriterInv, WriterHas
  <2> QED BY <1>6, <2>1
<1> QED BY <1>1, <1>3, <1>4, <1>5, <1>6, <1>7, Zenon DEF TypeOK, Phases

(* The inductive invariant: bounds, the tablet, the writer, the reader.        *)
PipelineInv == CountInv /\ TabletInv /\ TabletFits /\ WriterInv /\ ReaderInv

(* PipelineInv: points and calls stay within their bounds, the tablet has the  *)
(* rows it took, writer and file together have the points of the rows that     *)
(* were accepted, and the reader's place and answer are those of the file.     *)
(* Meant is of no effect on a behaviour: it names, by two constants that Spec  *)
(* does not mention, the points and names the writers' lemmas are applied to.  *)
THEOREM SpecPipelineInv ==
    ASSUME Meant
    PROVE  Spec => []PipelineInv
<1>1. Init => PipelineInv
  BY CountFirst, TabletFirst, FitsFirst, WriterFirst, ReaderFirst DEF PipelineInv
<1>2. PipelineInv /\ [Next]_vars => PipelineInv'
  BY CountStep, TabletStep, FitsStep, WriterStep, ReaderStep DEF PipelineInv
<1> QED BY <1>1, <1>2, PTL DEF Spec

(* TypeOK: the tablet has a vector and a bitmap for each column, the writer    *)
(* keeps to the devices of the calls, nothing is read of an open file.         *)
THEOREM SpecPipelineTypeOK ==
    ASSUME Meant
    PROVE  Spec => []TypeOK
<1>1. PipelineInv => TypeOK
  BY TypeHolds DEF PipelineInv
<1>2. Spec => []PipelineInv
  BY SpecPipelineInv
<1> QED BY <1>1, <1>2, PTL

(* StoredAsGiven: a closed file has the cells of the accepted rows in order,   *)
(* for every device that no call failed for, and a query gets the first chunk. *)
THEOREM SpecStoredAsGiven ==
    ASSUME Meant
    PROVE  Spec => []StoredAsGiven
<1>1. PipelineInv => StoredAsGiven
  BY StoredHolds DEF PipelineInv
<1>2. Spec => []PipelineInv
  BY SpecPipelineInv
<1> QED BY <1>1, <1>2, PTL

(* RowsExported: the batch of a device whose rows have no null and whose       *)
(* columns are the schema's is made, and is of the rows first accepted.        *)
THEOREM SpecRowsExported ==
    ASSUME Meant
    PROVE  Spec => []RowsExported
<1>1. PipelineInv => RowsExported
  BY RowsHold DEF PipelineInv
<1>2. Spec => []PipelineInv
  BY SpecPipelineInv
<1> QED BY <1>1, <1>2, PTL

(* IterationIsUndisturbed: an iteration has met every device it passed that    *)
(* something can be read of, once and in order, whatever queries there were.   *)
THEOREM SpecIterationIsUndisturbed ==
    ASSUME Meant
    PROVE  Spec => []IterationIsUndisturbed
<1>1. PipelineInv => IterationIsUndisturbed
  BY IterationHolds DEF PipelineInv
<1>2. Spec => []PipelineInv
  BY SpecPipelineInv
<1> QED BY <1>1, <1>2, PTL
===============================================================================
