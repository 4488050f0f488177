--------------------------- MODULE StateFileProofs ---------------------------
(***************************************************************************)
(* Whatever the names, the size of a chunk and the records of the log, and *)
(* wherever a crash cuts in: the file is only appended to, what is looked  *)
(* up through the layers is the last record about it, and the last block   *)
(* on file is found.                                                       *)
(***************************************************************************)
EXTENDS StateFile, SequenceTheorems, FiniteSetTheorems,
        WellFoundedInduction, TLAPS

Cell == [id : {"define_name", "transfer_log", "end_block"},
         edits : SUBSET Key, previous : Nat]

IndexOK(f) ==
    /\ f \in [DOMAIN f -> Nat]
    /\ DOMAIN f \subseteq Key /\ IsFiniteSet(DOMAIN f)

(* f gives the last record about each key that s is about; the records     *)
(* are numbered from b.                                                    *)
Covers(s, f, b) ==
    /\ DOMAIN f = {k \in Key : \E i \in DOMAIN s : k \in s[i].edits}
    /\ \A k \in DOMAIN f : \E i \in DOMAIN s :
         /\ f[k] = b + i /\ k \in s[i].edits
         /\ \A j \in DOMAIN s : k \in s[j].edits => j <= i

(* A record ends with its own position.                                    *)
Numbered(s, b) == \A i \in DOMAIN s : s[i].previous = b + i

(* A layer on b records.                                                   *)
LayerInv(l, b) ==
    /\ l = [log |-> l.log, last |-> l.last]
    /\ l.log \in Seq(Cell) /\ IndexOK(l.last)
    /\ Covers(l.log, l.last, b) /\ Numbered(l.log, b)

Syncing == {"sync_transfers", "sync_names"}
Committing == Syncing \cup {"write", "committed"}

(* The file cache; once it is in the file it is still in memory.           *)
Pending == IF step \in Syncing THEN EmptyLayer ELSE state
Cached == Len(file) + Len(Pending.log)
Base == IF over = "head" THEN Cached + Len(head.log) ELSE Cached

LayersInv ==
    /\ file \in Seq(Cell) /\ IndexOK(db) /\ IndexOK(disk)
    /\ Numbered(file, 0)
    /\ ~harmed => Covers(file, db, 0)
    /\ LayerInv(state, IF step \in Syncing THEN Len(file) - Len(state.log)
                       ELSE Len(file))
    /\ LayerInv(head, Cached) /\ LayerInv(trx, Base)
    /\ Cached + Len(head.log) <= MaxLog /\ Base + Len(trx.log) <= MaxLog

(* Where the main thread is, and the position of the file.                 *)
StepInv ==
    /\ pos \in 0 .. Len(file)
    /\ at \in Nat /\ got \in Nat
    /\ over \in {"head", "state"} /\ harmed \in BOOLEAN
    /\ step \in {"idle", "apply", "hash", "dead"} \cup Committing
    /\ step \in {"idle", "apply", "hash", "committed"} => state = EmptyLayer
    /\ step = "idle" => trx = EmptyLayer
    /\ step = "hash" /\ got < Chunk => pos = Len(file)
    /\ step \in {"hash", "dead"} => Base + Len(trx.log) < MaxLog
    /\ step \in Committing => over = "head" /\ pos = Len(file)
    /\ again => step \in Committing /\ trx = EmptyLayer

(* The index databases are on disk but while they are synchronised.        *)
DiskInv ==
    /\ DOMAIN disk \subseteq DOMAIN db
    /\ step \notin Syncing => disk = db
    /\ step = "sync_names" =>
         \A k \in DOMAIN db \cap Account : k \in DOMAIN disk /\ disk[k] = db[k]

FileInv == LayersInv /\ StepInv /\ DiskInv

-----------------------------------------------------------------------------
(* The smaller of two numbers, and the largest of a set.                   *)
LEMMA MinOfTwo ==
    ASSUME NEW a \in Int, NEW b \in Int
    PROVE  Min({a, b}) = IF a <= b THEN a ELSE b
BY DEF Min

(* The largest of a set of positions is the one no other exceeds.          *)
LEMMA MaxIs ==
    ASSUME NEW S \in SUBSET Int, NEW m \in S, \A x \in S : x <= m
    PROVE  Max(S) = m
<1>1. \A x \in S : m >= x
    OBVIOUS
<1>2. \A n \in S : (\A x \in S : n >= x) => n = m
    OBVIOUS
<1>3. Max(S) \in S /\ \A x \in S : Max(S) >= x
    BY <1>1 DEF Max
<1>. QED
    BY <1>2, <1>3

(* An index over another one has the keys of both.                         *)
LEMMA Overlay ==
    ASSUME NEW f, NEW g
    PROVE  /\ DOMAIN Above(f, g) = DOMAIN f \cup DOMAIN g
           /\ \A k \in DOMAIN f : Above(f, g)[k] = f[k]
           /\ \A k \in DOMAIN g \ DOMAIN f : Above(f, g)[k] = g[k]
BY DEF Above

(* An index over an index is an index: the file cache's entries hide those *)
(* of the file below it.                                                   *)
LEMMA OverlayOK ==
    ASSUME NEW f, NEW g, IndexOK(f), IndexOK(g)
    PROVE  IndexOK(Above(f, g))
<1>2. DOMAIN Above(f, g) = DOMAIN f \cup DOMAIN g
    BY DEF Above
<1>3. IsFiniteSet(DOMAIN f \cup DOMAIN g)
    BY FS_Union DEF IndexOK
<1>4. Above(f, g) \in [DOMAIN Above(f, g) -> Nat]
    BY <1>2 DEF IndexOK, Above
<1>. QED
    BY <1>2, <1>3, <1>4 DEF IndexOK

(* The index of nothing.                                                   *)
LEMMA EmptyOK ==
    /\ IndexOK(NoIndex)
    /\ \A b : LayerInv(EmptyLayer, b) /\ Len(EmptyLayer.log) = 0
    /\ \A b : Covers(<< >>, NoIndex, b) /\ Numbered(<< >>, b)
<1>1. IndexOK(NoIndex)
    BY FS_EmptySet DEF IndexOK, NoIndex
<1>2. \A b : Covers(<< >>, NoIndex, b) /\ Numbered(<< >>, b)
    BY DEF Covers, Numbered, NoIndex
<1>. QED
    BY <1>1, <1>2 DEF LayerInv, EmptyLayer

(* Records that follow others: the index of the later ones counts.         *)
LEMMA CoversConcat ==
    ASSUME NEW s \in Seq(Cell), NEW f, NEW b \in Int, Covers(s, f, b),
           NEW t \in Seq(Cell), NEW g, Covers(t, g, b + Len(s))
    PROVE  Covers(s \o t, Above(g, f), b)
<1>. DEFINE u == s \o t
            h == Above(g, f)
<1>1. /\ u \in Seq(Cell) /\ Len(u) = Len(s) + Len(t)
      /\ DOMAIN u = 1 .. Len(s) + Len(t)
      /\ DOMAIN s = 1 .. Len(s) /\ DOMAIN t = 1 .. Len(t)
      /\ Len(s) \in Nat /\ Len(t) \in Nat
      /\ \A i \in DOMAIN s : i \in DOMAIN u /\ u[i] = s[i]
      /\ \A i \in DOMAIN t : i + Len(s) \in DOMAIN u /\ u[i + Len(s)] = t[i]
    OBVIOUS
<1>2. \A i \in DOMAIN u : \/ i \in DOMAIN s
                           \/ /\ i - Len(s) \in DOMAIN t
                              /\ u[i] = t[i - Len(s)] /\ i > Len(s)
    BY <1>1
<1>3. /\ DOMAIN h = DOMAIN g \cup DOMAIN f
      /\ \A k \in DOMAIN g : h[k] = g[k]
      /\ \A k \in DOMAIN f \ DOMAIN g : h[k] = f[k]
    BY Overlay
<1>4. DOMAIN h = {k \in Key : \E i \in DOMAIN u : k \in u[i].edits}
  <2>1. ASSUME NEW k \in DOMAIN h
        PROVE  k \in Key /\ \E i \in DOMAIN u : k \in u[i].edits
    <3>1. CASE k \in DOMAIN g
      <4>1. PICK i \in DOMAIN t : k \in t[i].edits
          BY <3>1 DEF Covers
      <4>. QED
          BY <1>1, <3>1, <4>1 DEF Covers
    <3>2. CASE k \in DOMAIN f
      <4>1. PICK i \in DOMAIN s : k \in s[i].edits
          BY <3>2 DEF Covers
      <4>. QED
          BY <1>1, <3>2, <4>1 DEF Covers
    <3>. QED
        BY <1>3, <3>1, <3>2
  <2>2. ASSUME NEW k \in Key, NEW i \in DOMAIN u, k \in u[i].edits
        PROVE  k \in DOMAIN h
    <3>1. CASE i \in DOMAIN s
        BY <1>1, <1>3, <2>2, <3>1 DEF Covers
    <3>2. CASE i - Len(s) \in DOMAIN t /\ u[i] = t[i - Len(s)]
        BY <1>3, <2>2, <3>2 DEF Covers
    <3>. QED
        BY <1>2, <3>1, <3>2
  <2>. QED
      BY <2>1, <2>2
<1>5. ASSUME NEW k \in DOMAIN h
      PROVE  \E i \in DOMAIN u :
               /\ h[k] = b + i /\ k \in u[i].edits
               /\ \A j \in DOMAIN u : k \in u[j].edits => j <= i
  <2>1. CASE k \in DOMAIN g
    <3>1. PICK i \in DOMAIN t : /\ g[k] = (b + Len(s)) + i /\ k \in t[i].edits
                                /\ \A j \in DOMAIN t : k \in t[j].edits => j <= i
        BY <2>1 DEF Covers
    <3>2. i + Len(s) \in DOMAIN u /\ k \in u[i + Len(s)].edits
        BY <1>1, <3>1
    <3>3. h[k] = b + (i + Len(s))
        BY <1>1, <1>3, <2>1, <3>1
    <3>4. ASSUME NEW j \in DOMAIN u, k \in u[j].edits
          PROVE  j <= i + Len(s)
      <4>1. CASE j \in DOMAIN s
          BY <1>1, <4>1
      <4>2. CASE j - Len(s) \in DOMAIN t /\ u[j] = t[j - Len(s)]
        <5>1. j - Len(s) <= i
            BY <3>1, <3>4, <4>2
        <5>. QED
            BY <1>1, <5>1
      <4>. QED
          BY <1>2, <4>1, <4>2
    <3>. QED
        BY <3>2, <3>3, <3>4
  <2>2. CASE k \in DOMAIN f \ DOMAIN g
    <3>1. PICK i \in DOMAIN s : /\ f[k] = b + i /\ k \in s[i].edits
                                /\ \A j \in DOMAIN s : k \in s[j].edits => j <= i
        BY <2>2 DEF Covers
    <3>2. k \in Key
        BY <2>2 DEF Covers
    <3>3. ASSUME NEW j \in DOMAIN u, k \in u[j].edits
          PROVE  j <= i
      <4>1. CASE j \in DOMAIN s
          BY <1>1, <3>1, <3>3, <4>1
      <4>2. CASE j - Len(s) \in DOMAIN t /\ u[j] = t[j - Len(s)]
          BY <2>2, <3>2, <3>3, <4>2 DEF Covers
      <4>. QED
          BY <1>2, <4>1, <4>2
    <3>. QED
        BY <1>1, <1>3, <2>2, <3>1, <3>3
  <2>. QED
      BY <1>3, <2>1, <2>2
<1>. QED
    BY <1>4, <1>5 DEF Covers

(* So do their own positions.                                              *)
LEMMA NumberedConcat ==
    ASSUME NEW s \in Seq(Cell), NEW t \in Seq(Cell), NEW b \in Int,
           Numbered(s, b), Numbered(t, b + Len(s))
    PROVE  Numbered(s \o t, b)
<1>1. SUFFICES ASSUME NEW i \in DOMAIN (s \o t)
               PROVE  (s \o t)[i].previous = b + i
    BY DEF Numbered
<1>2. CASE i \in DOMAIN s
    BY <1>2 DEF Numbered
<1>3. CASE i \notin DOMAIN s
  <2>1. /\ i - Len(s) \in DOMAIN t /\ (s \o t)[i] = t[i - Len(s)]
        /\ i \in Int /\ Len(s) \in Int
      BY <1>1, <1>3
  <2>2. t[i - Len(s)].previous = (b + Len(s)) + (i - Len(s))
      BY <2>1 DEF Numbered
  <2>. QED
      BY <2>1, <2>2
<1>. QED
    BY <1>2, <1>3

(* append_record keeps a layer, and a record is found under its keys.      *)
LEMMA LayerPush ==
    ASSUME NEW l, NEW b \in Nat, LayerInv(l, b),
           NEW r \in Records \cup {EndBlock}
    PROVE  /\ LayerInv(Pushed(l, r, b + Len(l.log) + 1), b)
           /\ Len(Pushed(l, r, b + Len(l.log) + 1).log) = Len(l.log) + 1
<1>. DEFINE q == b + Len(l.log) + 1
            c == [id |-> r.id, edits |-> r.edits, previous |-> q]
            f == [k \in r.edits |-> q]
            m == Pushed(l, r, q)
<1>1. r.edits \subseteq Key /\ IsFiniteSet(r.edits)
  <2>1. CASE r = EndBlock
      BY <2>1, FS_EmptySet DEF EndBlock
  <2>2. CASE r \in Records
    <3>1. PICK k \in Key : r.edits = {k}
        BY <2>2 DEF Records, Key
    <3>. QED
        BY <3>1, FS_Singleton
  <2>. QED
      BY <2>1, <2>2
<1>2. /\ l.log \in Seq(Cell) /\ Len(l.log) \in Nat /\ q \in Nat
      /\ Covers(l.log, l.last, b) /\ Numbered(l.log, b) /\ IndexOK(l.last)
    BY DEF LayerInv
<1>3. c \in Cell
    BY <1>1, <1>2 DEF Cell, Records, EndBlock
<1>4. <<c>> \in Seq(Cell) /\ Len(<<c>>) = 1 /\ DOMAIN <<c>> = {1} /\ <<c>>[1] = c
    BY <1>3
<1>5. /\ m.log = Append(l.log, c) /\ m.last = Above(f, l.last)
      /\ Append(l.log, c) = l.log \o <<c>>
    BY <1>2, <1>3 DEF Pushed
<1>6. Covers(<<c>>, f, b + Len(l.log))
    BY <1>1, <1>2, <1>4 DEF Covers
<1>7. Numbered(<<c>>, b + Len(l.log))
    BY <1>2, <1>4 DEF Numbered
<1>8. IndexOK(f)
    BY <1>1, <1>2 DEF IndexOK
<1>0. b \in Int
    OBVIOUS
<1>9. Covers(l.log \o <<c>>, Above(f, l.last), b)
  <2>. HIDE DEF c, f
  <2>. QED
      BY <1>0, <1>2, <1>4, <1>6, CoversConcat
<1>10. Numbered(l.log \o <<c>>, b)
  <2>. HIDE DEF c
  <2>. QED
      BY <1>0, <1>2, <1>4, <1>7, NumberedConcat, Zenon
<1>11. IndexOK(Above(f, l.last))
    BY <1>2, <1>8, OverlayOK
<1>12. l.log \o <<c>> \in Seq(Cell) /\ Len(l.log \o <<c>>) = Len(l.log) + 1
  <2>. HIDE DEF c
  <2>. QED
      BY <1>2, <1>4, ConcatProperties
<1>13. m.log = l.log \o <<c>> /\ m = [log |-> m.log, last |-> m.last]
    BY <1>5 DEF Pushed
<1>. HIDE DEF m, c, f
<1>. QED
    BY <1>5, <1>9, <1>10, <1>11, <1>12, <1>13 DEF LayerInv, m, q

(* So does committing a layer into the one below it.                       *)
LEMMA LayerJoin ==
    ASSUME NEW l, NEW m, NEW b \in Nat,
           LayerInv(l, b), LayerInv(m, b + Len(l.log))
    PROVE  /\ LayerInv(Joined(l, m), b)
           /\ Len(Joined(l, m).log) = Len(l.log) + Len(m.log)
<1>1. /\ l.log \in Seq(Cell) /\ m.log \in Seq(Cell)
      /\ Covers(l.log, l.last, b) /\ Covers(m.log, m.last, b + Len(l.log))
      /\ Numbered(l.log, b) /\ Numbered(m.log, b + Len(l.log))
      /\ IndexOK(l.last) /\ IndexOK(m.last)
    BY DEF LayerInv
<1>2. l.log \o m.log \in Seq(Cell)
      /\ Len(l.log \o m.log) = Len(l.log) + Len(m.log)
    BY <1>1, ConcatProperties
<1>3. Covers(l.log \o m.log, Above(m.last, l.last), b)
    BY <1>1, CoversConcat
<1>0. b \in Int
    OBVIOUS
<1>4. Numbered(l.log \o m.log, b)
    BY <1>0, <1>1, NumberedConcat, Zenon
<1>5. IndexOK(Above(m.last, l.last))
    BY <1>1, OverlayOK
<1>6. /\ Joined(l, m).log = l.log \o m.log
      /\ Joined(l, m).last = Above(m.last, l.last)
      /\ Joined(l, m) = [log |-> Joined(l, m).log, last |-> Joined(l, m).last]
    BY DEF Joined
<1>. QED
    BY <1>2, <1>3, <1>4, <1>5, <1>6 DEF LayerInv

-----------------------------------------------------------------------------
(* The size of what is below the block, and of all.                        *)
LEMMA Sizes ==
    ASSUME LayersInv, step \notin Syncing
    PROVE  /\ Pending = state /\ Len(StateLog) = Cached
           /\ Len(Below) = Base /\ Size = Base + Len(trx.log)
           /\ Cached \in Nat /\ Base \in Nat /\ Len(file) \in Nat
           /\ Len(trx.log) \in Nat /\ Len(head.log) \in Nat
           /\ Len(file) <= Cached /\ Cached <= Base
           /\ IndexOK(Index)
<1>1. /\ file \in Seq(Cell) /\ state.log \in Seq(Cell)
      /\ head.log \in Seq(Cell) /\ trx.log \in Seq(Cell)
    BY DEF LayersInv, LayerInv
<1>2. Pending = state
    BY DEF Pending
<1>3. StateLog \in Seq(Cell) /\ Len(StateLog) = Cached
    BY <1>1, <1>2 DEF StateLog, Cached
<1>4. Below \in Seq(Cell) /\ Len(Below) = Base
  <2>1. CASE over = "head"
      BY <1>1, <1>3, <2>1, ConcatProperties DEF Below, Base
  <2>2. CASE over # "head"
      BY <1>3, <2>2 DEF Below, Base
  <2>. QED
      BY <2>1, <2>2
<1>5. Size = Base + Len(trx.log)
    BY <1>1, <1>4, ConcatProperties DEF Size, Log
<1>6. /\ IndexOK(db) /\ IndexOK(state.last) /\ IndexOK(head.last)
      /\ IndexOK(trx.last)
    BY DEF LayersInv, LayerInv
<1>7. IndexOK(Index)
  <2>1. IndexOK(StateIndex)
      BY <1>6, OverlayOK DEF StateIndex
  <2>2. IndexOK(BelowIndex)
      BY <1>6, <2>1, OverlayOK DEF BelowIndex
  <2>. QED
      BY <1>6, <2>2, OverlayOK DEF Index
<1>8. /\ Cached \in Nat /\ Base \in Nat /\ Len(file) \in Nat
      /\ Len(trx.log) \in Nat /\ Len(head.log) \in Nat
      /\ Len(file) <= Cached /\ Cached <= Base
  <2>1. /\ Len(file) \in Nat /\ Len(state.log) \in Nat
        /\ Len(head.log) \in Nat /\ Len(trx.log) \in Nat
      BY <1>1
  <2>2. Cached \in Nat /\ Len(file) <= Cached
      BY <1>2, <2>1 DEF Cached
  <2>3. Base \in Nat /\ Cached <= Base
      BY <2>1, <2>2 DEF Base
  <2>. QED
      BY <2>1, <2>2, <2>3
<1>. QED
    BY <1>2, <1>3, <1>4, <1>5, <1>7, <1>8

(* What only reads keeps the layers.                                       *)
LEMMA LayersFrame ==
    ASSUME LayersInv, UNCHANGED <<file, db, disk, layers, harmed>>,
           step' \in Syncing <=> step \in Syncing
    PROVE  LayersInv' /\ Cached' = Cached /\ Base' = Base
<1>1. Pending' = Pending
    BY DEF Pending, layers
<1>2. Cached' = Cached /\ Base' = Base
    BY <1>1 DEF Cached, Base, layers
<1>. QED
    BY <1>2 DEF LayersInv, LayerInv, layers, Numbered, Covers, IndexOK

(* At first there is nothing.                                              *)
LEMMA InitFile == Init => FileInv
<1>. SUFFICES ASSUME Init PROVE FileInv
    OBVIOUS
<1>. USE BoundAssumption DEF Init
<1>1. Cached = 0 /\ Base = 0
    BY DEF Cached, Base, Pending, Syncing, EmptyLayer
<1>2. LayersInv
    BY <1>1, EmptyOK DEF LayersInv, EmptyLayer, Syncing
<1>3. StepInv
  <2>1. pos \in 0 .. Len(file)
      BY SMT
  <2>2. step = "idle" /\ state = EmptyLayer /\ trx = EmptyLayer /\ ~again
      BY SMT
  <2>. QED
      BY <2>1, <2>2 DEF StepInv, Syncing, Committing
<1>4. DiskInv
    BY DEF DiskInv, Syncing
<1>. QED
    BY <1>2, <1>3, <1>4 DEF FileInv

(* A step that changes no variable keeps everything.                       *)
LEMMA StutterFile == FileInv /\ UNCHANGED vars => FileInv'
<1>. SUFFICES ASSUME FileInv, UNCHANGED vars PROVE FileInv'
    OBVIOUS
<1>. USE DEF vars, disks, layers, hashing
<1>1. LayersInv' /\ Cached' = Cached /\ Base' = Base
    BY LayersFrame DEF FileInv
<1>2. StepInv' /\ DiskInv'
    BY <1>1 DEF FileInv, StepInv, DiskInv
<1>. QED
    BY <1>1, <1>2 DEF FileInv

-----------------------------------------------------------------------------
(* A read leaves the position in the file, and at its end when a chunk     *)
(* holds all of it.                                                        *)
LEMMA Reading ==
    ASSUME Len(file) \in Nat, pos \in 0 .. Len(file), NEW p \in Nat, Reads(p)
    PROVE  /\ UNCHANGED <<file, db, disk>>
           /\ pos' \in 0 .. Len(file)
           /\ p = 0 /\ Len(file) <= Chunk => pos' = Len(file)
<1>1. Min({p + Chunk, Len(file)})
        = IF p + Chunk <= Len(file) THEN p + Chunk ELSE Len(file)
    BY MinOfTwo, BoundAssumption
<1>2. UNCHANGED <<file, db, disk>>
    BY DEF Reads
<1>3. pos' = IF p < Len(file) THEN Min({p + Chunk, Len(file)}) ELSE pos
    BY DEF Reads
<1>. QED
    BY <1>1, <1>2, <1>3, BoundAssumption

(* A query moves the position to a record, if it is in the file.           *)
LEMMA LookFile ==
    ASSUME FileInv, NEW k \in Key, Look(k)
    PROVE  FileInv'
<1>0. LayersInv /\ StepInv /\ DiskInv
    BY DEF FileInv
<1>. USE <1>0 DEF Look, Syncing, Committing
<1>1. Index[k] \in Nat /\ Len(file) \in Nat
    BY Sizes DEF IndexOK
<1>2. LayersInv' /\ Cached' = Cached /\ Base' = Base
    BY LayersFrame
<1>3. pos' \in 0 .. Len(file')
    BY <1>1 DEF StepInv
<1>4. StepInv'
    BY <1>2, <1>3 DEF StepInv, layers, hashing
<1>5. DiskInv'
    BY DEF DiskInv
<1>. QED
    BY <1>2, <1>4, <1>5 DEF FileInv

(* A block begins with an empty layer on the head, or in its place.        *)
LEMMA BeginFile ==
    ASSUME FileInv, NEW u \in {"head", "state"}, BeginBlock(u)
    PROVE  FileInv'
<1>0. LayersInv /\ StepInv /\ DiskInv
    BY DEF FileInv
<1>. USE <1>0 DEF BeginBlock, Syncing, Committing, disks, hashing
<1>1. /\ Cached \in Nat /\ Len(head.log) \in Nat
      /\ Cached + Len(head.log) <= MaxLog
    BY Sizes DEF LayersInv
<1>2. Cached' = Cached /\ Base' \in {Cached, Cached + Len(head.log)}
    BY DEF Cached, Base, Pending
<1>3. trx = EmptyLayer /\ trx' = EmptyLayer
    BY DEF StepInv
<1>4. LayerInv(trx', Base') /\ Len(trx'.log) = 0
    BY <1>3, EmptyOK
<1>5. LayersInv'
  <2>0. MaxLog \in Nat
      BY BoundAssumption
  <2>1. Base' \in Nat /\ Base' <= MaxLog
    <3>. HIDE DEF BeginBlock
    <3>. QED
        BY <1>1, <1>2, <2>0
  <2>2. Base' + Len(trx'.log) <= MaxLog
    <3>1. Base' + Len(trx'.log) = Base' + 0
        BY <1>4
    <3>. QED
        BY <2>1, <3>1
  <2>. QED
      BY <1>2, <1>4, <2>2 DEF LayersInv
<1>6. StepInv' /\ DiskInv'
    BY DEF StepInv, DiskInv
<1>. QED
    BY <1>5, <1>6 DEF FileInv

(* A command of the block appends its records to the block's layer.        *)
LEMMA AppendFile ==
    ASSUME FileInv, NEW r \in Records, AppendRecord(r)
    PROVE  FileInv'
<1>0. LayersInv /\ StepInv /\ DiskInv
    BY DEF FileInv
<1>. USE <1>0 DEF AppendRecord, Syncing, Committing, disks, hashing
<1>1. /\ Size = Base + Len(trx.log) /\ Base \in Nat /\ Len(trx.log) \in Nat
      /\ Len(file) \in Nat
    BY Sizes
<1>2. Cached' = Cached /\ Base' = Base
    BY DEF Cached, Base, Pending
<1>3. LayerInv(trx, Base)
    BY DEF LayersInv
<1>4. LayerInv(trx', Base) /\ Len(trx'.log) = Len(trx.log) + 1
    BY <1>1, <1>3, LayerPush
<1>5. LayersInv'
  <2>1. Base + Len(trx'.log) <= MaxLog
      BY <1>1, <1>4, BoundAssumption
  <2>. QED
      BY <1>2, <1>4, <2>1 DEF LayersInv
<1>6. StepInv'
    BY <1>1 DEF StepInv
<1>7. DiskInv'
    BY DEF DiskInv
<1>. QED
    BY <1>5, <1>6, <1>7 DEF FileInv

(* A block that is refused leaves nothing of itself.                       *)
LEMMA DropFile ==
    ASSUME FileInv, step \in {"apply", "hash"}, DropBlock
    PROVE  FileInv'
<1>0. LayersInv /\ StepInv /\ DiskInv
    BY DEF FileInv
<1>. USE <1>0 DEF DropBlock, Syncing, Committing, disks
<1>1. /\ Cached \in Nat /\ Len(head.log) \in Nat
      /\ Cached + Len(head.log) <= MaxLog
    BY Sizes DEF LayersInv
<1>2. Cached' = Cached /\ Base' = Cached + Len(head.log)
    BY DEF Cached, Base, Pending
<1>3. LayerInv(trx', Base') /\ Len(trx'.log) = 0
    BY EmptyOK
<1>4. LayersInv'
  <2>1. Base' + Len(trx'.log) <= MaxLog
      BY <1>1, <1>2, <1>3, BoundAssumption
  <2>. QED
      BY <1>2, <1>3, <2>1 DEF LayersInv
<1>5. StepInv'
    BY DEF StepInv
<1>6. DiskInv'
    BY DEF DiskInv
<1>. QED
    BY <1>4, <1>5, <1>6 DEF FileInv

(* The hash begins with the first chunk; a log shorter than one is read to *)
(* its end.                                                                *)
LEMMA BeginHashFile ==
    ASSUME FileInv, BeginHash
    PROVE  FileInv'
<1>0. LayersInv /\ StepInv /\ DiskInv
    BY DEF FileInv
<1>. USE <1>0 DEF BeginHash, Syncing, Committing
<1>1. /\ Size = Base + Len(trx.log) /\ Size \in Nat /\ Len(file) \in Nat
      /\ Len(file) <= Size
    BY Sizes
<1>2. /\ UNCHANGED <<file, db, disk>>
      /\ pos' \in 0 .. Len(file)
      /\ Len(file) <= Chunk => pos' = Len(file)
    BY <1>1, Reading DEF StepInv
<1>3. got' = IF Chunk <= Size THEN Chunk ELSE Size
    BY <1>1, MinOfTwo, BoundAssumption
<1>4. LayersInv' /\ Cached' = Cached /\ Base' = Base
    BY <1>2, LayersFrame
<1>5. got' < Chunk => pos' = Len(file')
    BY <1>1, <1>2, <1>3, BoundAssumption
<1>6. got' \in Nat /\ at' \in Nat
    BY <1>1, <1>3, BoundAssumption
<1>7. StepInv'
    BY <1>1, <1>2, <1>4, <1>5, <1>6 DEF StepInv, layers
<1>8. DiskInv'
    BY <1>2 DEF DiskInv
<1>. QED
    BY <1>4, <1>7, <1>8 DEF FileInv

(* A chunk that is read: the condition still sees the one before.          *)
LEMMA HashChunkFile ==
    ASSUME FileInv, HashChunk
    PROVE  FileInv'
<1>0. LayersInv /\ StepInv /\ DiskInv
    BY DEF FileInv
<1>. USE <1>0 DEF HashChunk, Syncing, Committing
<1>1. Len(file) \in Nat
    BY Sizes
<1>2. at' \in Nat
    BY BoundAssumption DEF StepInv
<1>3. /\ UNCHANGED <<file, db, disk>>
      /\ pos' \in 0 .. Len(file)
    BY <1>1, <1>2, Reading DEF StepInv
<1>4. step' \in {"hash", "dead"}
    OBVIOUS
<1>5. LayersInv' /\ Cached' = Cached /\ Base' = Base
    BY <1>3, <1>4, LayersFrame
<1>6. StepInv'
    BY <1>1, <1>2, <1>3, <1>4, <1>5, BoundAssumption DEF StepInv, layers
<1>7. DiskInv'
    BY <1>3, <1>4 DEF DiskInv
<1>. QED
    BY <1>5, <1>6, <1>7 DEF FileInv

(* The block becomes the head, or waits until the head is final.           *)
LEMMA HashMatchesFile ==
    ASSUME FileInv, HashMatches
    PROVE  FileInv'
<1>0. LayersInv /\ StepInv /\ DiskInv
    BY DEF FileInv
<1>. DEFINE l == Pushed(trx, EndBlock, Size + 1)
<1>1. step = "hash" /\ got < Chunk
    BY DEF HashMatches, Hashed
<1>2. /\ Size = Base + Len(trx.log) /\ Base \in Nat /\ Len(trx.log) \in Nat
      /\ Len(file) \in Nat /\ Cached \in Nat /\ MaxLog \in Nat
    BY <1>0, <1>1, Sizes, BoundAssumption DEF Syncing
<1>3. LayerInv(l, Base) /\ Len(l.log) = Len(trx.log) + 1
  <2>1. LayerInv(trx, Base)
      BY <1>0 DEF LayersInv
  <2>. QED
      BY <1>2, <2>1, LayerPush
<1>4. Base + Len(l.log) <= MaxLog
  <2>1. Base + Len(trx.log) < MaxLog
      BY <1>0, <1>1 DEF StepInv
  <2>. QED
      BY <1>2, <1>3, <2>1
<1>. HIDE DEF l
<1>5. /\ UNCHANGED <<file, pos, db, disk, state, again, harmed>>
      /\ at' = 0 /\ got' = 0
      /\ \/ /\ over = "head" /\ trx' = l /\ step' = "write"
            /\ UNCHANGED <<head, over>>
         \/ /\ over = "state" /\ head' = l /\ trx' = EmptyLayer
            /\ step' = "idle" /\ over' = "head"
    BY DEF HashMatches, disks, l
<1>6. pos = Len(file) /\ ~again /\ state = EmptyLayer
    BY <1>0, <1>1 DEF StepInv, Syncing, Committing
<1>7. Cached' = Cached
    BY <1>1, <1>5 DEF Cached, Pending, Syncing
<1>8. CASE over = "head" /\ trx' = l /\ step' = "write" /\ UNCHANGED <<head, over>>
  <2>1. Base' = Base
      BY <1>7, <1>8 DEF Base
  <2>2. LayersInv'
      BY <1>0, <1>1, <1>3, <1>4, <1>5, <1>7, <1>8, <2>1 DEF LayersInv, Syncing
  <2>3. StepInv'
      BY <1>0, <1>2, <1>5, <1>6, <1>8 DEF StepInv, Syncing, Committing
  <2>4. DiskInv'
      BY <1>0, <1>1, <1>5, <1>8 DEF DiskInv, Syncing
  <2>. QED
      BY <2>2, <2>3, <2>4 DEF FileInv
<1>9. CASE /\ over = "state" /\ head' = l /\ trx' = EmptyLayer
           /\ step' = "idle" /\ over' = "head"
  <2>1. Base = Cached /\ Base' = Cached + Len(l.log)
      BY <1>7, <1>9 DEF Base
  <2>2. LayerInv(trx', Base') /\ Len(trx'.log) = 0
      BY <1>9, EmptyOK
  <2>3. LayerInv(head', Cached') /\ Cached' + Len(head'.log) <= MaxLog
      BY <1>3, <1>4, <1>7, <1>9, <2>1
  <2>4. Base' + Len(trx'.log) <= MaxLog
    <3>1. Base' \in Nat /\ Base' <= MaxLog
        BY <1>2, <1>3, <1>4, <2>1
    <3>2. Base' + Len(trx'.log) = Base' + 0
        BY <2>2
    <3>. QED
        BY <3>1, <3>2
  <2>5. LayersInv'
      BY <1>0, <1>1, <1>5, <1>7, <1>9, <2>2, <2>3, <2>4 DEF LayersInv, Syncing
  <2>6. StepInv'
      BY <1>0, <1>2, <1>5, <1>6, <1>9 DEF StepInv, Syncing, Committing
  <2>7. DiskInv'
      BY <1>0, <1>1, <1>5, <1>9 DEF DiskInv, Syncing
  <2>. QED
      BY <2>5, <2>6, <2>7 DEF FileInv
<1>. QED
    BY <1>5, <1>8, <1>9

-----------------------------------------------------------------------------
(* The file cache goes where the position is, which is the end of the file.*)
LEMMA WriteFile ==
    ASSUME FileInv, Write
    PROVE  /\ FileInv'
           /\ pos = Len(file) /\ file' = file \o state.log
<1>0. LayersInv /\ StepInv /\ DiskInv
    BY DEF FileInv
<1>1. /\ step = "write" /\ step' = "sync_transfers"
      /\ file' = SubSeq(file, 1, pos) \o state.log
                 \o SubSeq(file, pos + Len(state.log) + 1, Len(file))
      /\ pos' = pos + Len(state.log) /\ db' = StateIndex
      /\ UNCHANGED <<disk, state, head, trx, over, again, at, got, harmed>>
    BY DEF Write, layers, hashing
<1>2. /\ file \in Seq(Cell) /\ state.log \in Seq(Cell)
      /\ Len(file) \in Nat /\ Len(state.log) \in Nat
    BY <1>0 DEF LayersInv, LayerInv
<1>3. pos = Len(file) /\ over = "head"
    BY <1>0, <1>1 DEF StepInv, Committing
<1>4. file' = file \o state.log
  <2>1. SubSeq(file, 1, Len(file)) = file
      BY <1>2, SubSeqFull
  <2>2. SubSeq(file, Len(file) + Len(state.log) + 1, Len(file)) = << >>
    <3>1. /\ Len(file) \in Int /\ Len(file) + Len(state.log) + 1 \in Int
          /\ Len(file) < Len(file) + Len(state.log) + 1
        BY <1>2
    <3>. QED
        BY <3>1, SubSeqEmpty, Zenon
  <2>3. (file \o state.log) \o << >> = file \o state.log
      BY <1>2, ConcatProperties, ConcatEmptySeq
  <2>. QED
      BY <1>1, <1>3, <2>1, <2>2, <2>3
<1>5. file' \in Seq(Cell) /\ Len(file') = Len(file) + Len(state.log)
    BY <1>2, <1>4, ConcatProperties
<1>6. Cached' = Cached /\ Base' = Base
  <2>1. Cached = Len(file) + Len(state.log)
      BY <1>1 DEF Cached, Pending, Syncing
  <2>2. Cached' = Len(file') + 0
      BY <1>1 DEF Cached, Pending, Syncing, EmptyLayer
  <2>3. Cached' = Cached
      BY <1>2, <1>5, <2>1, <2>2
  <2>. QED
      BY <1>1, <2>3 DEF Base
<1>7. LayerInv(state, Len(file)) /\ Len(file') - Len(state.log) = Len(file)
    BY <1>0, <1>1, <1>2, <1>5 DEF LayersInv, Syncing
<1>8. Numbered(file', 0)
  <2>1. Numbered(file, 0) /\ Numbered(state.log, 0 + Len(file))
      BY <1>0, <1>2, <1>7 DEF LayersInv, LayerInv
  <2>. QED
      BY <1>2, <1>4, <2>1, NumberedConcat
<1>9. ~harmed => Covers(file', db', 0)
  <2>1. SUFFICES ASSUME ~harmed
                 PROVE  Covers(file \o state.log, Above(state.last, db), 0)
      BY <1>1, <1>4 DEF StateIndex
  <2>2. Covers(file, db, 0) /\ Covers(state.log, state.last, 0 + Len(file))
      BY <1>0, <1>2, <1>7, <2>1 DEF LayersInv, LayerInv
  <2>. QED
      BY <1>2, <2>2, CoversConcat
<1>10. IndexOK(db')
    BY <1>0, <1>1, OverlayOK DEF LayersInv, LayerInv, StateIndex
<1>11. LayersInv'
  <2>1. LayerInv(state', IF step' \in Syncing THEN Len(file') - Len(state'.log)
                         ELSE Len(file'))
      BY <1>1, <1>7 DEF Syncing
  <2>. QED
      BY <1>0, <1>1, <1>5, <1>6, <1>8, <1>9, <1>10, <2>1 DEF LayersInv
<1>12. StepInv'
  <2>1. pos' = Len(file') /\ pos' \in 0 .. Len(file')
    <3>1. pos' = Len(file) + Len(state.log)
        BY <1>0, <1>1, <1>3 DEF StepInv
    <3>. QED
        BY <1>2, <1>5, <3>1
  <2>. QED
      BY <1>0, <1>1, <1>3, <2>1 DEF StepInv, Syncing, Committing
<1>13. DiskInv'
  <2>1. DOMAIN db \subseteq DOMAIN db'
      BY <1>1, Overlay DEF StateIndex
  <2>. QED
      BY <1>0, <1>1, <2>1 DEF DiskInv, Syncing
<1>. QED
    BY <1>3, <1>4, <1>11, <1>12, <1>13 DEF FileInv

(* sync of m_transfer_db.                                                  *)
LEMMA SyncTransfersFile ==
    ASSUME FileInv, SyncTransfers
    PROVE  FileInv'
<1>0. LayersInv /\ StepInv /\ DiskInv
    BY DEF FileInv
<1>1. /\ step = "sync_transfers" /\ step' = "sync_names"
      /\ UNCHANGED <<file, pos, db, state, head, trx, over, again,
                     at, got, harmed>>
    BY DEF SyncTransfers, layers, hashing
<1>. DEFINE f == [k \in Account \cap DOMAIN db |-> db[k]]
<1>2. disk' = Above(f, disk)
    BY DEF SyncTransfers, OnDisk
<1>3. /\ DOMAIN disk' = DOMAIN f \cup DOMAIN disk
      /\ \A k \in DOMAIN f : disk'[k] = db[k]
  <2>1. \A k \in DOMAIN f : f[k] = db[k]
      OBVIOUS
  <2>. HIDE DEF f
  <2>. QED
      BY <1>2, <2>1, Overlay
<1>4. IndexOK(disk')
  <2>1. IndexOK(f)
    <3>1. IsFiniteSet(Account \cap DOMAIN db)
        BY <1>0, FS_Subset DEF LayersInv, IndexOK
    <3>. QED
        BY <1>0, <3>1 DEF LayersInv, IndexOK
  <2>. QED
      BY <1>0, <1>2, <2>1, OverlayOK DEF LayersInv
<1>5. Cached' = Cached /\ Base' = Base
    BY <1>1 DEF Cached, Base, Pending, Syncing
<1>6. LayersInv'
    BY <1>0, <1>1, <1>4, <1>5 DEF LayersInv, Syncing
<1>7. StepInv'
    BY <1>0, <1>1, <1>5 DEF StepInv, Syncing, Committing
<1>8. DiskInv'
    BY <1>0, <1>1, <1>3 DEF DiskInv, Syncing
<1>. QED
    BY <1>6, <1>7, <1>8 DEF FileInv

(* sync of m_name_db: with it all that was set is on disk.                 *)
LEMMA SyncNamesFile ==
    ASSUME FileInv, SyncNames
    PROVE  FileInv'
<1>0. LayersInv /\ StepInv /\ DiskInv
    BY DEF FileInv
<1>1. /\ step = "sync_names" /\ step' = "committed" /\ state' = EmptyLayer
      /\ UNCHANGED <<file, pos, db, head, trx, over, again,
                     at, got, harmed>>
    BY DEF SyncNames, hashing
<1>. DEFINE f == [k \in Name \cap DOMAIN db |-> db[k]]
<1>2. disk' = Above(f, disk)
    BY DEF SyncNames, OnDisk
<1>3. IndexOK(db) /\ IndexOK(disk)
    BY <1>0 DEF LayersInv
<1>4. disk' = db
  <2>1. DOMAIN f = Name \cap DOMAIN db /\ \A k \in DOMAIN f : f[k] = db[k]
      OBVIOUS
  <2>2. /\ DOMAIN disk' = DOMAIN f \cup DOMAIN disk
        /\ \A k \in DOMAIN f : disk'[k] = f[k]
        /\ \A k \in DOMAIN disk \ DOMAIN f : disk'[k] = disk[k]
    <3>. HIDE DEF f
    <3>1. /\ DOMAIN Above(f, disk) = DOMAIN f \cup DOMAIN disk
          /\ \A k \in DOMAIN f : Above(f, disk)[k] = f[k]
          /\ \A k \in DOMAIN disk \ DOMAIN f : Above(f, disk)[k] = disk[k]
        BY Overlay
    <3>. QED
        BY <1>2, <3>1
  <2>3. \A k \in DOMAIN db : k \in Name \/ k \in DOMAIN db \cap Account
      BY <1>3 DEF IndexOK, Key
  <2>4. \A k \in DOMAIN db \cap Account : k \in DOMAIN disk /\ disk[k] = db[k]
      BY <1>0, <1>1 DEF DiskInv
  <2>5. DOMAIN disk' = DOMAIN db /\ \A k \in DOMAIN db : disk'[k] = db[k]
      BY <1>0, <2>1, <2>2, <2>3, <2>4 DEF DiskInv
  <2>6. disk' = [k \in DOMAIN disk' |-> disk'[k]]
      BY <1>2 DEF Above
  <2>7. db = [k \in DOMAIN db |-> db[k]]
      BY <1>3 DEF IndexOK
  <2>. QED
      BY <2>5, <2>6, <2>7
<1>5. Cached' = Cached /\ Base' = Base
    BY <1>1 DEF Cached, Base, Pending, Syncing
<1>6. LayersInv'
    BY <1>0, <1>1, <1>3, <1>4, <1>5, EmptyOK DEF LayersInv, Syncing
<1>7. StepInv'
    BY <1>0, <1>1, <1>5 DEF StepInv, Syncing, Committing
<1>8. DiskInv'
    BY <1>0, <1>1, <1>4 DEF DiskInv, Syncing
<1>. QED
    BY <1>6, <1>7, <1>8 DEF FileInv

(* The steps of commit that move layers: the head's goes to the cache, the *)
(* block's is the head.                                                    *)
LEMMA CommitFile ==
    ASSUME FileInv, NothingToWrite \/ CommitHead \/ Added
    PROVE  FileInv'
<1>0. LayersInv /\ StepInv /\ DiskInv
    BY DEF FileInv
<1>1. CASE NothingToWrite
  <2>. USE <1>1 DEF NothingToWrite, Syncing, Committing
  <2>1. LayersInv' /\ Cached' = Cached /\ Base' = Base
      BY <1>0, LayersFrame DEF disks
  <2>2. state = EmptyLayer
    <3>1. /\ state = [log |-> state.log, last |-> state.last] /\ state.log = << >>
          /\ IndexOK(state.last) /\ Covers(state.log, state.last, Len(file))
        BY <1>0 DEF LayersInv, LayerInv
    <3>2. DOMAIN state.last = {}
        BY <3>1 DEF Covers
    <3>3. state.last = NoIndex
        BY <3>1, <3>2 DEF IndexOK, NoIndex
    <3>. QED
        BY <3>1, <3>3 DEF EmptyLayer
  <2>3. StepInv'
      BY <1>0, <2>1, <2>2 DEF StepInv, disks, layers, hashing
  <2>4. DiskInv'
      BY <1>0 DEF DiskInv, disks
  <2>. QED
      BY <2>1, <2>3, <2>4 DEF FileInv
<1>2. CASE CommitHead
  <2>0. /\ step = "committed" /\ ~again /\ step' = "write" /\ again'
        /\ state' = Joined(state, head) /\ head' = trx /\ trx' = EmptyLayer
        /\ UNCHANGED <<file, pos, db, disk, over, at, got, harmed>>
      BY <1>2 DEF CommitHead, disks, hashing
  <2>1. /\ over = "head" /\ pos = Len(file)
        /\ Cached = Len(file) + Len(state.log) /\ Base = Cached + Len(head.log)
        /\ Len(file) \in Nat /\ Cached \in Nat /\ Base \in Nat
      BY <1>0, <2>0, Sizes DEF StepInv, Committing, Syncing, Cached, Base, Pending
  <2>2. /\ LayerInv(state, Len(file)) /\ LayerInv(head, Len(file) + Len(state.log))
        /\ LayerInv(trx, Base)
      BY <1>0, <2>0, <2>1 DEF LayersInv, Syncing
  <2>3. /\ LayerInv(state', Len(file))
        /\ Len(state'.log) = Len(state.log) + Len(head.log)
        /\ Len(state.log) \in Nat /\ Len(head.log) \in Nat /\ Len(trx.log) \in Nat
    <3>1. /\ LayerInv(Joined(state, head), Len(file))
          /\ Len(Joined(state, head).log) = Len(state.log) + Len(head.log)
        BY <2>1, <2>2, LayerJoin
    <3>2. /\ state.log \in Seq(Cell) /\ head.log \in Seq(Cell)
          /\ trx.log \in Seq(Cell)
        BY <2>2 DEF LayerInv
    <3>. QED
        BY <2>0, <3>1, <3>2
  <2>4. Cached' = Base
    <3>1. Cached' = Len(file) + Len(state'.log)
        BY <2>0 DEF Cached, Pending, Syncing
    <3>2. Base = (Len(file) + Len(state.log)) + Len(head.log)
        BY <2>1
    <3>3. Cached' = Len(file) + (Len(state.log) + Len(head.log))
        BY <2>3, <3>1
    <3>4. \A a, b, c \in Nat : a + (b + c) = (a + b) + c
        OBVIOUS
    <3>. QED
        BY <2>1, <2>3, <3>2, <3>3, <3>4, Zenon
  <2>5. Base' = Base + Len(trx.log)
      BY <2>0, <2>1, <2>4 DEF Base
  <2>6. LayerInv(trx', Base') /\ Len(trx'.log) = 0
      BY <2>0, EmptyOK
  <2>7. Base + Len(trx.log) <= MaxLog /\ MaxLog \in Nat
      BY <1>0, BoundAssumption DEF LayersInv
  <2>8. Base' + Len(trx'.log) <= MaxLog
    <3>1. Base' \in Nat /\ Base' <= MaxLog
      <4>1. Base \in Nat /\ Len(trx.log) \in Nat
          BY <2>1, <2>3
      <4>. QED
          BY <2>5, <2>7, <4>1
    <3>2. Base' + Len(trx'.log) = Base' + 0
        BY <2>6
    <3>. QED
        BY <3>1, <3>2
  <2>9. LayersInv'
    <3>1. LayerInv(head', Cached') /\ Cached' + Len(head'.log) <= MaxLog
        BY <2>0, <2>2, <2>4, <2>7
    <3>. QED
        BY <1>0, <2>0, <2>3, <2>6, <2>8, <3>1 DEF LayersInv, Syncing
  <2>10. StepInv'
      BY <1>0, <2>0, <2>1 DEF StepInv, Syncing, Committing
  <2>11. DiskInv'
      BY <1>0, <2>0 DEF DiskInv, Syncing
  <2>. QED
      BY <2>9, <2>10, <2>11 DEF FileInv
<1>3. CASE Added
  <2>. USE <1>3 DEF Added, Syncing, Committing
  <2>1. LayersInv' /\ Cached' = Cached /\ Base' = Base
      BY <1>0, LayersFrame DEF disks
  <2>2. state = EmptyLayer /\ trx = EmptyLayer
      BY <1>0 DEF StepInv
  <2>. QED
      BY <1>0, <2>1, <2>2 DEF FileInv, StepInv, DiskInv, disks, layers, hashing
<1>. QED
    BY <1>1, <1>2, <1>3

(* What follows opening the file: only it and the databases are left.      *)
LEMMA OpenedFile ==
    ASSUME FileInv, Opened,
           file' \in Seq(Cell), Len(file') <= Len(file), Numbered(file', 0),
           IndexOK(db'), disk' = db',
           harmed' \in BOOLEAN, ~harmed' => Covers(file', db', 0)
    PROVE  FileInv'
<1>0. LayersInv /\ StepInv
    BY DEF FileInv
<1>1. /\ pos' = 0 /\ state' = EmptyLayer /\ head' = EmptyLayer
      /\ trx' = EmptyLayer /\ over' = "head" /\ step' = "idle" /\ again' = FALSE
      /\ at' = 0 /\ got' = 0
    BY DEF Opened
<1>2. Len(file) <= MaxLog /\ Len(file) \in Nat /\ Len(file') \in Nat /\ MaxLog \in Nat
  <2>1. /\ Len(file) \in Nat /\ Len(state.log) \in Nat /\ Len(head.log) \in Nat
        /\ Cached + Len(head.log) <= MaxLog /\ MaxLog \in Nat
      BY <1>0, BoundAssumption DEF LayersInv, LayerInv
  <2>2. Len(Pending.log) \in Nat
      BY <2>1 DEF Pending, EmptyLayer
  <2>3. Len(file) <= MaxLog
    <3>1. Cached = Len(file) + Len(Pending.log)
        BY DEF Cached
    <3>. HIDE DEF Cached
    <3>2. Len(file) <= Cached /\ Cached \in Nat
        BY <2>1, <2>2, <3>1
    <3>. QED
        BY <2>1, <3>2
  <2>. QED
      BY <2>1, <2>3
<1>3. Cached' = Len(file') /\ Base' = Len(file')
  <2>1. Cached' = Len(file') + 0
      BY <1>1 DEF Cached, Pending, Syncing, EmptyLayer
  <2>2. Base' = Cached' + 0
      BY <1>1 DEF Base, EmptyLayer
  <2>. QED
      BY <1>2, <2>1, <2>2
<1>4. /\ Cached' + Len(head'.log) <= MaxLog
      /\ Base' + Len(trx'.log) <= MaxLog
  <2>1. Len(head'.log) = 0 /\ Len(trx'.log) = 0
      BY <1>1, EmptyOK
  <2>. QED
      BY <1>2, <1>3, <2>1
<1>5. LayersInv'
    BY <1>1, <1>4, EmptyOK DEF LayersInv, Syncing
<1>6. StepInv'
    BY <1>1, <1>2 DEF StepInv, Syncing, Committing
<1>7. DiskInv'
    BY <1>1 DEF DiskInv, Syncing
<1>. QED
    BY <1>5, <1>6, <1>7 DEF FileInv

(* Closing leaves what the file and the databases have.                    *)
LEMMA RestartFile ==
    ASSUME FileInv, Restart
    PROVE  FileInv'
<1>0. LayersInv /\ StepInv /\ DiskInv
    BY DEF FileInv
<1>1. /\ step = "idle" /\ UNCHANGED <<file, db, disk, harmed>>
    BY DEF Restart
<1>2. disk = db
    BY <1>0, <1>1 DEF DiskInv, Syncing
<1>3. /\ file \in Seq(Cell) /\ Len(file) \in Nat /\ Numbered(file, 0)
      /\ IndexOK(db) /\ harmed \in BOOLEAN /\ (~harmed => Covers(file, db, 0))
    BY <1>0 DEF LayersInv, StepInv
<1>. QED
    BY <1>1, <1>2, <1>3, OpenedFile DEF Restart

(* A crash keeps the beginning of the file and of each database what is    *)
(* synchronised and any of what was set since.                             *)
LEMMA CrashFile ==
    ASSUME FileInv, Crash
    PROVE  /\ FileInv'
           /\ \E n \in 0 .. Len(file) : file' = SubSeq(file, 1, n)
<1>0. LayersInv /\ StepInv /\ DiskInv
    BY DEF FileInv
<1>1. PICK n \in 0 .. Len(file), set \in SUBSET DOMAIN db :
        /\ file' = SubSeq(file, 1, n)
        /\ db' = Above([k \in set |-> db[k]], disk)
        /\ disk' = db'
        /\ harmed' = (harmed \/ n < Len(file) \/ db' # db)
    BY DEF Crash
<1>. DEFINE f == [k \in set |-> db[k]]
<1>2. /\ file \in Seq(Cell) /\ Len(file) \in Nat
      /\ n \in Nat /\ n \in 0 .. Len(file)
    BY <1>0 DEF LayersInv
<1>3. /\ file' \in Seq(Cell) /\ Len(file') = n /\ DOMAIN file' = 1 .. n
      /\ \A i \in 1 .. n : file'[i] = file[i]
    BY <1>1, <1>2
<1>4. Numbered(file', 0)
    BY <1>0, <1>2, <1>3 DEF LayersInv, Numbered
<1>5. IndexOK(db')
  <2>1. IndexOK(f)
    <3>1. IsFiniteSet(set)
        BY <1>0, FS_Subset DEF LayersInv, IndexOK
    <3>. QED
        BY <1>0, <3>1 DEF LayersInv, IndexOK
  <2>. HIDE DEF f
  <2>2. db' = Above(f, disk)
      BY <1>1 DEF f
  <2>. QED
      BY <1>0, <2>1, <2>2, OverlayOK DEF LayersInv
<1>6. ~harmed' => Covers(file', db', 0)
  <2>1. SUFFICES ASSUME ~harmed' PROVE Covers(file', db', 0)
      OBVIOUS
  <2>2. ~harmed /\ n = Len(file) /\ db' = db
    <3>1. harmed' = (harmed \/ n < Len(file) \/ db' # db)
        BY <1>1
    <3>2. ~harmed /\ ~(n < Len(file)) /\ db' = db
        BY <2>1, <3>1
    <3>. QED
        BY <1>2, <3>2
  <2>3. file' = file
      BY <1>1, <1>2, <2>2, SubSeqFull
  <2>. QED
      BY <1>0, <2>2, <2>3 DEF LayersInv
<1>7. harmed' \in BOOLEAN
    BY <1>1
<1>8. Opened /\ disk' = db' /\ Len(file') <= Len(file)
    BY <1>1, <1>2, <1>3 DEF Crash
<1>. QED
    BY <1>1, <1>2, <1>3, <1>4, <1>5, <1>6, <1>7, <1>8, OpenedFile

-----------------------------------------------------------------------------
(* The invariant holds of every behaviour.                                 *)
LEMMA StepFile == FileInv /\ [Next]_vars => FileInv'
<1>1. CommandFails \/ HashDiffers => step \in {"apply", "hash"} /\ DropBlock
    BY DEF CommandFails, HashDiffers, Hashed
<1>. QED
    BY <1>1, StutterFile, LookFile, BeginFile, AppendFile, DropFile,
       BeginHashFile, HashChunkFile, HashMatchesFile, WriteFile,
       SyncTransfersFile, SyncNamesFile, CommitFile, RestartFile, CrashFile
    DEF Next

(* What the file, the cache and the indices hold of the log, between any   *)
(* two steps of a run with crashes.                                        *)
LEMMA FileAlways == Spec => []FileInv
BY InitFile, StepFile, PTL DEF Spec

-----------------------------------------------------------------------------
(* A sequence begins with what it was appended to, and with what is cut    *)
(* off it.                                                                 *)
LEMMA PrefixOfAppended ==
    ASSUME NEW s \in Seq(Cell), NEW t \in Seq(Cell)
    PROVE  IsPrefix(s, s \o t)
<1>1. /\ s \o t \in Seq(Cell) /\ Len(s \o t) = Len(s) + Len(t)
      /\ Len(s) \in Nat /\ Len(t) \in Nat
    BY ConcatProperties
<1>2. SubSeq(s, 1, Len(s)) = s
    BY SubSeqFull
<1>3. SubSeq(s \o t, 1, Len(s)) = s
  <2>1. /\ SubSeq(s \o t, 1, Len(s)) \in Seq(Cell)
        /\ Len(SubSeq(s \o t, 1, Len(s))) = Len(s)
        /\ \A i \in 1 .. Len(s) : SubSeq(s \o t, 1, Len(s))[i] = s[i]
      BY <1>1
  <2>. QED
      BY <2>1, SeqEqual
<1>. QED
    BY <1>1, <1>2, <1>3 DEF IsPrefix

(* Cutting the end off a file leaves a prefix of it.                       *)
LEMMA PrefixOfCut ==
    ASSUME NEW s \in Seq(Cell), NEW n \in 0 .. Len(s)
    PROVE  IsPrefix(SubSeq(s, 1, n), s)
<1>1. /\ SubSeq(s, 1, n) \in Seq(Cell) /\ Len(SubSeq(s, 1, n)) = n
      /\ Len(s) \in Nat /\ n <= Len(s)
    OBVIOUS
<1>2. SubSeq(SubSeq(s, 1, n), 1, n) = SubSeq(s, 1, n)
    BY <1>1, SubSeqFull
<1>. QED
    BY <1>1, <1>2 DEF IsPrefix

(* Wherever reads left the file's position, a commit writes only after the *)
(* records that are there, and only a crash takes any away.                *)
THEOREM FileIsAppended == Spec => OnlyAppended
<1>1. FileInv /\ [Next]_vars
        => [IsPrefix(file, file') \/ IsPrefix(file', file)]_file
  <2>. SUFFICES ASSUME FileInv, [Next]_vars, file' # file
                PROVE  IsPrefix(file, file') \/ IsPrefix(file', file)
      OBVIOUS
  <2>1. file \in Seq(Cell) /\ state.log \in Seq(Cell)
      BY DEF FileInv, LayersInv, LayerInv
  <2>2. Write \/ Crash
      BY DEF Next, Look, BeginBlock, AppendRecord, CommandFails, BeginHash,
             HashChunk, HashDiffers, HashMatches, DropBlock, NothingToWrite,
             SyncTransfers, SyncNames, CommitHead, Added, Restart,
             Reads, vars, disks
  <2>3. CASE Write
      BY <2>1, <2>3, WriteFile, PrefixOfAppended
  <2>4. CASE Crash
      BY <2>1, <2>4, CrashFile, PrefixOfCut
  <2>. QED
      BY <2>2, <2>3, <2>4
<1>. QED
    BY <1>1, FileAlways, PTL DEF Spec, OnlyAppended

-----------------------------------------------------------------------------
(* A layer's records are about what its index has.                         *)
LEMMA LayerIsOK ==
    ASSUME NEW l, NEW b, LayerInv(l, b)
    PROVE  LayerOK(l)
<1>1. /\ l.log \in Seq(Cell) /\ Covers(l.log, l.last, b)
      /\ DOMAIN l.last \subseteq Key
    BY DEF LayerInv, IndexOK
<1>2. ASSUME NEW i \in DOMAIN l.log, NEW k \in l.log[i].edits
      PROVE  k \in DOMAIN l.last
  <2>1. l.log[i] \in Cell
      BY <1>1
  <2>2. k \in Key
      BY <1>2, <2>1 DEF Cell
  <2>. QED
      BY <1>1, <1>2, <2>2 DEF Covers
<1>. QED
    BY <1>1, <1>2 DEF LayerOK

(* Types, and the bound of the log.                                        *)
LEMMA FileTyped == FileInv => TypeOK
<1>. SUFFICES ASSUME FileInv PROVE TypeOK
    OBVIOUS
<1>. USE DEF FileInv
<1>1. LayerOK(state) /\ LayerOK(head) /\ LayerOK(trx)
    BY LayerIsOK DEF LayersInv
<1>2. DOMAIN db \subseteq Key /\ DOMAIN disk \subseteq DOMAIN db
    BY DEF LayersInv, IndexOK, DiskInv
<1>3. step \in {"idle", "apply", "hash"} => state = EmptyLayer /\ Size <= MaxLog
    BY Sizes DEF StepInv, LayersInv, Syncing
<1>. QED
    BY <1>1, <1>2, <1>3 DEF TypeOK, StepInv, Committing, Syncing

(* Through all layers the index has the last record about each key.        *)
LEMMA LogCovered ==
    ASSUME FileInv, ~harmed, step \notin Syncing
    PROVE  Log \in Seq(Cell) /\ Covers(Log, Index, 0)
<1>1. /\ file \in Seq(Cell) /\ Covers(file, db, 0) /\ Len(file) \in Nat
      /\ LayerInv(state, Len(file)) /\ LayerInv(head, Cached) /\ LayerInv(trx, Base)
    BY DEF FileInv, LayersInv
<1>2. /\ Len(StateLog) = Cached /\ Len(Below) = Base
      /\ Cached \in Nat /\ Base \in Nat
    BY Sizes DEF FileInv
<1>3. \A n \in Nat : 0 + n = n
    OBVIOUS
<1>4. StateLog \in Seq(Cell) /\ Covers(StateLog, StateIndex, 0)
  <2>1. state.log \in Seq(Cell) /\ Covers(state.log, state.last, 0 + Len(file))
      BY <1>1, <1>3 DEF LayerInv
  <2>. QED
      BY <1>1, <2>1, ConcatProperties, CoversConcat DEF StateLog, StateIndex
<1>5. Below \in Seq(Cell) /\ Covers(Below, BelowIndex, 0)
  <2>1. head.log \in Seq(Cell) /\ Covers(head.log, head.last, 0 + Len(StateLog))
      BY <1>1, <1>2, <1>3 DEF LayerInv
  <2>2. /\ StateLog \o head.log \in Seq(Cell)
        /\ Covers(StateLog \o head.log, Above(head.last, StateIndex), 0)
      BY <1>4, <2>1, ConcatProperties, CoversConcat
  <2>. QED
      BY <1>4, <2>2 DEF Below, BelowIndex
<1>6. trx.log \in Seq(Cell) /\ Covers(trx.log, trx.last, 0 + Len(Below))
    BY <1>1, <1>2, <1>3 DEF LayerInv
<1>. QED
    BY <1>5, <1>6, ConcatProperties, CoversConcat DEF Log, Index

(* A lookup through the layers finds the last record that edited its key.  *)
LEMMA LookupProved == FileInv => LookupIsLast
<1>. SUFFICES ASSUME FileInv, ~harmed, step \in {"idle", "apply", "hash"}
              PROVE  /\ DOMAIN Index = {k \in Key : Edits(k) # {}}
                     /\ \A k \in DOMAIN Index : Index[k] = Max(Edits(k))
    BY DEF LookupIsLast
<1>1. Log \in Seq(Cell) /\ Covers(Log, Index, 0)
    BY LogCovered DEF Syncing
<1>2. DOMAIN Log = 1 .. Size
    BY <1>1 DEF Size
<1>3. DOMAIN Index = {k \in Key : Edits(k) # {}}
    BY <1>1, <1>2 DEF Covers, Edits
<1>4. ASSUME NEW k \in DOMAIN Index
      PROVE  Index[k] = Max(Edits(k))
  <2>1. PICK i \in DOMAIN Log : /\ Index[k] = 0 + i /\ k \in Log[i].edits
                                /\ \A j \in DOMAIN Log : k \in Log[j].edits => j <= i
      BY <1>1, <1>4 DEF Covers
  <2>2. /\ Edits(k) \in SUBSET Int /\ i \in Edits(k)
        /\ \A j \in Edits(k) : j <= i
      BY <1>2, <2>1 DEF Edits
  <2>3. Index[k] = i
      BY <1>2, <2>1
  <2>. QED
      BY <2>2, <2>3, MaxIs
<1>. QED
    BY <1>3, <1>4

-----------------------------------------------------------------------------
(***************************************************************************)
(* A transfer is appended to a layer that finds the name whose account it  *)
(* is, and what a layer finds is still found when the layers move down.    *)
(***************************************************************************)
Named(A, B) == \A n, s \in Name : <<n, s>> \in A \cap Account => n \in B

OnState == DOMAIN state.last \cup DOMAIN db
OnHead == DOMAIN head.last \cup OnState
OnBlock == DOMAIN trx.last \cup (IF over = "head" THEN OnHead ELSE OnState)

NamedInv ==
    /\ ~harmed => Named(DOMAIN db, DOMAIN db)
    /\ Named(DOMAIN state.last, OnState)
    /\ Named(DOMAIN head.last, OnHead)
    /\ Named(DOMAIN trx.last, OnBlock)
    /\ step \in Syncing => DOMAIN state.last \subseteq DOMAIN db

(* No name is found through a layer but those it and what is below it have.*)
LEMMA OnBlockIs == DOMAIN Index = OnBlock
<1>1. DOMAIN StateIndex = OnState
    BY Overlay DEF StateIndex, OnState
<1>2. DOMAIN BelowIndex = IF over = "head" THEN OnHead ELSE OnState
    BY <1>1, Overlay DEF BelowIndex, OnHead
<1>3. DOMAIN Index = DOMAIN trx.last \cup DOMAIN BelowIndex
    BY Overlay DEF Index
<1>. QED
    BY <1>2, <1>3 DEF OnBlock

(* What a record adds to a layer's index, and an end_block does not.       *)
LEMMA PushedKeys ==
    ASSUME NEW l, NEW r, NEW p
    PROVE  DOMAIN Pushed(l, r, p).last = r.edits \cup DOMAIN l.last
<1>. DEFINE f == [k \in r.edits |-> p]
<1>1. Pushed(l, r, p).last = Above(f, l.last)
    BY DEF Pushed
<1>2. DOMAIN f = r.edits
    OBVIOUS
<1>. HIDE DEF f
<1>3. DOMAIN Above(f, l.last) = DOMAIN f \cup DOMAIN l.last
    BY Overlay
<1>. QED
    BY <1>1, <1>2, <1>3

(* Nothing is in an empty layer.                                           *)
LEMMA EmptyKeys == DOMAIN EmptyLayer.last = {}
BY DEF EmptyLayer, NoIndex

(* A record of the block.                                                  *)
LEMMA NamedAppend ==
    ASSUME NamedInv, NEW r \in Records, AppendRecord(r)
    PROVE  NamedInv'
<1>1. /\ trx' = Pushed(trx, r, Size + 1)
      /\ UNCHANGED <<db, state, head, over, step, harmed>>
      /\ \A n, s \in Name :
           r = [id |-> "transfer_log", edits |-> {<<n, s>>}] => n \in OnBlock
    BY OnBlockIs DEF AppendRecord, disks
<1>2. DOMAIN trx'.last = r.edits \cup DOMAIN trx.last
    BY <1>1, PushedKeys
<1>3. OnState' = OnState /\ OnHead' = OnHead /\ OnBlock \subseteq OnBlock'
    BY <1>1, <1>2 DEF OnState, OnHead, OnBlock
<1>4. ASSUME NEW n \in Name, NEW s \in Name,
             <<n, s>> \in DOMAIN trx'.last \cap Account
      PROVE  n \in OnBlock'
  <2>1. CASE <<n, s>> \in DOMAIN trx.last
      BY <1>3, <1>4, <2>1 DEF NamedInv, Named
  <2>2. CASE <<n, s>> \in r.edits
    <3>1. r = [id |-> "transfer_log", edits |-> {<<n, s>>}]
        BY <1>4, <2>2, KeyAssumption DEF Records
    <3>. QED
        BY <1>1, <1>3, <3>1
  <2>. QED
      BY <1>2, <1>4, <2>1, <2>2
<1>. QED
    BY <1>1, <1>3, <1>4 DEF NamedInv, Named

(* A block that is dropped, or that becomes the head.                      *)
LEMMA NamedHash ==
    ASSUME NamedInv, step \in {"apply", "hash"}, DropBlock \/ HashMatches
    PROVE  NamedInv'
<1>1. CASE DropBlock
    BY <1>1, EmptyKeys
    DEF DropBlock, disks, NamedInv, Named, OnState, OnHead, OnBlock, Syncing
<1>2. CASE HashMatches
  <2>. DEFINE l == Pushed(trx, EndBlock, Size + 1)
  <2>1. DOMAIN l.last = DOMAIN trx.last
      BY PushedKeys DEF EndBlock
  <2>2. /\ UNCHANGED <<db, state, harmed>>
        /\ \/ /\ over = "head"
              /\ trx' = l /\ step' = "write" /\ UNCHANGED <<head, over>>
           \/ /\ over = "state"
              /\ head' = l /\ trx' = EmptyLayer /\ step' = "idle" /\ over' = "head"
      BY <1>2 DEF HashMatches, disks
  <2>. HIDE DEF l
  <2>. QED
      BY <2>1, <2>2, EmptyKeys
      DEF NamedInv, Named, OnState, OnHead, OnBlock, Syncing
<1>. QED
    BY <1>1, <1>2

(* The cache's index goes to the databases, and the head to the cache.     *)
LEMMA NamedCommit ==
    ASSUME FileInv, NamedInv, Write \/ SyncNames \/ CommitHead
    PROVE  NamedInv'
<1>1. CASE Write
  <2>1. DOMAIN db' = OnState
      BY <1>1, Overlay DEF Write, StateIndex, OnState
  <2>2. UNCHANGED <<state, head, trx, over, harmed>>
      BY <1>1 DEF Write, layers
  <2>. QED
      BY <2>1, <2>2 DEF NamedInv, Named, OnState, OnHead, OnBlock
<1>2. CASE SyncNames
  <2>1. /\ step \in Syncing /\ step' \notin Syncing /\ state' = EmptyLayer
        /\ UNCHANGED <<db, head, trx, over, harmed>>
      BY <1>2 DEF SyncNames, Syncing
  <2>2. OnState' = OnState
      BY <2>1, EmptyKeys DEF NamedInv, OnState
  <2>. QED
      BY <2>1, <2>2, EmptyKeys DEF NamedInv, Named, OnHead, OnBlock
<1>3. CASE CommitHead
  <2>1. /\ state' = Joined(state, head) /\ head' = trx /\ trx' = EmptyLayer
        /\ step' \notin Syncing /\ UNCHANGED <<db, over, harmed>>
        /\ step = "committed"
      BY <1>3 DEF CommitHead, disks, Syncing
  <2>2. over = "head"
      BY <2>1 DEF FileInv, StepInv, Committing
  <2>3. DOMAIN state'.last = DOMAIN head.last \cup DOMAIN state.last
    <3>1. Joined(state, head).last = Above(head.last, state.last)
        BY DEF Joined
    <3>. QED
        BY <2>1, <3>1, Overlay
  <2>4. OnState' = OnHead /\ OnHead' = OnBlock /\ OnBlock' = OnBlock
      BY <2>1, <2>2, <2>3, EmptyKeys DEF OnState, OnHead, OnBlock
  <2>. QED
      BY <2>1, <2>3, <2>4, EmptyKeys DEF NamedInv, Named, OnState, OnHead
<1>. QED
    BY <1>1, <1>2, <1>3

(* After opening there is only what the databases have.                    *)
LEMMA NamedOpened ==
    ASSUME NamedInv, Restart \/ Crash
    PROVE  NamedInv'
<1>1. /\ state' = EmptyLayer /\ head' = EmptyLayer /\ trx' = EmptyLayer
      /\ step' = "idle"
    BY DEF Restart, Crash, Opened
<1>2. ~harmed' => ~harmed /\ db' = db
    BY DEF Restart, Crash
<1>. QED
    BY <1>1, <1>2, EmptyKeys DEF NamedInv, Named, Syncing

(* Every account that a layer's index has is of a name that is found       *)
(* through the layer.                                                      *)
LEMMA NamedAlways == Spec => []NamedInv
<1>1. Init => NamedInv
    BY EmptyKeys DEF Init, NoIndex, NamedInv, Named, Syncing
<1>2. ASSUME FileInv, NamedInv, [Next]_vars
      PROVE  NamedInv'
  <2>1. ASSUME UNCHANGED <<db, state, head, trx, harmed>>,
               \/ UNCHANGED over
               \/ trx = EmptyLayer,
               step' \in Syncing => step \in Syncing
        PROVE  NamedInv'
      BY <1>2, <2>1, EmptyKeys DEF NamedInv, Named, OnState, OnHead, OnBlock
  <2>2. CASE \E r \in Records : AppendRecord(r)
      BY <1>2, <2>2, NamedAppend
  <2>3. CASE CommandFails \/ HashDiffers \/ HashMatches
      BY <1>2, <2>3, NamedHash DEF CommandFails, HashDiffers, HashMatches, Hashed
  <2>4. CASE Write \/ SyncNames \/ CommitHead
      BY <1>2, <2>4, NamedCommit
  <2>5. CASE Restart \/ Crash
      BY <1>2, <2>5, NamedOpened
  <2>6. CASE \E u \in {"head", "state"} : BeginBlock(u)
    <3>1. trx = EmptyLayer
        BY <1>2, <2>6 DEF FileInv, StepInv, BeginBlock
    <3>. QED
        BY <2>1, <2>6, <3>1 DEF BeginBlock, disks, Syncing
  <2>7. CASE \E k \in Key : Look(k)
      BY <2>1, <2>7 DEF Look, layers
  <2>8. CASE BeginHash \/ HashChunk
      BY <2>1, <2>8 DEF BeginHash, HashChunk, Reads, layers, Syncing
  <2>9. CASE NothingToWrite \/ SyncTransfers \/ Added
      BY <2>1, <2>9 DEF NothingToWrite, SyncTransfers, Added, disks, layers, Syncing
  <2>10. CASE UNCHANGED vars
      BY <2>1, <2>10 DEF vars, disks, layers
  <2>. QED
      BY <1>2, <2>2, <2>3, <2>4, <2>5, <2>6, <2>7, <2>8, <2>9, <2>10 DEF Next
<1>. QED
    BY <1>1, <1>2, FileAlways, PTL DEF Spec

-----------------------------------------------------------------------------
(* The names of a layer that are new to it, with those of what is below    *)
(* it, are those of both, each once.                                       *)
LEMMA NewNamesCount ==
    ASSUME NEW l, NEW f, IndexOK(l.last), IndexOK(f)
    PROVE  Cardinality(DOMAIN f \cap Name) + Cardinality(NewNames(l, f))
             = Cardinality(DOMAIN Above(l.last, f) \cap Name)
<1>. DEFINE A == DOMAIN f \cap Name
            B == NewNames(l, f)
<1>1. B \subseteq DOMAIN l.last
    BY DEF NewNames
<1>2. IsFiniteSet(A) /\ IsFiniteSet(B)
    BY <1>1, FS_Subset DEF IndexOK
<1>3. A \cup B = DOMAIN Above(l.last, f) \cap Name
  <2>1. DOMAIN Above(l.last, f) = DOMAIN l.last \cup DOMAIN f
      BY Overlay
  <2>. QED
      BY <2>1 DEF NewNames
<1>4. A \cap B = {}
    BY DEF NewNames
<1>5. Cardinality(A \cup B) = Cardinality(A) + Cardinality(B)
  <2>. HIDE DEF A, B
  <2>1. /\ Cardinality(A \cup B) =
              Cardinality(A) + Cardinality(B) - Cardinality(A \cap B)
        /\ Cardinality(A) \in Nat /\ Cardinality(B) \in Nat
        /\ Cardinality(A \cap B) = 0
      BY <1>2, <1>4, FS_Union, FS_CardinalityType, FS_EmptySet
  <2>. QED
      BY <2>1
<1>. QED
    BY <1>3, <1>5

(* name_count, from the file up.                                           *)
LEMMA NamesCounted ==
    ASSUME FileInv
    PROVE  name_count = Cardinality(DOMAIN Index \cap Name)
<1>1. /\ IndexOK(db) /\ IndexOK(state.last) /\ IndexOK(head.last)
      /\ IndexOK(trx.last)
    BY DEF FileInv, LayersInv, LayerInv
<1>2. IndexOK(StateIndex) /\ IndexOK(BelowIndex)
  <2>1. IndexOK(StateIndex)
      BY <1>1, OverlayOK DEF StateIndex
  <2>. QED
      BY <1>1, <2>1, OverlayOK DEF BelowIndex
<1>3. Cardinality(NamesOnFile) + Cardinality(NewNames(state, db))
        = Cardinality(DOMAIN StateIndex \cap Name)
    BY <1>1, NewNamesCount DEF StateIndex, NamesOnFile
<1>4. Cardinality(DOMAIN StateIndex \cap Name)
        + (IF over = "head" THEN Cardinality(NewNames(head, StateIndex)) ELSE 0)
        = Cardinality(DOMAIN BelowIndex \cap Name)
  <2>1. CASE over = "head"
      BY <1>1, <1>2, <2>1, NewNamesCount DEF BelowIndex
  <2>2. CASE over # "head"
    <3>1. IsFiniteSet(DOMAIN StateIndex \cap Name)
        BY <1>2, FS_Subset DEF IndexOK
    <3>2. Cardinality(DOMAIN StateIndex \cap Name) \in Nat
        BY <3>1, FS_CardinalityType
    <3>. QED
        BY <2>2, <3>2 DEF BelowIndex
  <2>. QED
      BY <2>1, <2>2
<1>5. Cardinality(DOMAIN BelowIndex \cap Name) + Cardinality(NewNames(trx, BelowIndex))
        = Cardinality(DOMAIN Index \cap Name)
    BY <1>1, <1>2, NewNamesCount DEF Index
<1>. QED
    BY <1>3, <1>4, <1>5 DEF name_count

(* query_names, the count of names and the contents of an account list     *)
(* what the log holds, once each: a layer that does not find a name has    *)
(* none of its accounts.                                                   *)
LEMMA ListsProved == FileInv /\ NamedInv => ListsAgree
<1>. SUFFICES ASSUME FileInv, NamedInv, ~harmed, step \in {"idle", "apply", "hash"}
              PROVE  /\ query_names = {n \in Name : Edits(n) # {}}
                     /\ name_count = Cardinality(query_names)
                     /\ \A n \in Name : get_account_contents(n)
                          = {s \in Name : <<n, s>> \in Account /\ Edits(<<n, s>>) # {}}
    BY DEF ListsAgree
<1>1. DOMAIN Index = {k \in Key : Edits(k) # {}}
    BY LookupProved DEF LookupIsLast
<1>2. query_names = DOMAIN Index \cap Name
    BY Overlay DEF query_names, Index
<1>3. query_names = {n \in Name : Edits(n) # {}}
    BY <1>1, <1>2 DEF Key
<1>4. name_count = Cardinality(query_names)
    BY <1>2, NamesCounted
<1>5. /\ DOMAIN StateIndex = OnState
      /\ DOMAIN BelowIndex = IF over = "head" THEN OnHead ELSE OnState
      /\ DOMAIN Index = DOMAIN trx.last \cup DOMAIN BelowIndex
      /\ DOMAIN Index = OnBlock
  <2>1. DOMAIN StateIndex = OnState
      BY Overlay DEF StateIndex, OnState
  <2>2. DOMAIN Above(head.last, StateIndex) = OnHead
      BY <2>1, Overlay DEF OnHead
  <2>. QED
      BY <2>1, <2>2, OnBlockIs, Overlay DEF BelowIndex, Index
<1>6. ASSUME NEW n \in Name, NEW s \in Name
      PROVE  s \in get_account_contents(n)
               <=> <<n, s>> \in Account /\ Edits(<<n, s>>) # {}
  <2>1. <<n, s>> \in DOMAIN Index \cap Account
          <=> <<n, s>> \in Account /\ Edits(<<n, s>>) # {}
      BY <1>1 DEF Key
  <2>2. ASSUME s \in get_account_contents(n)
        PROVE  <<n, s>> \in DOMAIN Index \cap Account
      BY <1>5, <2>2 DEF get_account_contents, Listed, OnState, OnHead
  <2>3. ASSUME <<n, s>> \in DOMAIN Index \cap Account
        PROVE  s \in get_account_contents(n)
    <3>1. CASE <<n, s>> \in DOMAIN db
      <4>1. n \in DOMAIN StateIndex
          BY <1>5, <2>3, <3>1 DEF NamedInv, Named, OnState
      <4>2. s \in Listed(n, db, StateIndex)
          BY <2>3, <3>1, <4>1 DEF Listed
      <4>. QED
          BY <4>2 DEF get_account_contents
    <3>2. CASE <<n, s>> \in DOMAIN state.last
      <4>1. n \in DOMAIN StateIndex
          BY <1>5, <2>3, <3>2 DEF NamedInv, Named
      <4>2. s \in Listed(n, state.last, StateIndex)
          BY <2>3, <3>2, <4>1 DEF Listed
      <4>. QED
          BY <4>2 DEF get_account_contents
    <3>3. CASE over = "head" /\ <<n, s>> \in DOMAIN head.last
      <4>1. n \in DOMAIN BelowIndex
          BY <1>5, <2>3, <3>3 DEF NamedInv, Named
      <4>2. s \in Listed(n, head.last, BelowIndex)
          BY <2>3, <3>3, <4>1 DEF Listed
      <4>. QED
          BY <3>3, <4>2 DEF get_account_contents
    <3>4. CASE <<n, s>> \in DOMAIN trx.last
      <4>1. n \in DOMAIN Index
          BY <1>5, <2>3, <3>4 DEF NamedInv, Named
      <4>2. s \in Listed(n, trx.last, Index)
          BY <2>3, <3>4, <4>1 DEF Listed
      <4>. QED
          BY <4>2 DEF get_account_contents
    <3>. QED
        BY <1>5, <2>3, <3>1, <3>2, <3>3, <3>4 DEF OnState, OnHead
  <2>. QED
      BY <2>1, <2>2, <2>3
<1>7. \A n \in Name : get_account_contents(n) \subseteq Name
    BY DEF get_account_contents, Listed
<1>. QED
    BY <1>3, <1>4, <1>6, <1>7

-----------------------------------------------------------------------------
(* The records of the file end with their own positions, so that the walk  *)
(* back from the last passes every record.  Its value is known for each    *)
(* position, which shows that it is defined; that it has this value is     *)
(* shown for the least position where it would not.                        *)
LEMMA LastBlockProved == FileInv => LastBlockIsFound
<1>. SUFFICES ASSUME FileInv PROVE LastBlockIsFound
    OBVIOUS
<1>. DEFINE D == 0 .. Len(file)
            ends == {i \in DOMAIN file : file[i].id = "end_block"}
            upto(p) == {i \in ends : i <= p}
            last == [p \in D |-> IF upto(p) = {} THEN None ELSE Max(upto(p))]
            Step(w, p) == IF p = 0 THEN None
                          ELSE IF file[p].id = "end_block" THEN p
                          ELSE w[file[p].previous - 1]
            walk == CHOOSE w : w = [p \in D |-> Step(w, p)]
            less == OpToRel(<, Nat)
<1>1. /\ file \in Seq(Cell) /\ Len(file) \in Nat /\ DOMAIN file = 1 .. Len(file)
      /\ \A i \in DOMAIN file : file[i].previous = i
  <2>1. file \in Seq(Cell) /\ Numbered(file, 0)
      BY DEF FileInv, LayersInv
  <2>. QED
      BY <2>1 DEF Numbered
<1>2. \A p \in D : p # 0 => p \in DOMAIN file /\ file[p].previous - 1 = p - 1
                             /\ p - 1 \in D
    BY <1>1
<1>3. ends \subseteq 1 .. Len(file)
    BY <1>1
<1>4. ASSUME NEW p \in D
      PROVE  last[p] = Step(last, p)
  <2>1. CASE p = 0
    <3>1. upto(p) = {}
        BY <1>3, <2>1
    <3>. QED
        BY <2>1, <3>1
  <2>2. CASE p # 0 /\ file[p].id = "end_block"
    <3>1. p \in upto(p) /\ upto(p) \in SUBSET Int /\ \A i \in upto(p) : i <= p
        BY <1>2, <1>3, <2>2
    <3>. HIDE DEF upto
    <3>2. Max(upto(p)) = p
        BY <3>1, MaxIs
    <3>. QED
        BY <2>2, <3>1, <3>2
  <2>3. CASE p # 0 /\ file[p].id # "end_block"
    <3>1. upto(p) = upto(p - 1)
      <4>1. p \notin ends
          BY <2>3
      <4>2. \A i \in ends : i <= p <=> i <= p - 1
        <5>1. ASSUME NEW i \in ends PROVE i <= p <=> i <= p - 1
          <6>1. i # p /\ i \in Int /\ p \in Int
              BY <1>3, <4>1
          <6>. QED
              BY <6>1
        <5>. QED
            BY <5>1
      <4>. QED
          BY <4>2
    <3>2. p - 1 \in D /\ Step(last, p) = last[p - 1]
        BY <1>2, <2>3
    <3>. HIDE DEF upto
    <3>. QED
        BY <3>1, <3>2
  <2>. QED
      BY <2>1, <2>2, <2>3
<1>5. last = [p \in D |-> Step(last, p)]
  <2>. HIDE DEF Step, upto
  <2>. QED
      BY <1>4
<1>6. walk = [p \in D |-> Step(walk, p)]
  <2>. HIDE DEF Step, last
  <2>. QED
      BY <1>5
<1>7. \A p \in D : walk[p] = last[p]
  <2>. DEFINE T == {p \in D : walk[p] # last[p]}
  <2>. SUFFICES ASSUME T # {} PROVE FALSE
      OBVIOUS
  <2>1. T \subseteq Nat
      OBVIOUS
  <2>2. IsWellFoundedOn(less, Nat)
      BY NatLessThanWellFounded
  <2>3. \A x, y \in Nat : x < y => <<x, y>> \in less
      BY DEF OpToRel
  <2>. HIDE DEF T, less
  <2>4. PICK p \in T : \A x \in T : <<x, p>> \notin less
      BY <2>1, <2>2, WFMin
  <2>. USE DEF T
  <2>5. p # 0 => walk[p - 1] = last[p - 1]
    <3>1. SUFFICES ASSUME p # 0 PROVE p - 1 \notin T
        BY <1>2
    <3>2. p - 1 \in Nat /\ p \in Nat /\ p - 1 < p
        BY <2>1, <3>1
    <3>3. <<p - 1, p>> \in less
        BY <2>3, <3>2
    <3>. QED
        BY <2>4, <3>3
  <2>6. Step(walk, p) = Step(last, p)
    <3>. HIDE DEF walk, last
    <3>. QED
        BY <1>2, <2>5
  <2>7. walk[p] = Step(walk, p)
    <3>. HIDE DEF walk, Step
    <3>. QED
        BY <1>6
  <2>. HIDE DEF walk, last, Step
  <2>. QED
      BY <1>4, <2>6, <2>7
<1>8. find_last_block = walk[IF file = << >> THEN 0 ELSE Last(file).previous]
    BY DEF find_last_block
<1>9. (IF file = << >> THEN 0 ELSE Last(file).previous) = Len(file)
    BY <1>1 DEF Last
<1>10. find_last_block = last[Len(file)]
  <2>. HIDE DEF walk, last
  <2>. QED
      BY <1>1, <1>7, <1>8, <1>9
<1>11. upto(Len(file)) = ends
    BY <1>3
<1>12. find_last_block = IF ends = {} THEN None ELSE Max(ends)
  <2>1. last[Len(file)] = IF ends = {} THEN None ELSE Max(ends)
    <3>1. Len(file) \in D
        BY <1>1
    <3>. HIDE DEF ends, upto
    <3>2. last[Len(file)] = IF upto(Len(file)) = {} THEN None
                            ELSE Max(upto(Len(file)))
        BY <3>1
    <3>. QED
        BY <1>11, <3>2
  <2>. HIDE DEF last, ends
  <2>. QED
      BY <1>10, <2>1
<1>. QED
    BY <1>12 DEF LastBlockIsFound

(* Whatever layers a name's or an account's records are in, and wherever   *)
(* restarts cut the head off: a lookup finds the last of them, lists and   *)
(* counts have each once, and the last block on file is found, even after  *)
(* a crash.                                                                *)
THEOREM FileIsSound == Spec => []FileSound
<1>1. FileInv /\ NamedInv => FileSound
    BY FileTyped, LookupProved, ListsProved, LastBlockProved DEF FileSound
<1>. QED
    BY <1>1, FileAlways, NamedAlways, PTL

=============================================================================
