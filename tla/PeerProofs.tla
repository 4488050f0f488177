----------------------------- MODULE PeerProofs -----------------------------
(***************************************************************************)
(* Between peers.  Whatever the files, their lengths and the connections,  *)
(* a node of the block store that holds a metafile holds the blocks it     *)
(* lists, and a file is fetched and exported in order.                     *)
(***************************************************************************)
EXTENDS BitBlocks, SequenceTheorems, TLAPS

(***************************************************************************)
(* Types.                                                                  *)
(***************************************************************************)
OutMsg == [id : {"store_block"}, block : Data]
            \cup [id : {"request_block"}, req : Nat, block : Data]
InMsg == [id : {"report_block"}, req : Nat, data : Data]

ImportCall == [op : {"import"}, file : File, len : 0 .. Word - 1, at : Nat,
               state : {"cutting", "ok"}]
ExportCall == [op : {"export"}, file : File, state : {"ok"}, wrote : Seq(Data)]
UploadCall == [op : {"upload"}, file : File, len : 0 .. Word - 1, at : Nat,
               on : Peer, state : {"writing", "last", "ok", "error"}]
DownloadCall == [op : {"download"}, file : File, at : Nat, wrote : Seq(Data),
                 state : {"waiting", "ok"}]

TypeInv ==
    /\ store \in [Node -> SUBSET Data]
    /\ conns \in Seq(Peer) /\ IsInjective(conns)
    /\ link \in [Peer -> {"none", "up", "broken"}]
    /\ out \in [Peer -> Seq(OutMsg)] /\ in \in [Peer -> Seq(InMsg)]
    /\ requests \in [Peer -> SUBSET [req : Nat, job : Job]]
    /\ next_req_id \in [Peer -> Nat]
    /\ job \in [Job -> {Idle} \cup ImportCall \cup ExportCall \cup UploadCall
                         \cup DownloadCall]
    /\ dead \in {"no", "no connection", "no metafile"}

(* Whoever is in m_connections was connected.                              *)
ConnInv == \A i \in 1 .. Len(conns) : link[conns[i]] # "none"

(* How far a file is cut: what is left of it, nothing, or, of one that does*)
(* not fill its last pad, a rest below zero that is never cut again.       *)
CutAt(f, at, len) ==
    \/ at * BlockSize + len = Size[f]
    \/ at = LastBlock(f) /\ (len = 0 \/ Word - Pad < len)

FirstBlocks(f, n) == {Block(f, k) : k \in 1 .. n}

ImportInv ==
    \A j \in Job : job[j].op = "import" =>
        /\ CutAt(job[j].file, job[j].at, job[j].len)
        /\ FirstBlocks(job[j].file, job[j].at) \subseteq store[Me]

UploadInv ==
    \A j \in Job : job[j].op = "upload" =>
        /\ CutAt(job[j].file, job[j].at, job[j].len)
        /\ job[j].state \in {"last", "ok"} => job[j].len = 0

(* A peer that holds the blocks S has b once it has handled the first n of *)
(* the messages q to it.                                                   *)
Arrives(S, q, n, b) == b \in S \/ \E i \in 1 .. n : q[i] = StoreBlock(b)

AllArrive(S, q, n, B) == \A b \in B : Arrives(S, q, n, b)

(* An upload's blocks have been sent, and at its end the metafile.         *)
HasSent(S, q, d) ==
    /\ AllArrive(S, q, Len(q), FirstBlocks(d.file, d.at))
    /\ d.state \in {"last", "ok"} => Arrives(S, q, Len(q), Meta(d.file))

(* A metafile is sent, and held, after the blocks it lists.                *)
InOrder(S, q) ==
    \A i \in 1 .. Len(q) : \A f \in File :
        q[i] = StoreBlock(Meta(f)) => AllArrive(S, q, i - 1, BlocksOf(f))

Listed(S) == \A f \in File : Meta(f) \in S => BlocksOf(f) \subseteq S

(* While no connection breaks, all that is uploaded goes to the first peer *)
(* there was.                                                              *)
UpInv ==
    NoneBroken =>
        \A j \in Job : job[j].op = "upload" =>
            /\ conns # << >> /\ job[j].on = Head(conns)
            /\ HasSent(store[job[j].on], out[job[j].on], job[j])

SentInv ==
    NoneBroken => \A p \in Peer : InOrder(store[p], out[p]) /\ Listed(store[p])

(* What a peer held, it holds.                                             *)
HeldInv == \A p \in Peer : \A f \in Holds[p] : Whole(f) \subseteq store[p]

HeldByAll(f) == \A p \in Peer : f \in Holds[p]

(* The block a download waits for, and what it may be given: of a block the*)
(* peer did not hold, no bytes.                                            *)
Wanted(d) == IF d.at = 0 THEN Meta(d.file) ELSE Block(d.file, d.at)

Answer(d, data) == data = Wanted(d) \/ (data = Nothing /\ ~HeldByAll(d.file))

Waits(d) == d.op = "download" /\ d.state = "waiting"

WaitInv ==
    \A p \in Peer : \A r \in requests[p] :
        /\ r.req <= next_req_id[p] /\ Waits(job[r.job])
        /\ \A m \in ToSet(out[p]) :
             m.id = "request_block" /\ m.req = r.req => m.block = Wanted(job[r.job])
        /\ \A m \in ToSet(in[p]) :
             m.req = r.req => Answer(job[r.job], m.data)

(* A download waits for one request, and each has a number of its own.     *)
OneInv ==
    \A p, q \in Peer : \A r \in requests[p] : \A s \in requests[q] :
        /\ r.job = s.job => p = q /\ r = s
        /\ p = q /\ r.req = s.req => r = s

NumberInv ==
    \A p \in Peer :
        /\ \A m \in ToSet(out[p]) :
             m.id = "request_block" => m.req <= next_req_id[p]
        /\ \A m \in ToSet(in[p]) : m.req <= next_req_id[p]
        /\ \A r \in requests[p] : r.req > 0

(* What a download has written are blocks before the one it waits for; none*)
(* is left out if every peer held them.                                    *)
Fetched(d) ==
    /\ d.at \in 0 .. LastBlock(d.file)
    /\ \A k \in 1 .. Len(d.wrote) :
         /\ d.wrote[k] \in BlocksOf(d.file)
         /\ d.wrote[k][2] <= d.at
         /\ d.state = "waiting" => d.wrote[k][2] < d.at
    /\ \A k, l \in 1 .. Len(d.wrote) : k < l => d.wrote[k][2] < d.wrote[l][2]
    /\ HeldByAll(d.file) =>
         Len(d.wrote) = IF d.at = 0 \/ d.state = "ok" THEN d.at ELSE d.at - 1
    /\ d.state = "ok" => d.at = LastBlock(d.file)

DownloadInv == \A j \in Job : job[j].op = "download" => Fetched(job[j])

BlocksInv ==
    /\ TypeInv /\ ConnInv /\ ImportInv /\ UploadInv /\ UpInv /\ SentInv
    /\ HeldInv /\ WaitInv /\ OneInv /\ NumberInv /\ DownloadInv
    /\ ListedIsHeld /\ ExportedWhole

-----------------------------------------------------------------------------
(* Numbers of blocks: fewer bytes than one more block make no more blocks. *)
LEMMA TimesLess ==
    ASSUME NEW a \in Nat, NEW b \in Nat, NEW n \in Nat \ {0}, a * n < b * n + n
    PROVE  a <= b
<1>. SUFFICES ASSUME a > b PROVE FALSE
    OBVIOUS
<1>1. PICK d \in Nat : a = b + 1 + d
  <2>1. a - b - 1 \in Nat /\ a = b + 1 + (a - b - 1)
      OBVIOUS
  <2>. QED
      BY <2>1
<1>2. a * n = b * n + n + d * n /\ d * n \in Nat
    BY <1>1
<1>3. a * n \in Nat /\ b * n \in Nat
    OBVIOUS
<1>. QED
    BY <1>2, <1>3

(* The blocks of a file are as many as it takes to hold its bytes.         *)
LEMMA LastBlockIs ==
    ASSUME NEW f \in File
    PROVE  /\ LastBlock(f) \in Nat /\ LastBlock(f) * BlockSize \in Nat
           /\ Size[f] <= LastBlock(f) * BlockSize
           /\ LastBlock(f) * BlockSize < Size[f] + BlockSize
<1>1. PICK s \in Nat : s = Size[f]
    BY SizeAssumption
<1>2. PICK n \in Nat \ {0} : n = BlockSize
    BY SizeAssumption
<1>3. PICK x \in Nat : x = s + n - 1
  <2>1. s + n - 1 \in Nat
      OBVIOUS
  <2>. QED
      BY <2>1
<1>4. x \div n \in Nat /\ (x \div n) * n \in Nat /\ (x \div n) * n <= x /\ x < (x \div n) * n + n
    OBVIOUS
<1>5. LastBlock(f) = x \div n
    BY <1>1, <1>2, <1>3 DEF LastBlock
<1>. QED
    BY <1>1, <1>2, <1>3, <1>4, <1>5

(* A file of n blocks and less than another has n or n + 1 blocks.         *)
LEMMA LastBlockOf ==
    ASSUME NEW f \in File, NEW n \in Nat, NEW r \in Nat, r <= BlockSize,
           n * BlockSize + r = Size[f]
    PROVE  LastBlock(f) = IF r = 0 THEN n ELSE n + 1
<1>1. BlockSize \in Nat \ {0} /\ Size[f] \in Nat
    BY SizeAssumption
<1>2. PICK l \in Nat : l = LastBlock(f) /\ Size[f] <= l * BlockSize
                       /\ l * BlockSize < Size[f] + BlockSize
    BY LastBlockIs
<1>3. n * BlockSize \in Nat /\ l * BlockSize \in Nat
      /\ (n + 1) * BlockSize = n * BlockSize + BlockSize
    BY <1>1
<1>4. CASE r = 0
  <2>1. l <= n
      BY <1>1, <1>2, <1>3, <1>4, TimesLess
  <2>2. n <= l
      BY <1>1, <1>2, <1>3, <1>4, TimesLess
  <2>. QED
      BY <1>2, <1>4, <2>1, <2>2
<1>5. CASE r # 0
  <2>1. l <= n + 1
    <3>1. l * BlockSize < (n + 1) * BlockSize + BlockSize
        BY <1>1, <1>2, <1>3
    <3>. QED
        BY <1>1, <3>1, TimesLess
  <2>2. n <= l /\ n # l
    <3>1. n * BlockSize < l * BlockSize
        BY <1>1, <1>2, <1>3, <1>5
    <3>2. n * BlockSize < l * BlockSize + BlockSize
        BY <1>1, <1>3, <3>1
    <3>. QED
        BY <1>1, <1>3, <3>1, <3>2, TimesLess
  <2>. QED
      BY <1>2, <1>5, <2>1, <2>2
<1>. QED
    BY <1>4, <1>5

(* The smaller of two numbers.                                             *)
LEMMA MinOfTwo ==
    ASSUME NEW a \in Nat, NEW b \in Nat
    PROVE  Min({a, b}) = IF a <= b THEN a ELSE b
BY DEF Min

(* What is left of a number below a modulus, and of one once over it.      *)
LEMMA ModIs ==
    ASSUME NEW n \in Nat \ {0}, NEW x \in Nat
    PROVE  /\ x < n => x % n = x
           /\ n <= x /\ x < n + n => x % n = x - n
<1>1. PICK q \in Nat : q = x \div n
    OBVIOUS
<1>2. x = n * q + (x % n) /\ x % n \in 0 .. n - 1
    BY <1>1
<1>3. q = 0 \/ q = 1 \/ \E d \in Nat : q = d + 2
  <2>1. q - 2 \in Nat \/ q = 0 \/ q = 1
      OBVIOUS
  <2>2. q = (q - 2) + 2
      OBVIOUS
  <2>. QED
      BY <2>1, <2>2
<1>4. CASE q = 0
    BY <1>2, <1>4
<1>5. CASE q = 1
    BY <1>2, <1>5
<1>6. ASSUME NEW d \in Nat, q = d + 2 PROVE x >= n + n
  <2>1. n * q = n * d + n + n /\ n * d \in Nat
      BY <1>6
  <2>. QED
      BY <1>2, <2>1
<1>. QED
    BY <1>3, <1>4, <1>5, <1>6

(* The whole pads of a number of bytes.                                    *)
LEMMA PadsIs ==
    ASSUME NEW x \in Nat
    PROVE  /\ (x \div Pad) * Pad \in Nat /\ (x \div Pad) * Pad <= x
           /\ x < (x \div Pad) * Pad + Pad
           /\ x < Pad => (x \div Pad) * Pad = 0
<1>1. PICK n \in Nat \ {0} : n = Pad
    BY SizeAssumption
<1>2. PICK q \in Nat : q = x \div n
    OBVIOUS
<1>3. q * n \in Nat /\ q * n <= x /\ x < q * n + n
    BY <1>2
<1>4. ASSUME x < n PROVE q = 0
    BY <1>2, <1>4
<1>5. q = 0 => q * n = 0
    OBVIOUS
<1>. QED
    BY <1>1, <1>2, <1>3, <1>4, <1>5

(* The sizes a file is cut by.                                             *)
LEMMA Sizes ==
    ASSUME NEW f \in File
    PROVE  /\ Pad \in Nat \ {0} /\ BlockSize \in Nat \ {0} /\ Word \in Nat \ {0}
           /\ Pad <= BlockSize /\ Size[f] \in Nat /\ Size[f] + BlockSize < Word
<1>1. /\ Pad \in Nat \ {0} /\ BlockSize \in Nat \ {0} /\ BlockSize % Pad = 0
      /\ Word \in Nat /\ Size[f] \in Nat /\ Size[f] + BlockSize < Word
    BY SizeAssumption
<1>2. Word # 0
    BY <1>1
<1>3. ASSUME BlockSize < Pad PROVE FALSE
    BY <1>1, <1>3, ModIs
<1>. QED
    BY <1>1, <1>2, <1>3

(* The next block is a full one, or what is left, padded; of a rest below  *)
(* zero it is empty.                                                       *)
LEMMA BlockOfIs ==
    ASSUME NEW f \in File, NEW len \in 0 .. Word - 1
    PROVE  /\ BlockOf(len) \in 0 .. BlockSize
           /\ len <= Size[f] /\ len >= BlockSize => BlockOf(len) = BlockSize
           /\ len <= Size[f] /\ len > 0 /\ len < BlockSize =>
                len <= BlockOf(len) /\ BlockOf(len) < len + Pad
           /\ Word - Pad < len => BlockOf(len) = 0
<1>1. /\ Pad \in Nat \ {0} /\ BlockSize \in Nat \ {0} /\ Word \in Nat \ {0}
      /\ Pad <= BlockSize /\ Size[f] \in Nat /\ Size[f] + BlockSize < Word
    BY Sizes
<1>2. PICK x \in Nat : x = len + Pad - 1
  <2>1. len + Pad - 1 \in Nat
      BY <1>1
  <2>. QED
      BY <2>1
<1>3. PICK y \in Nat : y = x % Word
    BY <1>1
<1>4. PICK s \in Nat : s = (y \div Pad) * Pad /\ s <= y /\ y < s + Pad
                       /\ (y < Pad => s = 0)
    BY PadsIs
<1>5. BlockOf(len) = IF BlockSize <= s THEN BlockSize ELSE s
  <2>1. BlockOf(len) = Min({BlockSize, s})
      BY <1>2, <1>3, <1>4 DEF BlockOf
  <2>. QED
      BY <1>1, <2>1, MinOfTwo
<1>6. CASE x < Word
  <2>1. y = x
      BY <1>1, <1>3, <1>6, ModIs
  <2>. QED
      BY <1>1, <1>2, <1>4, <1>5, <1>6, <2>1
<1>7. CASE x >= Word
  <2>1. y = x - Word
    <3>1. Word <= x /\ x < Word + Word
        BY <1>1, <1>2, <1>7
    <3>. QED
        BY <1>1, <1>3, <3>1, ModIs
  <2>2. y < Pad
      BY <1>1, <1>2, <1>7, <2>1
  <2>. QED
      BY <1>1, <1>2, <1>4, <1>5, <1>7, <2>2
<1>. QED
    BY <1>1, <1>2, <1>6, <1>7

(* A file is cut from its beginning to its last block, and no further.     *)
LEMMA CutStarts ==
    ASSUME NEW f \in File
    PROVE  Size[f] \in 0 .. Word - 1 /\ CutAt(f, 0, Size[f])
BY Sizes DEF CutAt

(* When nothing is left to send or import, at is the file's last block.    *)
LEMMA CutEnds ==
    ASSUME NEW f \in File, NEW at \in Nat, CutAt(f, at, 0)
    PROVE  at = LastBlock(f)
<1>1. at * BlockSize \in Nat /\ Size[f] \in Nat
    BY Sizes
<1>2. CASE at * BlockSize + 0 = Size[f]
    BY <1>1, <1>2, Sizes, LastBlockOf
<1>. QED
    BY <1>2, Sizes DEF CutAt

(* The cut goes on with the next block until nothing is left of the file.  *)
LEMMA CutGoesOn ==
    ASSUME NEW f \in File, NEW at \in Nat, NEW len \in 0 .. Word - 1, len > 0,
           CutAt(f, at, len)
    PROVE  LET k == IF BlockOf(len) > 0 THEN at + 1 ELSE at
           IN /\ Rest(len) \in 0 .. Word - 1 /\ CutAt(f, k, Rest(len))
              /\ k \in Nat /\ k <= LastBlock(f)
<1>1. /\ Pad \in Nat \ {0} /\ BlockSize \in Nat \ {0} /\ Word \in Nat \ {0}
      /\ Pad <= BlockSize /\ Size[f] \in Nat /\ Size[f] + BlockSize < Word
    BY Sizes
<1>2. PICK b \in 0 .. BlockSize :
          /\ b = BlockOf(len)
          /\ len <= Size[f] /\ len >= BlockSize => b = BlockSize
          /\ len <= Size[f] /\ len < BlockSize => len <= b /\ b < len + Pad
          /\ Word - Pad < len => b = 0
    BY BlockOfIs
<1>3. Rest(len) = (len - b) % Word /\ LastBlock(f) \in Nat
    BY <1>2, LastBlockIs DEF Rest
<1>4. CASE at * BlockSize + len = Size[f]
  <2>0. at * BlockSize \in Nat /\ (at + 1) * BlockSize = at * BlockSize + BlockSize
      BY <1>1
  <2>1. len <= Size[f]
      BY <1>1, <1>4, <2>0
  <2>2. CASE len >= BlockSize
    <3>1. b = BlockSize /\ len - b \in Nat /\ len - b < Word
        BY <1>1, <1>2, <2>1, <2>2
    <3>2. Rest(len) = len - b
        BY <1>1, <1>3, <3>1, ModIs
    <3>3. (at + 1) * BlockSize + (len - b) = Size[f]
        BY <1>1, <1>4, <2>0, <3>1
    <3>4. at + 1 <= LastBlock(f)
      <4>1. (at + 1) * BlockSize < LastBlock(f) * BlockSize + BlockSize
          BY <1>1, <2>0, <3>1, <3>3, LastBlockIs
      <4>. QED
          BY <1>1, <1>3, <4>1, TimesLess
    <3>. QED
        BY <1>1, <1>2, <3>1, <3>2, <3>3, <3>4 DEF CutAt
  <2>3. CASE len < BlockSize
    <3>1. len <= b /\ b < len + Pad /\ b > 0
        BY <1>1, <1>2, <2>1, <2>3
    <3>2. LastBlock(f) = at + 1
        BY <1>1, <1>4, <2>3, LastBlockOf
    <3>3. Rest(len) = 0 \/ (Rest(len) \in 0 .. Word - 1 /\ Word - Pad < Rest(len))
      <4>1. CASE b = len
          BY <1>1, <1>3, <4>1, ModIs
      <4>2. CASE b > len
        <5>1. PICK x \in Nat : x = b - len
          <6>1. b - len \in Nat
              BY <4>2
          <6>. QED
              BY <6>1
        <5>2. x \in 1 .. Pad - 1 /\ x < Word
            BY <1>1, <3>1, <4>2, <5>1
        <5>3. (-x) % Word = Word - x
          <6>1. PICK w \in Nat \ {0} : w = Word
              BY <1>1
          <6>2. PICK q \in Int : q = (-x) \div w
              OBVIOUS
          <6>3. -x = w * q + ((-x) % w) /\ (-x) % w \in 0 .. w - 1
              BY <6>2
          <6>4. q = -1
            <7>1. ASSUME q >= 0 PROVE FALSE
              <8>1. w * q >= 0
                  BY <7>1
              <8>. QED
                  BY <5>2, <6>3, <8>1
            <7>2. ASSUME q <= -2 PROVE FALSE
              <8>1. PICK d \in Nat : q = -2 - d
                <9>1. -2 - q \in Nat /\ q = -2 - (-2 - q)
                    BY <7>2
                <9>. QED
                    BY <9>1
              <8>2. w * q = -(w + w) - w * d /\ w * d \in Nat
                  BY <8>1
              <8>. QED
                  BY <5>2, <6>1, <6>3, <8>2
            <7>. QED
                BY <7>1, <7>2
          <6>. QED
              BY <6>1, <6>3, <6>4
        <5>4. len - b = -x
            BY <5>1
        <5>. QED
            BY <1>1, <1>3, <5>2, <5>3, <5>4
      <4>. QED
          BY <3>1, <4>1, <4>2
    <3>. QED
        BY <1>1, <1>2, <3>1, <3>2, <3>3 DEF CutAt
  <2>. QED
      BY <1>1, <2>2, <2>3
<1>5. CASE at = LastBlock(f) /\ Word - Pad < len
  <2>1. b = 0
      BY <1>2, <1>5
  <2>2. Rest(len) = len
      BY <1>1, <1>3, <2>1, ModIs
  <2>. QED
      BY <1>2, <1>5, <2>1, <2>2 DEF CutAt
<1>. QED
    BY <1>4, <1>5 DEF CutAt

-----------------------------------------------------------------------------
(* The messages of a queue that grows, shrinks or is cut off.              *)
LEMMA QueueAppend ==
    ASSUME NEW S, NEW s \in Seq(S), NEW m \in S
    PROVE  /\ Append(s, m) \in Seq(S) /\ Len(Append(s, m)) = Len(s) + 1
           /\ \A i \in 1 .. Len(s) : Append(s, m)[i] = s[i]
           /\ Append(s, m)[Len(s) + 1] = m
           /\ ToSet(Append(s, m)) = ToSet(s) \cup {m}
<1>1. PICK t \in Seq(S) : t = Append(s, m)
  <2>1. Append(s, m) \in Seq(S)
      OBVIOUS
  <2>. QED
      BY <2>1
<1>2. /\ Len(t) = Len(s) + 1 /\ Len(s) \in Nat
      /\ \A i \in 1 .. Len(s) : t[i] = s[i] /\ t[Len(s) + 1] = m
      /\ t[Len(s) + 1] = m
    BY <1>1
<1>3. DOMAIN t = 1 .. Len(s) + 1 /\ DOMAIN s = 1 .. Len(s)
    BY <1>2
<1>4. \A x \in ToSet(t) : x \in ToSet(s) \/ x = m
    BY <1>2, <1>3 DEF ToSet
<1>5. \A x \in ToSet(s) : x \in ToSet(t)
  <2>1. \A i \in 1 .. Len(s) : s[i] = t[i] /\ i \in 1 .. Len(s) + 1
      BY <1>2
  <2>. QED
      BY <1>3, <2>1 DEF ToSet
<1>6. m \in ToSet(t)
  <2>1. Len(s) + 1 \in 1 .. Len(s) + 1
      BY <1>2
  <2>. QED
      BY <1>2, <1>3, <2>1 DEF ToSet
<1>7. ToSet(t) = ToSet(s) \cup {m}
    BY <1>4, <1>5, <1>6
<1>. QED
    BY <1>1, <1>2, <1>7

(* A queue without its first message: what is left was in it, in its       *)
(* order.                                                                  *)
LEMMA QueueTail ==
    ASSUME NEW S, NEW s \in Seq(S), s # << >>
    PROVE  /\ Tail(s) \in Seq(S) /\ Len(Tail(s)) = Len(s) - 1 /\ Len(s) \in Nat \ {0}
           /\ \A i \in 1 .. Len(s) - 1 : Tail(s)[i] = s[i + 1]
           /\ Head(s) = s[1] /\ Head(s) \in ToSet(s) /\ Head(s) \in S
           /\ ToSet(Tail(s)) \subseteq ToSet(s)
<1>1. PICK t \in Seq(S) : t = Tail(s)
  <2>1. Tail(s) \in Seq(S)
      OBVIOUS
  <2>. QED
      BY <2>1
<1>2. /\ Len(t) = Len(s) - 1 /\ Len(s) \in Nat \ {0} /\ Head(s) = s[1] /\ s[1] \in S
      /\ \A i \in 1 .. Len(s) - 1 : t[i] = s[i + 1]
    BY <1>1
<1>3. DOMAIN t = 1 .. Len(s) - 1 /\ DOMAIN s = 1 .. Len(s)
    BY <1>2
<1>4. \A x \in ToSet(t) : x \in ToSet(s)
  <2>1. \A i \in 1 .. Len(s) - 1 : i + 1 \in 1 .. Len(s)
      BY <1>2
  <2>. QED
      BY <1>2, <1>3, <2>1 DEF ToSet
<1>5. s[1] \in ToSet(s)
  <2>1. 1 \in 1 .. Len(s)
      BY <1>2
  <2>. QED
      BY <1>3, <2>1 DEF ToSet
<1>. QED
    BY <1>1, <1>2, <1>4, <1>5

(* A queue cut short holds nothing that it did not hold.                   *)
LEMMA QueueCut ==
    ASSUME NEW S, NEW s \in Seq(S), NEW n \in 0 .. Len(s)
    PROVE  SubSeq(s, 1, n) \in Seq(S) /\ ToSet(SubSeq(s, 1, n)) \subseteq ToSet(s)
<1>1. PICK t \in Seq(S) : t = SubSeq(s, 1, n)
  <2>1. SubSeq(s, 1, n) \in Seq(S)
      BY SubSeqProperties
  <2>. QED
      BY <2>1
<1>2. Len(t) = n /\ (\A i \in 1 .. n : t[i] = s[i] /\ i \in 1 .. Len(s))
    BY <1>1, SubSeqProperties
<1>3. DOMAIN t = 1 .. n /\ DOMAIN s = 1 .. Len(s)
    BY <1>2
<1>4. \A x \in ToSet(t) : x \in ToSet(s)
    BY <1>2, <1>3 DEF ToSet
<1>. QED
    BY <1>1, <1>4

(* What is in a queue has a place in it.                                   *)
LEMMA QueueMember ==
    ASSUME NEW S, NEW s \in Seq(S)
    PROVE  /\ \A m \in ToSet(s) : m \in S
           /\ \A i \in 1 .. Len(s) : s[i] \in ToSet(s)
           /\ \A m \in ToSet(s) : \E i \in 1 .. Len(s) : m = s[i]
BY DEF ToSet

(* Metafiles and blocks are told apart.                                    *)
LEMMA BlockFacts ==
    ASSUME NEW f \in File
    PROVE  /\ Meta(f) \in Data /\ Meta(f) \in Whole(f) /\ Meta(f) # Nothing
           /\ Nothing \in Data /\ BlocksOf(f) \subseteq Whole(f)
           /\ Whole(f) \subseteq Data /\ LastBlock(f) \in Nat
           /\ BlocksOf(f) = FirstBlocks(f, LastBlock(f))
           /\ \A n \in Nat : n <= LastBlock(f) => FirstBlocks(f, n) \subseteq BlocksOf(f)
           /\ \A g \in File : Meta(f) = Meta(g) => f = g
           /\ \A n \in Nat : \A g : \A b \in FirstBlocks(g, n) : b # Meta(f) /\ b # Nothing
           /\ \A k \in 1 .. LastBlock(f) :
                Block(f, k) \in BlocksOf(f) /\ Block(f, k) \in Data /\ Block(f, k) # Nothing
<1>1. LastBlock(f) \in Nat
    BY LastBlockIs
<1>2. Meta(f) # Nothing /\ \A g, k : Block(g, k) # Nothing /\ (k \in Nat \ {0} => Block(g, k) # Meta(f))
  <2>1. \A g : \A k : Len(<<g, k>>) = 2 /\ Len(<< >>) = 0
      OBVIOUS
  <2>2. \A g : \A k : <<g, k>> # << >>
      BY <2>1
  <2>. QED
      BY <2>2 DEF Meta, Block, Nothing
<1>3. \A n \in Nat : \A g : \A b \in FirstBlocks(g, n) : b # Meta(f) /\ b # Nothing
    BY <1>2 DEF FirstBlocks
<1>4. BlocksOf(f) = FirstBlocks(f, LastBlock(f))
    BY DEF BlocksOf, FirstBlocks
<1>5. \A n \in Nat : n <= LastBlock(f) => FirstBlocks(f, n) \subseteq BlocksOf(f)
  <2>1. \A n \in Nat : n <= LastBlock(f) => 1 .. n \subseteq 1 .. LastBlock(f)
      BY <1>1
  <2>. QED
      BY <2>1 DEF BlocksOf, FirstBlocks
<1>6. /\ Meta(f) \in Whole(f) /\ BlocksOf(f) \subseteq Whole(f) /\ Whole(f) \subseteq Data
      /\ Nothing \in Data
  <2>1. Meta(f) \in Whole(f) /\ BlocksOf(f) \subseteq Whole(f)
      BY DEF Whole
  <2>2. Whole(f) \subseteq Data /\ Nothing \in Data
      BY DEF Data
  <2>. QED
      BY <2>1, <2>2
<1>7. \A k \in 1 .. LastBlock(f) : Block(f, k) \in BlocksOf(f)
    BY DEF BlocksOf
<1>8. \A g \in File : Meta(f) = Meta(g) => f = g
    BY DEF Meta
<1>. QED
    BY <1>1, <1>2, <1>3, <1>4, <1>5, <1>6, <1>7, <1>8

(* A call is of the kind it says it is.                                    *)
LEMMA CallTypes ==
    ASSUME TypeInv, NEW j \in Job
    PROVE  /\ job[j].op = "import" => job[j] \in ImportCall
           /\ job[j].op = "export" => job[j] \in ExportCall
           /\ job[j].op = "upload" => job[j] \in UploadCall
           /\ job[j].op = "download" => job[j] \in DownloadCall
           /\ job[j] = Idle => job[j].op = "none"
<1>1. job[j] \in {Idle} \cup ImportCall \cup ExportCall \cup UploadCall \cup DownloadCall
    BY DEF TypeInv
<1>. QED
    BY <1>1 DEF Idle, ImportCall, ExportCall, UploadCall, DownloadCall

-----------------------------------------------------------------------------
(* The messages there are, and a call that is continued or begun.          *)
LEMMA MsgTypes ==
    ASSUME NEW b \in Data, NEW i \in Nat
    PROVE  /\ StoreBlock(b) \in OutMsg /\ RequestBlock(i, b) \in OutMsg
           /\ ReportBlock(i, b) \in InMsg
           /\ StoreBlock(b).id = "store_block" /\ StoreBlock(b).block = b
           /\ RequestBlock(i, b).id = "request_block" /\ RequestBlock(i, b).req = i
           /\ RequestBlock(i, b).block = b
           /\ ReportBlock(i, b).req = i /\ ReportBlock(i, b).data = b
BY DEF OutMsg, InMsg, StoreBlock, RequestBlock, ReportBlock

(* The connection that uploads and downloads take is the first of conns, a *)
(* peer.                                                                   *)
LEMMA FirstConn ==
    ASSUME TypeInv, conns # << >>
    PROVE  Head(conns) \in Peer /\ Head(conns) = conns[1] /\ 1 \in 1 .. Len(conns)
<1>1. conns \in Seq(Peer)
    BY DEF TypeInv
<1>2. Head(conns) \in Peer /\ Head(conns) = conns[1] /\ Len(conns) \in Nat \ {0}
    BY <1>1, QueueTail
<1>. QED
    BY <1>2

(* What is sent goes to the end of one peer's queue, or nowhere.           *)
LEMMA SentIs ==
    ASSUME TypeInv, NEW p \in Peer, NEW msg \in OutMsg, Sent(p, msg)
    PROVE  /\ out' \in [Peer -> Seq(OutMsg)]
           /\ \A q \in Peer : q # p => out'[q] = out[q]
           /\ out'[p] = IF link[p] = "up" THEN Append(out[p], msg) ELSE out[p]
<1>1. out \in [Peer -> Seq(OutMsg)] /\ out[p] \in Seq(OutMsg)
    BY DEF TypeInv
<1>2. PICK s \in Seq(OutMsg) : s = Append(out[p], msg)
    BY <1>1, QueueAppend
<1>3. out' = IF link[p] = "up" THEN [out EXCEPT ![p] = s] ELSE out
    BY <1>2 DEF Sent
<1>. QED
    BY <1>1, <1>2, <1>3

(* A block that is sent: the next one of the file, one of no bytes, or, at *)
(* the end, the metafile.                                                  *)
SentBlock(u, v, b) ==
    /\ v.file = u.file /\ v.on = Head(conns) /\ CutAt(v.file, v.at, v.len)
    /\ \/ v.state = u.state /\ v.at = u.at + 1 /\ b = Block(u.file, v.at)
          /\ v.at <= LastBlock(u.file)
       \/ v.state = u.state /\ v.at = u.at /\ b = Nothing
       \/ v.state = "last" /\ v.at = u.at /\ u.len = 0 /\ v.len = 0 /\ b = Meta(u.file)

(* send_block lengthens the queue of the first connection by the block     *)
(* that comes next, and the call goes on from there.                       *)
LEMMA SendBlockIs ==
    ASSUME TypeInv, conns # << >>, NEW j \in Job, NEW u \in UploadCall,
           CutAt(u.file, u.at, u.len), SendBlock(j, u)
    PROVE  \E v \in UploadCall : \E b \in Data :
              /\ Sent(Head(conns), StoreBlock(b))
              /\ job' = [job EXCEPT ![j] = v]
              /\ SentBlock(u, v, b)
<1>1. PICK p \in Peer : p = Head(conns)
    BY FirstConn
<1>2. PICK f \in File : f = u.file
    BY DEF UploadCall
<1>3. u.len \in 0 .. Word - 1 /\ u.at \in Nat
    BY DEF UploadCall
<1>4. CASE u.len > 0
  <2>1. PICK k \in Nat : k = IF BlockOf(u.len) > 0 THEN u.at + 1 ELSE u.at
      BY <1>3
  <2>2. Rest(u.len) \in 0 .. Word - 1 /\ CutAt(f, k, Rest(u.len)) /\ k <= LastBlock(f)
      BY <1>2, <1>3, <1>4, <2>1, CutGoesOn
  <2>3. PICK b : b = IF BlockOf(u.len) > 0 THEN Block(f, k) ELSE Nothing
      OBVIOUS
  <2>4. PICK v : v = [u EXCEPT !.len = Rest(u.len), !.at = k, !.on = p]
      OBVIOUS
  <2>5. Sent(p, StoreBlock(b)) /\ job' = [job EXCEPT ![j] = v]
      BY <1>1, <1>2, <1>3, <1>4, <2>1, <2>3, <2>4 DEF SendBlock
  <2>6. v \in UploadCall /\ v.file = f /\ v.on = p /\ v.at = k /\ v.len = Rest(u.len)
        /\ v.state = u.state
      BY <1>2, <2>2, <2>4 DEF UploadCall
  <2>7. CASE BlockOf(u.len) > 0
    <3>1. k = u.at + 1 /\ b = Block(f, k) /\ k \in 1 .. LastBlock(f)
        BY <1>3, <2>1, <2>2, <2>3, <2>7, BlockFacts
    <3>2. b \in Data
        BY <3>1, BlockFacts
    <3>. QED
        BY <1>1, <1>2, <2>2, <2>5, <2>6, <3>1, <3>2 DEF SentBlock
  <2>8. CASE ~(BlockOf(u.len) > 0)
    <3>1. k = u.at /\ b = Nothing /\ b \in Data
        BY <2>1, <2>3, <2>8, BlockFacts
    <3>. QED
        BY <1>1, <1>2, <2>2, <2>5, <2>6, <3>1 DEF SentBlock
  <2>. QED
      BY <2>7, <2>8
<1>5. CASE u.len = 0
  <2>1. PICK v : v = [u EXCEPT !.state = "last", !.on = p]
      OBVIOUS
  <2>2. PICK b \in Data : b = Meta(f)
      BY BlockFacts
  <2>3. Sent(p, StoreBlock(b)) /\ job' = [job EXCEPT ![j] = v]
      BY <1>1, <1>2, <1>3, <1>5, <2>1, <2>2 DEF SendBlock
  <2>4. v \in UploadCall /\ v.file = f /\ v.on = p /\ v.at = u.at /\ v.len = 0
        /\ v.state = "last"
      BY <1>2, <1>5, <2>1 DEF UploadCall
  <2>. QED
      BY <1>1, <1>2, <1>5, <2>2, <2>3, <2>4 DEF SentBlock
<1>. QED
    BY <1>3, <1>4, <1>5

(* A request: the first connection is asked under its next number.         *)
Asks(p, r, j, b, pending) ==
    /\ r.req = next_req_id[p] + 1 /\ r.job = j
    /\ next_req_id' = [next_req_id EXCEPT ![p] = r.req]
    /\ requests' = [pending EXCEPT ![p] = pending[p] \cup {r}]
    /\ p = Head(conns) /\ Sent(p, RequestBlock(r.req, b))
    /\ next_req_id' \in [Peer -> Nat]
    /\ requests' \in [Peer -> SUBSET [req : Nat, job : Job]]
    /\ out' \in [Peer -> Seq(OutMsg)]

(* fetch_block takes the next request number of the first connection, for  *)
(* the call that waits for it.                                             *)
LEMMA AskIs ==
    ASSUME TypeInv, conns # << >>, NEW j \in Job, NEW b \in Data, NEW pending,
           pending \in [Peer -> SUBSET [req : Nat, job : Job]], Ask(j, b, pending)
    PROVE  \E p \in Peer : \E r \in [req : Nat, job : Job] : Asks(p, r, j, b, pending)
<1>1. PICK p \in Peer : p = Head(conns)
    BY FirstConn
<1>2. PICK i \in Nat : i = next_req_id[p] + 1
  <2>1. next_req_id \in [Peer -> Nat]
      BY DEF TypeInv
  <2>2. next_req_id[p] + 1 \in Nat
      BY <1>1, <2>1
  <2>. QED
      BY <2>2
<1>3. PICK r \in [req : Nat, job : Job] : r = [req |-> i, job |-> j]
    BY <1>2
<1>4. /\ next_req_id' = [next_req_id EXCEPT ![p] = i]
      /\ requests' = [pending EXCEPT ![p] = pending[p] \cup {r}]
      /\ Sent(p, RequestBlock(i, b))
    BY <1>1, <1>2, <1>3 DEF Ask
<1>5. next_req_id' \in [Peer -> Nat]
    BY <1>4 DEF TypeInv
<1>6. requests' \in [Peer -> SUBSET [req : Nat, job : Job]]
  <2>1. PICK R \in SUBSET [req : Nat, job : Job] : R = pending[p] \cup {r}
    <3>1. pending[p] \cup {r} \in SUBSET [req : Nat, job : Job]
        BY <1>3
    <3>. QED
        BY <3>1
  <2>2. requests' = [pending EXCEPT ![p] = R]
      BY <1>4, <2>1
  <2>. QED
      BY <2>2
<1>7. out' \in [Peer -> Seq(OutMsg)]
    BY <1>4, SentIs, MsgTypes
<1>8. r.req = i /\ r.job = j
    BY <1>3
<1>. QED
    BY <1>1, <1>2, <1>4, <1>5, <1>6, <1>7, <1>8 DEF Asks

(* A report: a download writes what it is given and goes on to its next    *)
(* block, or is done.                                                      *)
Completed(d, data, v) ==
    /\ v.file = d.file
    /\ v.wrote = IF d.at = 0 \/ data = Nothing THEN d.wrote ELSE Append(d.wrote, data)

(* A reply completes a request: without the metafile the program ends;     *)
(* else the download asks for its next block, or has had its last one.     *)
LEMMA CompleteIs ==
    ASSUME TypeInv, DownloadInv, NEW j \in Job, Waits(job[j]), NEW data \in Data,
           NEW pending, Complete(j, data, pending)
    PROVE  \/ /\ dead' = "no metafile"
              /\ UNCHANGED <<job, out, requests, next_req_id>>
           \/ \E v \in DownloadCall :
                /\ job' = [job EXCEPT ![j] = v] /\ Completed(job[j], data, v)
                /\ UNCHANGED dead
                /\ \/ /\ v.state = "waiting" /\ v.at = job[j].at + 1
                      /\ v.at <= LastBlock(job[j].file)
                      /\ Ask(j, Block(job[j].file, v.at), pending)
                   \/ /\ v.state = "ok" /\ v.at = job[j].at
                      /\ v.at = LastBlock(job[j].file)
                      /\ requests' = pending
                      /\ UNCHANGED <<out, next_req_id>>
<1>1. PICK d \in DownloadCall : d = job[j]
    BY CallTypes DEF Waits
<1>2. d.op = "download" /\ d.file \in File /\ d.at \in Nat /\ d.wrote \in Seq(Data)
      /\ d.state = "waiting"
    BY <1>1 DEF DownloadCall, Waits
<1>3. d.at <= LastBlock(d.file) /\ LastBlock(d.file) \in Nat
    BY <1>1, <1>2, LastBlockIs DEF DownloadInv, Fetched
<1>4. PICK w \in Seq(Data) :
          w = IF d.at = 0 \/ data = Nothing THEN d.wrote ELSE Append(d.wrote, data)
  <2>1. Append(d.wrote, data) \in Seq(Data)
      BY <1>2, QueueAppend
  <2>. QED
      BY <1>2, <2>1
<1>5. \/ /\ d.at = 0 /\ data = Nothing
         /\ dead' = "no metafile"
         /\ UNCHANGED <<job, out, requests, next_req_id>>
      \/ /\ d.at < LastBlock(d.file)
         /\ job' = [job EXCEPT ![j] = [d EXCEPT !.at = d.at + 1, !.wrote = w]]
         /\ Ask(j, Block(d.file, d.at + 1), pending)
         /\ UNCHANGED dead
      \/ /\ d.at = LastBlock(d.file)
         /\ job' = [job EXCEPT ![j] = [d EXCEPT !.state = "ok", !.wrote = w]]
         /\ requests' = pending
         /\ UNCHANGED <<out, next_req_id, dead>>
    BY <1>1, <1>4, Zenon DEF Complete
<1>6. CASE /\ dead' = "no metafile"
           /\ UNCHANGED <<job, out, requests, next_req_id>>
    BY <1>6
<1>7. CASE /\ d.at < LastBlock(d.file)
           /\ job' = [job EXCEPT ![j] = [d EXCEPT !.at = d.at + 1, !.wrote = w]]
           /\ Ask(j, Block(d.file, d.at + 1), pending)
           /\ UNCHANGED dead
  <2>1. PICK k \in Nat : k = d.at + 1
      BY <1>2
  <2>2. PICK v : v = [d EXCEPT !.at = k, !.wrote = w]
      OBVIOUS
  <2>3. job' = [job EXCEPT ![j] = v]
      BY <1>7, <2>1, <2>2
  <2>4. v \in DownloadCall /\ v.file = d.file /\ v.at = d.at + 1 /\ v.wrote = w
        /\ v.state = "waiting"
      BY <1>1, <1>2, <2>1, <2>2 DEF DownloadCall
  <2>5. Completed(job[j], data, v)
      BY <1>1, <1>4, <2>4 DEF Completed
  <2>6. v.at <= LastBlock(d.file)
      BY <1>2, <1>3, <1>7, <2>4
  <2>7. Ask(j, Block(d.file, v.at), pending)
      BY <1>7, <2>4, Zenon
  <2>. QED
      BY <1>1, <1>7, <2>3, <2>4, <2>5, <2>6, <2>7, Zenon
<1>8. CASE /\ d.at = LastBlock(d.file)
           /\ job' = [job EXCEPT ![j] = [d EXCEPT !.state = "ok", !.wrote = w]]
           /\ requests' = pending
           /\ UNCHANGED <<out, next_req_id, dead>>
  <2>1. PICK v : v = [d EXCEPT !.state = "ok", !.wrote = w]
      OBVIOUS
  <2>2. job' = [job EXCEPT ![j] = v]
      BY <1>8, <2>1
  <2>3. v \in DownloadCall /\ v.file = d.file /\ v.at = d.at /\ v.wrote = w
        /\ v.state = "ok"
      BY <1>1, <1>2, <1>4, <2>1 DEF DownloadCall
  <2>. QED
      BY <1>1, <1>4, <1>8, <2>2, <2>3 DEF Completed
<1>. QED
    BY <1>5, <1>6, <1>7, <1>8

(* import_file's next block, of the file's own, and its metafile.          *)
ImportedBlock(d, v, b) ==
    /\ v.file = d.file /\ CutAt(v.file, v.at, v.len)
    /\ \/ v.at = d.at + 1 /\ b = Block(d.file, v.at) /\ v.at <= LastBlock(d.file)
       \/ v.at = d.at /\ b = Nothing
       \/ v.at = d.at /\ d.at = LastBlock(d.file) /\ b = Meta(d.file)

(* A step of import_file stores one block of the file, or in the end its   *)
(* metafile, and nothing else of it changes.                               *)
LEMMA ImportBlockIs ==
    ASSUME TypeInv, ImportInv, NEW j \in Job, ImportBlock(j)
    PROVE  /\ job[j].op = "import"
           /\ \E v \in ImportCall : \E b \in Data :
                /\ store' = [store EXCEPT ![Me] = store[Me] \cup {b}]
                /\ job' = [job EXCEPT ![j] = v]
                /\ ImportedBlock(job[j], v, b)
<1>1. PICK d \in ImportCall : d = job[j] /\ d.op = "import" /\ d.state = "cutting"
    BY CallTypes DEF ImportBlock
<1>2. PICK f \in File : f = d.file
    BY DEF ImportCall
<1>3. d.len \in 0 .. Word - 1 /\ d.at \in Nat /\ CutAt(f, d.at, d.len)
    BY <1>1, <1>2 DEF ImportCall, ImportInv
<1>4. CASE d.len > 0
  <2>1. PICK k \in Nat : k = IF BlockOf(d.len) > 0 THEN d.at + 1 ELSE d.at
      BY <1>3
  <2>2. PICK l \in 0 .. Word - 1 : l = Rest(d.len) /\ CutAt(f, k, l) /\ k <= LastBlock(f)
      BY <1>2, <1>3, <1>4, <2>1, CutGoesOn
  <2>3. PICK b : b = IF BlockOf(d.len) > 0 THEN Block(f, k) ELSE Nothing
      OBVIOUS
  <2>4. PICK v : v = [d EXCEPT !.len = l, !.at = k]
      OBVIOUS
  <2>5. store' = [store EXCEPT ![Me] = store[Me] \cup {b}]
      BY <1>1, <1>2, <1>3, <1>4, <2>1, <2>3 DEF ImportBlock
  <2>6. job' = [job EXCEPT ![j] = v]
      BY <1>1, <1>2, <1>3, <1>4, <2>1, <2>2, <2>4 DEF ImportBlock
  <2>7. v \in ImportCall /\ v.file = f /\ v.at = k /\ v.len = l
      BY <1>2, <2>2, <2>4 DEF ImportCall
  <2>8. CASE BlockOf(d.len) > 0
    <3>1. k = d.at + 1 /\ b = Block(f, k) /\ k \in 1 .. LastBlock(f)
        BY <1>3, <2>1, <2>2, <2>3, <2>8, BlockFacts
    <3>2. b \in Data
        BY <3>1, BlockFacts
    <3>. QED
        BY <1>1, <1>2, <2>2, <2>5, <2>6, <2>7, <3>1, <3>2 DEF ImportedBlock
  <2>9. CASE ~(BlockOf(d.len) > 0)
    <3>1. k = d.at /\ b = Nothing /\ b \in Data
        BY <2>1, <2>3, <2>9, BlockFacts
    <3>. QED
        BY <1>1, <1>2, <2>2, <2>5, <2>6, <2>7, <3>1 DEF ImportedBlock
  <2>. QED
      BY <2>8, <2>9
<1>5. CASE d.len = 0
  <2>1. PICK b \in Data : b = Meta(f)
      BY BlockFacts
  <2>2. PICK v : v = [d EXCEPT !.state = "ok"]
      OBVIOUS
  <2>3. store' = [store EXCEPT ![Me] = store[Me] \cup {b}]
      BY <1>1, <1>2, <1>3, <1>5, <2>1 DEF ImportBlock
  <2>4. job' = [job EXCEPT ![j] = v]
      BY <1>1, <1>3, <1>5, <2>2 DEF ImportBlock
  <2>5. v \in ImportCall /\ v.file = f /\ v.at = d.at /\ v.len = 0
      BY <1>2, <1>5, <2>2 DEF ImportCall
  <2>6. d.at = LastBlock(f)
      BY <1>3, <1>5, CutEnds
  <2>. QED
      BY <1>1, <1>2, <1>3, <1>5, <2>1, <2>3, <2>4, <2>5, <2>6 DEF ImportedBlock
<1>. QED
    BY <1>3, <1>4, <1>5

(* A report that is taken names a request that waits for it.               *)
LEMMA ReportIs ==
    ASSUME TypeInv, WaitInv, NEW p \in Peer, Report(p),
           \E r \in requests[p] : r.req = Head(in[p]).req
    PROVE  \E r, m, pending :
              /\ conns # << >> /\ r \in requests[p] /\ m \in ToSet(in[p])
              /\ m \in InMsg /\ m.data \in Data /\ r.req = m.req
              /\ r \in [req : Nat, job : Job] /\ Waits(job[r.job])
              /\ pending = [requests EXCEPT ![p] = requests[p] \ {r}]
              /\ pending \in [Peer -> SUBSET [req : Nat, job : Job]]
              /\ Complete(r.job, m.data, pending)
              /\ in' \in [Peer -> Seq(InMsg)]
              /\ \A q \in Peer : ToSet(in'[q]) \subseteq ToSet(in[q])
              /\ UNCHANGED <<store, conns, link>>
<1>1. requests \in [Peer -> SUBSET [req : Nat, job : Job]] /\ in \in [Peer -> Seq(InMsg)]
      /\ conns \in Seq(Peer)
    BY DEF TypeInv
<1>2. in[p] # << >> /\ in[p] \in Seq(InMsg) /\ p \in ToSet(conns)
    BY <1>1 DEF Report, Reads
<1>3. PICK s \in Seq(InMsg) : s = Tail(in[p]) /\ ToSet(s) \subseteq ToSet(in[p])
    BY <1>2, QueueTail
<1>4. PICK m \in InMsg : m = Head(in[p]) /\ m \in ToSet(in[p])
    BY <1>2, QueueTail
<1>5. in' = [in EXCEPT ![p] = s]
    BY <1>3 DEF Report
<1>6. PICK r \in requests[p] :
          /\ r.req = m.req
          /\ Complete(r.job, m.data, [requests EXCEPT ![p] = requests[p] \ {r}])
    BY <1>4 DEF Report
<1>7. r \in [req : Nat, job : Job]
    BY <1>1, <1>6
<1>8. PICK R \in SUBSET [req : Nat, job : Job] : R = requests[p] \ {r}
  <2>1. requests[p] \ {r} \in SUBSET [req : Nat, job : Job]
      BY <1>1
  <2>. QED
      BY <2>1
<1>9. PICK pending : pending = [requests EXCEPT ![p] = R]
    OBVIOUS
<1>10. pending \in [Peer -> SUBSET [req : Nat, job : Job]]
    BY <1>1, <1>9
<1>11. in' \in [Peer -> Seq(InMsg)] /\ \A q \in Peer : ToSet(in'[q]) \subseteq ToSet(in[q])
    BY <1>1, <1>3, <1>5
<1>12. conns # << >>
  <2>1. PICK i \in 1 .. Len(conns) : p = conns[i]
      BY <1>1, <1>2, QueueMember
  <2>. QED
      BY <1>1, <2>1
<1>13. Waits(job[r.job]) /\ m.data \in Data
    BY <1>6 DEF WaitInv, InMsg
<1>14. Complete(r.job, m.data, pending) /\ pending = [requests EXCEPT ![p] = requests[p] \ {r}]
    BY <1>6, <1>8, <1>9
<1>15. UNCHANGED <<store, conns, link>>
    BY DEF Report
<1>. QED
    BY <1>4, <1>6, <1>7, <1>10, <1>11, <1>12, <1>13, <1>14, <1>15

(* A download that is given a report goes on, or is done.                  *)
Resumes(p, r, m, pending, v) ==
    /\ conns # << >> /\ r \in requests[p] /\ m \in ToSet(in[p]) /\ r.req = m.req
    /\ r \in [req : Nat, job : Job] /\ m \in InMsg /\ Waits(job[r.job])
    /\ pending = [requests EXCEPT ![p] = requests[p] \ {r}]
    /\ pending \in [Peer -> SUBSET [req : Nat, job : Job]]
    /\ v \in DownloadCall /\ Completed(job[r.job], m.data, v)
    /\ job' = [job EXCEPT ![r.job] = v] /\ UNCHANGED dead

GoesOn(r, pending, v) ==
    /\ v.state = "waiting" /\ v.at = job[r.job].at + 1
    /\ v.at <= LastBlock(job[r.job].file)
    /\ Ask(r.job, Block(job[r.job].file, v.at), pending)

IsDone(r, pending, v) ==
    /\ v.state = "ok" /\ v.at = job[r.job].at /\ v.at = LastBlock(job[r.job].file)
    /\ requests' = pending /\ UNCHANGED <<out, next_req_id>>

(* A reply that nobody waits for is dropped; any other one completes its   *)
(* request, and the download that waits for it goes on, or is done.        *)
LEMMA ReportCases ==
    ASSUME TypeInv, DownloadInv, WaitInv, NEW p \in Peer, Report(p)
    PROVE  /\ in' \in [Peer -> Seq(InMsg)]
           /\ \A q \in Peer : ToSet(in'[q]) \subseteq ToSet(in[q])
           /\ UNCHANGED <<store, conns, link>>
           /\ \/ dead' = "no metafile" /\ UNCHANGED <<job, out, requests, next_req_id>>
              \/ UNCHANGED <<job, out, requests, next_req_id, dead>>
              \/ \E r, m, pending, v :
                   Resumes(p, r, m, pending, v) /\ (GoesOn(r, pending, v) \/ IsDone(r, pending, v))
<1>1. CASE ~\E r \in requests[p] : r.req = Head(in[p]).req
  <2>1. in[p] # << >> /\ in \in [Peer -> Seq(InMsg)] /\ in[p] \in Seq(InMsg)
      BY DEF Report, TypeInv
  <2>2. PICK s \in Seq(InMsg) : s = Tail(in[p]) /\ ToSet(s) \subseteq ToSet(in[p])
      BY <2>1, QueueTail
  <2>3. in' = [in EXCEPT ![p] = s]
      BY <2>2 DEF Report
  <2>4. {r \in requests[p] : r.req = Head(in[p]).req} = {}
      BY <1>1
  <2>5. UNCHANGED <<job, out, requests, next_req_id, dead, store, conns, link>>
      BY <2>4 DEF Report
  <2>. QED
      BY <2>1, <2>2, <2>3, <2>5
<1>2. CASE \E r \in requests[p] : r.req = Head(in[p]).req
  <2>1. PICK r, m, pending :
            /\ conns # << >> /\ r \in requests[p] /\ m \in ToSet(in[p])
            /\ m \in InMsg /\ m.data \in Data /\ r.req = m.req
            /\ r \in [req : Nat, job : Job] /\ Waits(job[r.job])
            /\ pending = [requests EXCEPT ![p] = requests[p] \ {r}]
            /\ pending \in [Peer -> SUBSET [req : Nat, job : Job]]
            /\ Complete(r.job, m.data, pending)
            /\ in' \in [Peer -> Seq(InMsg)]
            /\ \A q \in Peer : ToSet(in'[q]) \subseteq ToSet(in[q])
            /\ UNCHANGED <<store, conns, link>>
      BY <1>2, ReportIs
  <2>2. PICK j \in Job : j = r.job
      BY <2>1
  <2>3. CASE dead' = "no metafile" /\ UNCHANGED <<job, out, requests, next_req_id>>
      BY <2>1, <2>3
  <2>4. CASE ~(dead' = "no metafile" /\ UNCHANGED <<job, out, requests, next_req_id>>)
    <3>1. Waits(job[j]) /\ Complete(j, m.data, pending) /\ m.data \in Data
        BY <2>1, <2>2
    <3>2. PICK v \in DownloadCall :
              /\ job' = [job EXCEPT ![j] = v] /\ Completed(job[j], m.data, v)
              /\ UNCHANGED dead
              /\ \/ /\ v.state = "waiting" /\ v.at = job[j].at + 1
                    /\ v.at <= LastBlock(job[j].file)
                    /\ Ask(j, Block(job[j].file, v.at), pending)
                 \/ /\ v.state = "ok" /\ v.at = job[j].at
                    /\ v.at = LastBlock(job[j].file)
                    /\ requests' = pending
                    /\ UNCHANGED <<out, next_req_id>>
        BY <2>4, <3>1, CompleteIs
    <3>3. Resumes(p, r, m, pending, v)
        BY <2>1, <2>2, <3>2 DEF Resumes
    <3>4. GoesOn(r, pending, v) \/ IsDone(r, pending, v)
        BY <2>2, <3>2, Zenon DEF GoesOn, IsDone
    <3>. QED
        BY <2>1, <3>3, <3>4
  <2>. QED
      BY <2>3, <2>4
<1>. QED
    BY <1>1, <1>2

(* The actions.                                                            *)
LEMMA Actions ==
    ASSUME Next
    PROVE  \/ \E p \in Peer : Connect(p) \/ Break(p) \/ Closed(p) \/ Serve(p) \/ Report(p)
           \/ \E j \in Job : \E f \in File :
                Import(j, f) \/ Export(j, f) \/ Upload(j, f) \/ Download(j, f)
           \/ \E j \in Job : ImportBlock(j) \/ WriteDone(j) \/ WriteFailed(j)
BY DEF Next, Start, Continue

(* A new connection goes to the end, and one that is closed leaves the     *)
(* others in their order.                                                  *)
LEMMA ConnAdded ==
    ASSUME TypeInv, ConnInv, NEW p \in Peer, Connect(p)
    PROVE  /\ conns' \in Seq(Peer) /\ IsInjective(conns') /\ ConnInv'
           /\ conns # << >> => Head(conns') = Head(conns)
           /\ conns' # << >>
<1>1. conns \in Seq(Peer) /\ IsInjective(conns) /\ link \in [Peer -> {"none", "up", "broken"}]
    BY DEF TypeInv
<1>2. PICK c : c = Append(conns, p)
    OBVIOUS
<1>3. /\ c \in Seq(Peer) /\ Len(c) = Len(conns) + 1 /\ c[Len(conns) + 1] = p
      /\ \A i \in 1 .. Len(conns) : c[i] = conns[i]
    BY <1>1, <1>2, QueueAppend
<1>4. Len(conns) \in Nat /\ DOMAIN c = 1 .. Len(conns) + 1 /\ DOMAIN conns = 1 .. Len(conns)
    BY <1>1, <1>3
<1>5. conns' = c /\ link[p] = "none" /\ link' = [link EXCEPT ![p] = "up"]
    BY <1>2 DEF Connect
<1>6. \A i \in 1 .. Len(conns) : conns[i] # p /\ conns[i] \in Peer /\ link[conns[i]] # "none"
    BY <1>1, <1>5 DEF ConnInv
<1>7. \A i \in 1 .. Len(conns) + 1 : i \in 1 .. Len(conns) \/ i = Len(conns) + 1
    BY <1>4
<1>8. IsInjective(c)
  <2>1. \A a, b \in 1 .. Len(conns) : conns[a] = conns[b] => a = b
      BY <1>1, <1>4 DEF IsInjective
  <2>2. \A a, b \in 1 .. Len(conns) + 1 : c[a] = c[b] => a = b
      BY <1>3, <1>6, <1>7, <2>1
  <2>. QED
      BY <1>4, <2>2 DEF IsInjective
<1>9. ConnInv'
  <2>1. \A i \in 1 .. Len(c) : link'[c[i]] # "none"
      BY <1>1, <1>3, <1>5, <1>6, <1>7
  <2>. QED
      BY <1>5, <2>1 DEF ConnInv
<1>10. conns # << >> => Head(c) = Head(conns)
  <2>1. ASSUME conns # << >> PROVE Head(c) = Head(conns)
    <3>1. Len(conns) \in Nat \ {0} /\ Head(conns) = conns[1]
        BY <1>1, <2>1, QueueTail
    <3>2. c # << >>
        BY <1>3, <3>1
    <3>3. Head(c) = c[1]
        BY <1>3, <3>2, QueueTail
    <3>. QED
        BY <1>3, <3>1, <3>3
  <2>. QED
      BY <2>1
<1>11. c # << >>
    BY <1>3, <1>4
<1>. QED
    BY <1>3, <1>5, <1>8, <1>9, <1>10, <1>11

(* A closed connection leaves the others as they were, each once.          *)
LEMMA ConnRemoved ==
    ASSUME TypeInv, ConnInv, NEW p \in Peer, Closed(p)
    PROVE  conns' \in Seq(Peer) /\ IsInjective(conns') /\ ConnInv'
<1>1. /\ conns \in Seq(Peer) /\ IsInjective(conns)
      /\ Len(conns) \in Nat /\ DOMAIN conns = 1 .. Len(conns)
  <2>1. conns \in Seq(Peer) /\ IsInjective(conns)
      BY DEF TypeInv
  <2>. QED
      BY <2>1
<1>2. PICK i \in 1 .. Len(conns) :
          conns' = SubSeq(conns, 1, i - 1) \o SubSeq(conns, i + 1, Len(conns))
    BY <1>1, Zenon DEF Closed, RemoveAt
<1>3. PICK n \in Nat : n = Len(conns)
    BY <1>1
<1>4. PICK a \in Seq(Peer) : /\ a = SubSeq(conns, 1, i - 1) /\ Len(a) = i - 1
                             /\ \A k \in 1 .. i - 1 : a[k] = conns[k]
  <2>1. \A k \in 1 .. i - 1 : conns[k] \in Peer
      BY <1>1
  <2>2. /\ SubSeq(conns, 1, i - 1) \in Seq(Peer) /\ Len(SubSeq(conns, 1, i - 1)) = i - 1
        /\ \A k \in 1 .. i - 1 : SubSeq(conns, 1, i - 1)[k] = conns[k]
      BY <2>1, SubSeqProperties
  <2>. QED
      BY <2>2
<1>5. PICK b \in Seq(Peer) : /\ b = SubSeq(conns, i + 1, n) /\ Len(b) = n - i
                             /\ \A k \in 1 .. n - i : b[k] = conns[i + k]
  <2>1. \A k \in i + 1 .. n : conns[k] \in Peer
      BY <1>1, <1>3
  <2>2. /\ SubSeq(conns, i + 1, n) \in Seq(Peer) /\ Len(SubSeq(conns, i + 1, n)) = n - i
        /\ \A k \in 1 .. n - i : SubSeq(conns, i + 1, n)[k] = conns[i + k]
      BY <1>3, <2>1, SubSeqProperties
  <2>. QED
      BY <2>2
<1>6. PICK c \in Seq(Peer) : c = a \o b
  <2>1. a \o b \in Seq(Peer)
      BY <1>4, <1>5
  <2>. QED
      BY <2>1
<1>7. Len(c) = n - 1 /\ \A k \in 1 .. n - 1 : c[k] = conns[IF k < i THEN k ELSE k + 1]
  <2>1. Len(c) = n - 1 /\ \A k \in 1 .. n - 1 : c[k] = IF k <= i - 1 THEN a[k] ELSE b[k - (i - 1)]
    <3>1. Len(c) = Len(a) + Len(b)
        BY <1>4, <1>5, <1>6
    <3>2. \A k \in 1 .. Len(a) + Len(b) :
             c[k] = IF k <= Len(a) THEN a[k] ELSE b[k - Len(a)]
        BY <1>4, <1>5, <1>6
    <3>3. Len(a) + Len(b) = n - 1
      <4>1. i \in Int /\ Len(a) = i - 1 /\ Len(b) = n - i
          BY <1>2, <1>4, <1>5
      <4>. QED
          BY <1>3, <4>1
    <3>. QED
        BY <1>4, <3>1, <3>2, <3>3
  <2>2. ASSUME NEW k \in 1 .. n - 1 PROVE c[k] = conns[IF k < i THEN k ELSE k + 1]
    <3>1. CASE k < i
        BY <1>4, <2>1, <3>1
    <3>2. CASE k >= i
      <4>1. k - (i - 1) \in 1 .. n - i /\ i + (k - (i - 1)) = k + 1
          BY <1>3, <3>2
      <4>. QED
          BY <1>5, <2>1, <3>2, <4>1
    <3>. QED
        BY <3>1, <3>2
  <2>. QED
      BY <2>1, <2>2
<1>8. \A k \in 1 .. n - 1 : (IF k < i THEN k ELSE k + 1) \in 1 .. n
    BY <1>3
<1>9. IsInjective(c)
  <2>1. \A k, l \in 1 .. n : conns[k] = conns[l] => k = l
      BY <1>1, <1>3 DEF IsInjective
  <2>2. \A k, l \in 1 .. n - 1 : c[k] = c[l] => k = l
      BY <1>3, <1>7, <1>8, <2>1
  <2>3. DOMAIN c = 1 .. n - 1
      BY <1>3, <1>6, <1>7
  <2>. QED
      BY <2>2, <2>3 DEF IsInjective
<1>10. ConnInv'
  <2>1. \A k \in 1 .. n : link[conns[k]] # "none"
      BY <1>3 DEF ConnInv
  <2>2. \A k \in 1 .. Len(c) : link[c[k]] # "none"
      BY <1>7, <1>8, <2>1
  <2>3. conns' = c /\ link' = link
      BY <1>2, <1>3, <1>4, <1>5, <1>6 DEF Closed
  <2>. QED
      BY <2>2, <2>3 DEF ConnInv
<1>. QED
    BY <1>2, <1>3, <1>4, <1>5, <1>6, <1>9, <1>10

-----------------------------------------------------------------------------
(* What a file is exported as is data.                                     *)
LEMMA ExportIs ==
    ASSUME TypeInv, NEW j \in Job, NEW f \in File, Export(j, f)
    PROVE  \/ dead' = "no metafile" /\ job' = job
           \/ /\ dead' = dead /\ Meta(f) \in store[Me]
              /\ \E v \in ExportCall :
                   /\ job' = [job EXCEPT ![j] = v] /\ v.file = f
                   /\ v.wrote = [k \in 1 .. LastBlock(f) |-> ReadBlock(Me, Block(f, k))]
<1>1. PICK w : w = [k \in 1 .. LastBlock(f) |-> ReadBlock(Me, Block(f, k))]
    OBVIOUS
<1>2. PICK v : v = [op |-> "export", file |-> f, state |-> "ok", wrote |-> w]
    OBVIOUS
<1>3. w \in Seq(Data)
  <2>1. \A k \in 1 .. LastBlock(f) : ReadBlock(Me, Block(f, k)) \in Data
      BY BlockFacts DEF ReadBlock
  <2>2. LastBlock(f) \in Nat
      BY BlockFacts
  <2>. QED
      BY <1>1, <2>1, <2>2
<1>4. v \in ExportCall /\ v.file = f /\ v.wrote = w
    BY <1>2, <1>3 DEF ExportCall
<1>5. CASE Meta(f) \in store[Me]
  <2>1. job' = [job EXCEPT ![j] = v] /\ dead' = dead
      BY <1>1, <1>2, <1>5 DEF Export
  <2>. QED
      BY <1>1, <1>4, <1>5, <2>1
<1>6. CASE Meta(f) \notin store[Me]
    BY <1>6 DEF Export
<1>. QED
    BY <1>5, <1>6

(* A call that is new, or goes on.                                         *)
Calls == {Idle} \cup ImportCall \cup ExportCall \cup UploadCall \cup DownloadCall

(* A call that changes is the only one that does.                          *)
LEMMA CallsTyped ==
    ASSUME TypeInv, NEW j \in Job, NEW v \in Calls, job' = [job EXCEPT ![j] = v]
    PROVE  job' \in [Job -> Calls] /\ job'[j] = v /\ \A i \in Job : i # j => job'[i] = job[i]
BY DEF TypeInv, Calls

(* An upload starts before the file's first block, with all of it to send. *)
LEMMA FirstCalls ==
    ASSUME NEW f \in File, NEW p \in Peer
    PROVE  /\ UploadFile(f, p) \in UploadCall /\ UploadFile(f, p).file = f
           /\ UploadFile(f, p).at = 0 /\ UploadFile(f, p).state = "writing"
           /\ UploadFile(f, p).len = Size[f]
<1>1. Size[f] \in 0 .. Word - 1
    BY CutStarts
<1>. QED
    BY <1>1 DEF UploadCall, UploadFile

(* An import starts before the file's first block, with all of it to       *)
(* store.                                                                  *)
LEMMA ImportIs ==
    ASSUME NEW j \in Job, NEW f \in File, Import(j, f)
    PROVE  \E v \in ImportCall :
              /\ job' = [job EXCEPT ![j] = v]
              /\ v.file = f /\ v.at = 0 /\ v.len = Size[f]
<1>1. PICK v : v = [op |-> "import", file |-> f, len |-> Size[f], at |-> 0,
                    state |-> "cutting"]
    OBVIOUS
<1>2. v \in ImportCall /\ v.file = f /\ v.at = 0 /\ v.len = Size[f]
    BY <1>1, CutStarts DEF ImportCall
<1>3. job' = [job EXCEPT ![j] = v]
    BY <1>1 DEF Import
<1>. QED
    BY <1>2, <1>3

(* A download starts by asking for the metafile, and has written nothing.  *)
LEMMA DownloadIs ==
    ASSUME NEW j \in Job, NEW f \in File, conns # << >>, Download(j, f)
    PROVE  /\ Ask(j, Meta(f), requests) /\ UNCHANGED dead
           /\ \E v \in DownloadCall :
                /\ job' = [job EXCEPT ![j] = v]
                /\ v.file = f /\ v.at = 0 /\ v.wrote = << >> /\ v.state = "waiting"
<1>1. PICK v : v = [op |-> "download", file |-> f, at |-> 0, wrote |-> << >>,
                    state |-> "waiting"]
    OBVIOUS
<1>2. v \in DownloadCall /\ v.file = f /\ v.at = 0 /\ v.wrote = << >> /\ v.state = "waiting"
  <2>1. << >> \in Seq(Data)
      BY EmptySeq
  <2>. QED
      BY <1>1, <2>1 DEF DownloadCall
<1>3. job' = [job EXCEPT ![j] = v] /\ Ask(j, Meta(f), requests) /\ UNCHANGED dead
    BY <1>1 DEF Download
<1>. QED
    BY <1>2, <1>3

(* What was sent and is lost when a connection breaks, or is taken by the  *)
(* peer.                                                                   *)
LEMMA BreakIs ==
    ASSUME TypeInv, NEW p \in Peer, Break(p)
    PROVE  /\ out' \in [Peer -> Seq(OutMsg)] /\ in' \in [Peer -> Seq(InMsg)]
           /\ \A q \in Peer : /\ ToSet(out'[q]) \subseteq ToSet(out[q])
                              /\ ToSet(in'[q]) \subseteq ToSet(in[q])
           /\ link' \in [Peer -> {"none", "up", "broken"}]
           /\ \A q \in Peer : link[q] # "none" => link'[q] # "none"
           /\ link'[p] = "broken"
<1>1. out \in [Peer -> Seq(OutMsg)] /\ in \in [Peer -> Seq(InMsg)]
    BY DEF TypeInv
<1>2. PICK s \in Seq(OutMsg) : out' = [out EXCEPT ![p] = s] /\ ToSet(s) \subseteq ToSet(out[p])
  <2>1. PICK n \in 0 .. Len(out[p]) : out' = [out EXCEPT ![p] = SubSeq(out[p], 1, n)]
      BY DEF Break
  <2>2. out[p] \in Seq(OutMsg)
      BY <1>1
  <2>. QED
      BY <2>1, <2>2, QueueCut
<1>3. PICK t \in Seq(InMsg) : in' = [in EXCEPT ![p] = t] /\ ToSet(t) \subseteq ToSet(in[p])
  <2>1. PICK n \in 0 .. Len(in[p]) : in' = [in EXCEPT ![p] = SubSeq(in[p], 1, n)]
      BY DEF Break
  <2>2. in[p] \in Seq(InMsg)
      BY <1>1
  <2>. QED
      BY <2>1, <2>2, QueueCut
<1>4. link' = [link EXCEPT ![p] = "broken"] /\ link \in [Peer -> {"none", "up", "broken"}]
    BY DEF Break, TypeInv
<1>. QED
    BY <1>1, <1>2, <1>3, <1>4

(* A peer takes the first message of its queue: it stores the block, or    *)
(* answers with what it has; no other peer is concerned.                   *)
LEMMA ServeIs ==
    ASSUME TypeInv, NEW p \in Peer, Serve(p)
    PROVE  \E m \in OutMsg :
             /\ out[p] # << >> /\ m = out[p][1] /\ m \in ToSet(out[p])
             /\ out' \in [Peer -> Seq(OutMsg)]
             /\ out' = [out EXCEPT ![p] = Tail(out[p])]
             /\ \A q \in Peer : ToSet(out'[q]) \subseteq ToSet(out[q])
             /\ in' \in [Peer -> Seq(InMsg)] /\ store' \in [Node -> SUBSET Data]
             /\ \A q \in Node : store[q] \subseteq store'[q]
             /\ \A q \in Node : q # p => store'[q] = store[q]
             /\ m.id = "store_block" =>
                  store'[p] = store[p] \cup {m.block} /\ in' = in
             /\ m.id = "request_block" =>
                  /\ store' = store
                  /\ \/ in' = in
                     \/ in' = [in EXCEPT ![p] = Append(in[p],
                                 ReportBlock(m.req, ReadBlock(p, m.block)))]
<1>1. out \in [Peer -> Seq(OutMsg)] /\ in \in [Peer -> Seq(InMsg)]
      /\ store \in [Node -> SUBSET Data]
    BY DEF TypeInv
<1>2. out[p] \in Seq(OutMsg) /\ in[p] \in Seq(InMsg) /\ out[p] # << >> /\ p \in Node
    BY <1>1 DEF Serve, Node
<1>3. PICK m \in OutMsg : m = Head(out[p]) /\ m = out[p][1] /\ m \in ToSet(out[p])
    BY <1>2, QueueTail
<1>4. PICK s \in Seq(OutMsg) : s = Tail(out[p]) /\ ToSet(s) \subseteq ToSet(out[p])
    BY <1>2, QueueTail
<1>5. out' = [out EXCEPT ![p] = s]
    BY <1>4 DEF Serve
<1>6. out' \in [Peer -> Seq(OutMsg)] /\ out' = [out EXCEPT ![p] = Tail(out[p])]
      /\ \A q \in Peer : ToSet(out'[q]) \subseteq ToSet(out[q])
    BY <1>1, <1>4, <1>5
<1>7. CASE m.id = "store_block"
  <2>1. m.block \in Data
      BY <1>3, <1>7 DEF OutMsg
  <2>2. PICK S \in SUBSET Data : S = store[p] \cup {m.block}
    <3>1. store[p] \cup {m.block} \in SUBSET Data
        BY <1>1, <1>2, <2>1
    <3>. QED
        BY <3>1
  <2>3. store' = [store EXCEPT ![p] = S] /\ in' = in
      BY <1>3, <1>7, <2>2 DEF Serve
  <2>. QED
      BY <1>1, <1>2, <1>3, <1>6, <1>7, <2>2, <2>3
<1>8. CASE m.id # "store_block"
  <2>1. m.id = "request_block" /\ m.req \in Nat /\ m.block \in Data
      BY <1>3, <1>8 DEF OutMsg
  <2>2. ReadBlock(p, m.block) \in Data
      BY <2>1 DEF ReadBlock, Data
  <2>3. PICK r \in InMsg : r = ReportBlock(m.req, ReadBlock(p, m.block))
      BY <2>1, <2>2, MsgTypes
  <2>4. PICK t \in Seq(InMsg) : t = Append(in[p], r)
      BY <1>2, QueueAppend
  <2>5. store' = store /\ in' = IF link[p] # "up" THEN in ELSE [in EXCEPT ![p] = t]
      BY <1>3, <2>1, <2>3, <2>4 DEF Serve
  <2>6. in' \in [Peer -> Seq(InMsg)]
      BY <1>1, <2>5
  <2>7. \/ in' = in
        \/ in' = [in EXCEPT ![p] = Append(in[p], ReportBlock(m.req, ReadBlock(p, m.block)))]
      BY <2>3, <2>4, <2>5
  <2>. QED
      BY <1>1, <1>2, <1>3, <1>6, <2>1, <2>5, <2>6, <2>7
<1>. QED
    BY <1>7, <1>8

(* An upload sends its next block to the first connection, whose queue it  *)
(* lengthens.                                                              *)
UploadStep(j, u, v, b) ==
    /\ conns # << >> /\ v \in UploadCall /\ b \in Data
    /\ Sent(Head(conns), StoreBlock(b))
    /\ job' = [job EXCEPT ![j] = v] /\ SentBlock(u, v, b)
    /\ UNCHANGED <<store, conns, link, in, requests, next_req_id, dead>>

(* upload sends the file's first block from within the call.               *)
LEMMA UploadIs ==
    ASSUME TypeInv, NEW j \in Job, NEW f \in File, Upload(j, f)
    PROVE  \E p \in Peer : \E v, b : UploadStep(j, UploadFile(f, p), v, b)
<1>1. conns # << >> /\ UNCHANGED <<store, conns, link, in, requests, next_req_id, dead>>
    BY DEF Upload
<1>2. PICK p \in Peer : p = Head(conns)
    BY <1>1, FirstConn
<1>3. PICK u \in UploadCall : u = UploadFile(f, p) /\ CutAt(u.file, u.at, u.len)
  <2>1. PICK u : u = UploadFile(f, p)
      OBVIOUS
  <2>2. u \in UploadCall /\ u.file = f /\ u.at = 0 /\ u.len = Size[f]
      BY <2>1, FirstCalls
  <2>3. CutAt(u.file, u.at, u.len)
      BY <2>2, CutStarts
  <2>. QED
      BY <2>1, <2>2, <2>3
<1>4. SendBlock(j, u)
    BY <1>2, <1>3 DEF Upload
<1>. QED
    BY <1>1, <1>3, <1>4, SendBlockIs DEF UploadStep

(* When a write is done the upload sends its next block, is done when that *)
(* was the metafile, or ends the program when no connection is left.       *)
LEMMA WriteDoneIs ==
    ASSUME TypeInv, UploadInv, NEW j \in Job, WriteDone(j)
    PROVE  /\ job[j].op = "upload" /\ job[j] \in UploadCall
           /\ UNCHANGED <<store, conns, link, in, requests, next_req_id>>
           /\ \/ /\ job[j].state = "last" /\ UNCHANGED <<out, dead>>
                 /\ job' = [job EXCEPT ![j].state = "ok"]
              \/ dead' = "no connection" /\ UNCHANGED <<out, job>>
              \/ job[j].state = "writing" /\ \E v, b : UploadStep(j, job[j], v, b)
<1>1. PICK u \in UploadCall : u = job[j] /\ u.op = "upload"
    BY CallTypes DEF WriteDone, Writing
<1>2. UNCHANGED <<store, conns, link, in, requests, next_req_id>>
    BY DEF WriteDone
<1>3. CutAt(u.file, u.at, u.len)
    BY <1>1 DEF UploadInv
<1>4. CASE u.state = "writing" /\ conns # << >> /\ SendBlock(j, u) /\ UNCHANGED dead
  <2>1. \E v, b : UploadStep(j, u, v, b)
      BY <1>2, <1>3, <1>4, SendBlockIs DEF UploadStep
  <2>. QED
      BY <1>1, <1>2, <1>4, <2>1
<1>. QED
    BY <1>1, <1>2, <1>4 DEF WriteDone

-----------------------------------------------------------------------------
(* The invariant, part by part.  Types first.                              *)
LEMMA TypeStep ==
    ASSUME TypeInv, ConnInv, ImportInv, UploadInv, DownloadInv, WaitInv, Next
    PROVE  TypeInv' /\ ConnInv'
<1>1. /\ store \in [Node -> SUBSET Data]
      /\ conns \in Seq(Peer) /\ IsInjective(conns)
      /\ link \in [Peer -> {"none", "up", "broken"}]
      /\ out \in [Peer -> Seq(OutMsg)] /\ in \in [Peer -> Seq(InMsg)]
      /\ requests \in [Peer -> SUBSET [req : Nat, job : Job]]
      /\ next_req_id \in [Peer -> Nat]
      /\ job \in [Job -> Calls]
      /\ dead \in {"no", "no connection", "no metafile"}
    BY DEF TypeInv, Calls
<1>2. ASSUME UNCHANGED <<conns, link>> PROVE ConnInv'
    BY <1>2 DEF ConnInv
<1>3. ASSUME NEW p \in Peer, Connect(p) PROVE TypeInv' /\ ConnInv'
  <2>1. conns' \in Seq(Peer) /\ IsInjective(conns') /\ ConnInv'
      BY <1>3, ConnAdded
  <2>2. link' \in [Peer -> {"none", "up", "broken"}]
      BY <1>1, <1>3 DEF Connect
  <2>3. UNCHANGED <<store, out, in, requests, next_req_id, job, dead>>
      BY <1>3 DEF Connect
  <2>. QED
      BY <1>1, <2>1, <2>2, <2>3 DEF TypeInv, Calls
<1>4. ASSUME NEW p \in Peer, Break(p) PROVE TypeInv' /\ ConnInv'
  <2>1. UNCHANGED <<store, conns, requests, next_req_id, job, dead>>
      BY <1>4 DEF Break
  <2>2. /\ out' \in [Peer -> Seq(OutMsg)] /\ in' \in [Peer -> Seq(InMsg)]
        /\ link' \in [Peer -> {"none", "up", "broken"}]
        /\ \A q \in Peer : link[q] # "none" => link'[q] # "none"
      BY <1>4, BreakIs
  <2>3. ConnInv'
    <3>1. conns \in Seq(Peer)
        BY <1>1
    <3>2. \A i \in 1 .. Len(conns) : conns[i] \in Peer
        BY <3>1
    <3>. QED
        BY <2>1, <2>2, <3>2 DEF ConnInv
  <2>. QED
      BY <1>1, <2>1, <2>2, <2>3 DEF TypeInv, Calls
<1>5. ASSUME NEW p \in Peer, Closed(p) PROVE TypeInv' /\ ConnInv'
  <2>1. conns' \in Seq(Peer) /\ IsInjective(conns') /\ ConnInv'
      BY <1>5, ConnRemoved
  <2>2. UNCHANGED <<store, link, out, in, requests, next_req_id, job, dead>>
      BY <1>5 DEF Closed
  <2>. QED
      BY <1>1, <2>1, <2>2 DEF TypeInv, Calls
<1>6. ASSUME NEW p \in Peer, Serve(p) PROVE TypeInv' /\ ConnInv'
  <2>1. UNCHANGED <<conns, link, requests, next_req_id, job, dead>>
      BY <1>6 DEF Serve
  <2>2. /\ out' \in [Peer -> Seq(OutMsg)] /\ in' \in [Peer -> Seq(InMsg)]
        /\ store' \in [Node -> SUBSET Data]
      BY <1>6, ServeIs
  <2>. QED
      BY <1>1, <1>2, <2>1, <2>2 DEF TypeInv, Calls
<1>7. ASSUME NEW p \in Peer, Report(p) PROVE TypeInv' /\ ConnInv'
  <2>1. in' \in [Peer -> Seq(InMsg)] /\ UNCHANGED <<store, conns, link>>
      BY <1>7, ReportCases
  <2>2. CASE /\ dead' = dead \/ dead' = "no metafile"
             /\ UNCHANGED <<job, out, requests, next_req_id>>
      BY <1>1, <1>2, <2>1, <2>2 DEF TypeInv, Calls
  <2>3. ASSUME NEW r, NEW m, NEW pending, NEW v, Resumes(p, r, m, pending, v),
               GoesOn(r, pending, v) \/ IsDone(r, pending, v)
        PROVE  TypeInv' /\ ConnInv'
    <3>1. PICK j \in Job : j = r.job /\ Waits(job[j])
        BY <2>3 DEF Resumes
    <3>2. job' \in [Job -> Calls] /\ UNCHANGED dead
        BY <2>3, <3>1, CallsTyped DEF Calls, Resumes
    <3>3. CASE GoesOn(r, pending, v)
      <4>1. job[j].file \in File /\ job[j].at \in Nat
          BY <3>1, CallTypes DEF Waits, DownloadCall
      <4>2. v.at \in 1 .. LastBlock(job[j].file)
          BY <3>1, <3>3, <4>1, BlockFacts DEF GoesOn
      <4>3. Block(job[j].file, v.at) \in Data
          BY <4>1, <4>2, BlockFacts
      <4>4. conns # << >> /\ pending \in [Peer -> SUBSET [req : Nat, job : Job]]
            /\ Ask(j, Block(job[j].file, v.at), pending)
          BY <2>3, <3>1, <3>3 DEF Resumes, GoesOn
      <4>5. /\ next_req_id' \in [Peer -> Nat] /\ out' \in [Peer -> Seq(OutMsg)]
            /\ requests' \in [Peer -> SUBSET [req : Nat, job : Job]]
          BY <4>3, <4>4, AskIs DEF Asks
      <4>. QED
          BY <1>1, <1>2, <2>1, <3>2, <4>5 DEF TypeInv, Calls
    <3>4. CASE IsDone(r, pending, v)
        BY <1>1, <1>2, <2>1, <2>3, <3>2, <3>4 DEF TypeInv, Calls, IsDone, Resumes
    <3>. QED
        BY <2>3, <3>3, <3>4
  <2>. QED
      BY <1>7, <2>2, <2>3, ReportCases
<1>8. ASSUME NEW j \in Job, NEW f \in File, Import(j, f) PROVE TypeInv' /\ ConnInv'
  <2>1. PICK v \in ImportCall : job' = [job EXCEPT ![j] = v]
      BY <1>8, ImportIs
  <2>2. job' \in [Job -> Calls]
      BY <2>1, CallsTyped DEF Calls
  <2>3. UNCHANGED <<store, conns, link, out, in, requests, next_req_id, dead>>
      BY <1>8 DEF Import, net
  <2>. QED
      BY <1>1, <1>2, <2>2, <2>3 DEF TypeInv, Calls
<1>9. ASSUME NEW j \in Job, NEW f \in File, Export(j, f) PROVE TypeInv' /\ ConnInv'
  <2>1. job' \in [Job -> Calls]
      BY <1>1, <1>9, ExportIs, CallsTyped DEF Calls
  <2>2. UNCHANGED <<store, conns, link, out, in, requests, next_req_id>>
        /\ dead' \in {"no", "no connection", "no metafile"}
      BY <1>1, <1>9, ExportIs DEF Export, net
  <2>. QED
      BY <1>1, <1>2, <2>1, <2>2 DEF TypeInv, Calls
<1>10. ASSUME NEW j \in Job, NEW u, NEW v, NEW b, UploadStep(j, u, v, b)
       PROVE  TypeInv' /\ ConnInv'
  <2>1. Head(conns) \in Peer /\ StoreBlock(b) \in OutMsg
      BY <1>10, FirstConn, MsgTypes DEF UploadStep
  <2>2. out' \in [Peer -> Seq(OutMsg)]
      BY <1>10, <2>1, SentIs DEF UploadStep
  <2>3. job' \in [Job -> Calls]
      BY <1>10, CallsTyped DEF UploadStep, Calls
  <2>4. UNCHANGED <<store, conns, link, in, requests, next_req_id, dead>>
      BY <1>10 DEF UploadStep
  <2>. QED
      BY <1>1, <1>2, <2>2, <2>3, <2>4 DEF TypeInv, Calls
<1>11. ASSUME NEW j \in Job, NEW f \in File, Upload(j, f) PROVE TypeInv' /\ ConnInv'
    BY <1>10, <1>11, UploadIs
<1>12. ASSUME NEW j \in Job, NEW f \in File, Download(j, f) PROVE TypeInv' /\ ConnInv'
  <2>1. UNCHANGED <<store, conns, link, in>>
      BY <1>12 DEF Download
  <2>2. CASE conns = << >>
    <3>1. dead' = "no connection" /\ UNCHANGED <<out, requests, next_req_id, job>>
        BY <1>12, <2>2 DEF Download
    <3>. QED
        BY <1>1, <1>2, <2>1, <3>1 DEF TypeInv, Calls
  <2>3. CASE conns # << >>
    <3>1. PICK v \in DownloadCall : job' = [job EXCEPT ![j] = v]
        BY <1>12, <2>3, DownloadIs
    <3>2. Ask(j, Meta(f), requests) /\ UNCHANGED dead
        BY <1>12, <2>3 DEF Download
    <3>3. /\ next_req_id' \in [Peer -> Nat] /\ out' \in [Peer -> Seq(OutMsg)]
          /\ requests' \in [Peer -> SUBSET [req : Nat, job : Job]]
        BY <1>1, <2>3, <3>2, AskIs, BlockFacts DEF Asks
    <3>4. job' \in [Job -> Calls]
        BY <3>1, CallsTyped DEF Calls
    <3>. QED
        BY <1>1, <1>2, <2>1, <3>2, <3>3, <3>4 DEF TypeInv, Calls
  <2>. QED
      BY <2>2, <2>3
<1>13. ASSUME NEW j \in Job, ImportBlock(j) PROVE TypeInv' /\ ConnInv'
  <2>1. PICK v \in ImportCall, b \in Data :
            /\ store' = [store EXCEPT ![Me] = store[Me] \cup {b}]
            /\ job' = [job EXCEPT ![j] = v]
      BY <1>13, ImportBlockIs
  <2>2. job' \in [Job -> Calls]
      BY <2>1, CallsTyped DEF Calls
  <2>3. store' \in [Node -> SUBSET Data]
    <3>1. PICK S \in SUBSET Data : S = store[Me] \cup {b}
      <4>1. Me \in Node
          BY DEF Node
      <4>2. store[Me] \cup {b} \in SUBSET Data
          BY <1>1, <4>1
      <4>. QED
          BY <4>2
    <3>. QED
        BY <1>1, <2>1, <3>1
  <2>4. UNCHANGED <<conns, link, out, in, requests, next_req_id, dead>>
      BY <1>13 DEF ImportBlock, net
  <2>. QED
      BY <1>1, <1>2, <2>2, <2>3, <2>4 DEF TypeInv, Calls
<1>14. ASSUME NEW j \in Job, NEW s \in {"ok", "error"}, job[j] \in UploadCall,
              job' = [job EXCEPT ![j].state = s]
       PROVE  job' \in [Job -> Calls]
  <2>1. PICK v \in UploadCall : v = [job[j] EXCEPT !.state = s]
    <3>1. [job[j] EXCEPT !.state = s] \in UploadCall
        BY <1>14 DEF UploadCall
    <3>. QED
        BY <3>1
  <2>2. job' = [job EXCEPT ![j] = v]
      BY <1>14, <2>1
  <2>. QED
      BY <2>2, CallsTyped DEF Calls
<1>15. ASSUME NEW j \in Job, WriteDone(j) PROVE TypeInv' /\ ConnInv'
  <2>1. UNCHANGED <<store, conns, link, in, requests, next_req_id>> /\ job[j] \in UploadCall
      BY <1>15, WriteDoneIs
  <2>2. CASE UNCHANGED <<out, dead>> /\ job' = [job EXCEPT ![j].state = "ok"]
    <3>1. job' \in [Job -> Calls]
        BY <1>14, <2>1, <2>2
    <3>. QED
        BY <1>1, <1>2, <2>1, <2>2, <3>1 DEF TypeInv, Calls
  <2>3. CASE dead' = "no connection" /\ UNCHANGED <<out, job>>
      BY <1>1, <1>2, <2>1, <2>3 DEF TypeInv, Calls
  <2>. QED
      BY <1>10, <1>15, <2>2, <2>3, WriteDoneIs
<1>16. ASSUME NEW j \in Job, WriteFailed(j) PROVE TypeInv' /\ ConnInv'
  <2>1. job[j] \in UploadCall
      BY <1>16, CallTypes DEF WriteFailed, Writing
  <2>2. job' \in [Job -> Calls]
      BY <1>14, <1>16, <2>1 DEF WriteFailed
  <2>3. UNCHANGED <<store, conns, link, out, in, requests, next_req_id, dead>>
      BY <1>16 DEF WriteFailed, net
  <2>. QED
      BY <1>1, <1>2, <2>2, <2>3 DEF TypeInv, Calls
<1>. QED
    BY <1>3, <1>4, <1>5, <1>6, <1>7, <1>8, <1>9, <1>11, <1>12, <1>13, <1>15, <1>16, Actions

-----------------------------------------------------------------------------
(* The step that changes a call is of the call's own kind.                 *)
LEMMA CallChanges ==
    ASSUME TypeInv, ImportInv, UploadInv, DownloadInv, WaitInv, Next,
           NEW i \in Job, job'[i] # job[i]
    PROVE  \/ job'[i].op = "import" /\ ((\E f \in File : Import(i, f)) \/ ImportBlock(i))
           \/ job'[i].op = "export" /\ \E f \in File : Export(i, f)
           \/ /\ job'[i].op = "upload"
              /\ (\E f \in File : Upload(i, f)) \/ WriteDone(i) \/ WriteFailed(i)
           \/ job'[i].op = "download" /\ \E f \in File : Download(i, f) /\ conns # << >>
           \/ job'[i].op = "download" /\ \E p \in Peer : Report(p)
<1>1. ASSUME NEW j \in Job, NEW v \in Calls, job' = [job EXCEPT ![j] = v]
      PROVE  i = j /\ job'[i] = v
    BY <1>1, CallsTyped
<1>2. ASSUME NEW j \in Job, NEW f \in File, Import(j, f)
      PROVE  i = j /\ job'[i].op = "import"
  <2>1. PICK v \in ImportCall : job' = [job EXCEPT ![j] = v]
      BY <1>2, ImportIs
  <2>2. v \in Calls /\ v.op = "import"
      BY DEF Calls, ImportCall
  <2>. QED
      BY <1>1, <2>1, <2>2
<1>3. ASSUME NEW j \in Job, ImportBlock(j) PROVE i = j /\ job'[i].op = "import"
  <2>1. PICK v \in ImportCall : job' = [job EXCEPT ![j] = v]
      BY <1>3, ImportBlockIs
  <2>2. v \in Calls /\ v.op = "import"
      BY DEF Calls, ImportCall
  <2>. QED
      BY <1>1, <2>1, <2>2
<1>4. ASSUME NEW j \in Job, NEW f \in File, Export(j, f)
      PROVE  i = j /\ job'[i].op = "export"
  <2>1. job' # job
      OBVIOUS
  <2>2. PICK v \in ExportCall : job' = [job EXCEPT ![j] = v]
      BY <1>4, <2>1, ExportIs
  <2>3. v \in Calls /\ v.op = "export"
      BY DEF Calls, ExportCall
  <2>. QED
      BY <1>1, <2>2, <2>3
<1>5. ASSUME NEW j \in Job, NEW u, NEW v, NEW b, UploadStep(j, u, v, b)
      PROVE  i = j /\ job'[i].op = "upload"
  <2>1. v \in Calls /\ v.op = "upload" /\ job' = [job EXCEPT ![j] = v]
      BY <1>5 DEF Calls, UploadCall, UploadStep
  <2>. QED
      BY <1>1, <2>1
<1>6. ASSUME NEW j \in Job, NEW f \in File, Upload(j, f)
      PROVE  i = j /\ job'[i].op = "upload"
    BY <1>5, <1>6, UploadIs
<1>7. ASSUME NEW j \in Job, NEW s \in {"ok", "error"}, job[j] \in UploadCall,
             job' = [job EXCEPT ![j].state = s]
      PROVE  i = j /\ job'[i].op = "upload"
  <2>1. PICK v \in UploadCall : v = [job[j] EXCEPT !.state = s]
    <3>1. [job[j] EXCEPT !.state = s] \in UploadCall
        BY <1>7 DEF UploadCall
    <3>. QED
        BY <3>1
  <2>2. job' = [job EXCEPT ![j] = v]
      BY <1>7, <2>1
  <2>3. v \in Calls /\ v.op = "upload"
      BY DEF Calls, UploadCall
  <2>. QED
      BY <1>1, <2>2, <2>3
<1>8. ASSUME NEW j \in Job, WriteDone(j) PROVE i = j /\ job'[i].op = "upload"
  <2>1. job' # job
      OBVIOUS
  <2>. QED
      BY <1>5, <1>7, <1>8, <2>1, WriteDoneIs
<1>9. ASSUME NEW j \in Job, WriteFailed(j) PROVE i = j /\ job'[i].op = "upload"
  <2>1. job[j] \in UploadCall
      BY <1>9, CallTypes DEF WriteFailed, Writing
  <2>. QED
      BY <1>7, <1>9, <2>1 DEF WriteFailed
<1>10. ASSUME NEW j \in Job, NEW f \in File, Download(j, f)
       PROVE  i = j /\ conns # << >> /\ job'[i].op = "download"
  <2>1. conns # << >>
      BY <1>10 DEF Download
  <2>2. PICK v \in DownloadCall : job' = [job EXCEPT ![j] = v]
      BY <1>10, <2>1, DownloadIs
  <2>3. v \in Calls /\ v.op = "download"
      BY DEF Calls, DownloadCall
  <2>. QED
      BY <1>1, <2>1, <2>2, <2>3
<1>11. ASSUME NEW p \in Peer, Report(p) PROVE job'[i].op = "download"
  <2>1. job' # job
      OBVIOUS
  <2>2. PICK r, m, pending, v : Resumes(p, r, m, pending, v)
      BY <1>11, <2>1, ReportCases
  <2>3. r.job \in Job /\ v \in Calls /\ v.op = "download" /\ job' = [job EXCEPT ![r.job] = v]
      BY <2>2 DEF Resumes, Calls, DownloadCall
  <2>. QED
      BY <1>1, <2>3
<1>12. ASSUME NEW p \in Peer, Connect(p) \/ Break(p) \/ Closed(p) \/ Serve(p) PROVE FALSE
    BY <1>12 DEF Connect, Break, Closed, Serve
<1>. QED
    BY <1>2, <1>3, <1>4, <1>6, <1>8, <1>9, <1>10, <1>11, <1>12, Actions

(* Stores only grow, and a broken connection stays broken.                 *)
LEMMA StoresGrow ==
    ASSUME TypeInv, ImportInv, UploadInv, DownloadInv, WaitInv, Next
    PROVE  /\ \A n \in Node : store[n] \subseteq store'[n]
           /\ NoneBroken' => NoneBroken
<1>1. store \in [Node -> SUBSET Data] /\ link \in [Peer -> {"none", "up", "broken"}]
    BY DEF TypeInv
<1>2. \A p \in Peer : Connect(p) \/ Break(p) \/ Closed(p) =>
          store' = store /\ (NoneBroken' => NoneBroken)
    BY <1>1 DEF Connect, Break, Closed, NoneBroken
<1>3. ASSUME NEW p \in Peer, Serve(p)
      PROVE  /\ \A n \in Node : store[n] \subseteq store'[n]
             /\ NoneBroken' => NoneBroken
  <2>1. \A n \in Node : store[n] \subseteq store'[n]
      BY <1>3, ServeIs
  <2>2. link' = link
      BY <1>3 DEF Serve
  <2>. QED
      BY <2>1, <2>2 DEF NoneBroken
<1>4. \A p \in Peer : Report(p) => UNCHANGED <<store, link>>
    BY DEF Report
<1>5. \A j \in Job : \A f \in File :
          Import(j, f) \/ Export(j, f) \/ Upload(j, f) \/ Download(j, f) => UNCHANGED <<store, link>>
    BY DEF Import, Export, Upload, Download, net
<1>6. ASSUME NEW j \in Job, ImportBlock(j)
      PROVE  link' = link /\ \A n \in Node : store[n] \subseteq store'[n]
  <2>1. PICK b \in Data : store' = [store EXCEPT ![Me] = store[Me] \cup {b}]
      BY <1>6, ImportBlockIs
  <2>2. \A n \in Node : store[n] \subseteq store'[n]
      BY <1>1, <2>1
  <2>. QED
      BY <1>6, <2>2 DEF ImportBlock, net
<1>7. \A j \in Job : WriteDone(j) \/ WriteFailed(j) => UNCHANGED <<store, link>>
    BY DEF WriteDone, WriteFailed, net
<1>. QED
    BY <1>2, <1>3, <1>4, <1>5, <1>6, <1>7, Actions DEF NoneBroken

(* Here, and with a peer: whoever holds a metafile.                        *)
LEMMA ListedParts ==
    /\ ListedIsHeld <=>
         (Listed(store[Me]) /\ (NoneBroken => \A p \in Peer : Listed(store[p])))
    /\ ListedIsHeld' <=>
         (Listed(store'[Me]) /\ (NoneBroken' => \A p \in Peer : Listed(store'[p])))
<1>1. Me \in Node /\ \A n \in Node : n = Me \/ n \in Peer
    BY DEF Node
<1>2. \A p \in Peer : p \in Node /\ p # Me
    BY SizeAssumption DEF Node, Me
<1>3. ListedIsHeld <=>
         (Listed(store[Me]) /\ (NoneBroken => \A p \in Peer : Listed(store[p])))
    BY <1>1, <1>2 DEF ListedIsHeld, Listed
<1>4. ListedIsHeld' <=>
         (Listed(store'[Me]) /\ (NoneBroken' => \A p \in Peer : Listed(store'[p])))
    BY <1>1, <1>2 DEF ListedIsHeld, Listed
<1>. QED
    BY <1>3, <1>4

(* One more block.                                                         *)
LEMMA OneMoreBlock ==
    ASSUME NEW f, NEW n \in Nat
    PROVE  /\ FirstBlocks(f, 0) = {}
           /\ \A b \in FirstBlocks(f, n + 1) : b \in FirstBlocks(f, n) \/ b = Block(f, n + 1)
<1>1. \A k \in 1 .. n + 1 : k \in 1 .. n \/ k = n + 1
    OBVIOUS
<1>2. \A b \in FirstBlocks(f, n + 1) : b \in FirstBlocks(f, n) \/ b = Block(f, n + 1)
    BY <1>1 DEF FirstBlocks
<1>3. FirstBlocks(f, 0) = {}
    BY DEF FirstBlocks
<1>. QED
    BY <1>2, <1>3

(* An import stores a file's blocks in turn, and the metafile after them.  *)
LEMMA ImportStep ==
    ASSUME TypeInv, ImportInv, UploadInv, DownloadInv, WaitInv, HeldInv, Listed(store[Me]), Next
    PROVE  ImportInv' /\ HeldInv' /\ Listed(store'[Me])
<1>1. \A n \in Node : store[n] \subseteq store'[n]
    BY StoresGrow
<1>2. store \in [Node -> SUBSET Data] /\ Me \in Node
    BY DEF TypeInv, Node
<1>3. HeldInv'
  <2>1. \A p \in Peer : p \in Node
      BY DEF Node
  <2>. QED
      BY <1>1, <2>1 DEF HeldInv
<1>4. ImportInv'
  <2>. SUFFICES ASSUME NEW i \in Job, job'[i].op = "import"
                PROVE  /\ CutAt(job'[i].file, job'[i].at, job'[i].len)
                       /\ FirstBlocks(job'[i].file, job'[i].at) \subseteq store'[Me]
      BY DEF ImportInv
  <2>1. CASE job'[i] = job[i]
      BY <1>1, <1>2, <2>1 DEF ImportInv
  <2>2. ASSUME NEW f \in File, Import(i, f)
        PROVE  /\ CutAt(job'[i].file, job'[i].at, job'[i].len)
               /\ FirstBlocks(job'[i].file, job'[i].at) \subseteq store'[Me]
    <3>1. PICK v \in ImportCall : /\ job' = [job EXCEPT ![i] = v]
                                  /\ v.file = f /\ v.at = 0 /\ v.len = Size[f]
        BY <2>2, ImportIs
    <3>2. job'[i] = v
        BY <3>1, CallsTyped DEF Calls
    <3>. QED
        BY <3>1, <3>2, CutStarts, OneMoreBlock
  <2>3. CASE ImportBlock(i)
    <3>1. PICK v \in ImportCall, b \in Data :
              /\ store' = [store EXCEPT ![Me] = store[Me] \cup {b}]
              /\ job' = [job EXCEPT ![i] = v]
              /\ ImportedBlock(job[i], v, b)
        BY <2>3, ImportBlockIs
    <3>2. job'[i] = v
        BY <3>1, CallsTyped DEF Calls
    <3>3. store'[Me] = store[Me] \cup {b}
        BY <1>2, <3>1
    <3>4. /\ job[i].op = "import" /\ job[i].at \in Nat
          /\ FirstBlocks(job[i].file, job[i].at) \subseteq store[Me]
        BY <2>3, ImportBlockIs, CallTypes DEF ImportInv, ImportCall
    <3>5. v.file = job[i].file /\ CutAt(v.file, v.at, v.len)
        BY <3>1 DEF ImportedBlock
    <3>6. CASE v.at = job[i].at
        BY <3>2, <3>3, <3>4, <3>5, <3>6
    <3>7. CASE v.at = job[i].at + 1 /\ b = Block(job[i].file, v.at)
        BY <3>2, <3>3, <3>4, <3>5, <3>7, OneMoreBlock
    <3>. QED
        BY <3>1, <3>6, <3>7 DEF ImportedBlock
  <2>. QED
      BY <2>1, <2>2, <2>3, CallChanges
<1>5. Listed(store'[Me])
  <2>1. CASE store'[Me] = store[Me]
      BY <2>1
  <2>2. ASSUME NEW j \in Job, ImportBlock(j) PROVE Listed(store'[Me])
    <3>1. PICK v \in ImportCall, b \in Data :
              /\ store' = [store EXCEPT ![Me] = store[Me] \cup {b}]
              /\ ImportedBlock(job[j], v, b)
        BY <2>2, ImportBlockIs
    <3>2. store'[Me] = store[Me] \cup {b}
        BY <1>2, <3>1
    <3>3. PICK d : d = job[j] /\ d.at \in Nat /\ d.file \in File
                   /\ FirstBlocks(d.file, d.at) \subseteq store[Me]
        BY <2>2, ImportBlockIs, CallTypes DEF ImportInv, ImportCall
    <3>. SUFFICES ASSUME NEW f \in File, Meta(f) \in store'[Me]
                  PROVE  BlocksOf(f) \subseteq store'[Me]
        BY DEF Listed
    <3>4. CASE Meta(f) \in store[Me]
        BY <1>1, <1>2, <3>4 DEF Listed
    <3>5. CASE Meta(f) = b
      <4>1. b \notin FirstBlocks(d.file, d.at + 1) /\ b # Nothing
        <5>1. d.at + 1 \in Nat
            BY <3>3
        <5>. QED
            BY <3>5, <5>1, BlockFacts
      <4>2. d.at + 1 \in 1 .. d.at + 1
          BY <3>3
      <4>3. b # Block(d.file, d.at + 1)
          BY <4>1, <4>2 DEF FirstBlocks
      <4>4. b = Meta(d.file) /\ d.at = LastBlock(d.file)
          BY <3>1, <3>3, <4>1, <4>3 DEF ImportedBlock
      <4>5. f = d.file
          BY <3>3, <3>5, <4>4, BlockFacts
      <4>6. BlocksOf(f) = FirstBlocks(d.file, d.at)
          BY <4>4, <4>5, BlockFacts
      <4>. QED
          BY <3>2, <3>3, <4>6
    <3>. QED
        BY <3>2, <3>4, <3>5
  <2>3. ASSUME NEW p \in Peer, Serve(p) PROVE store'[Me] = store[Me]
    <3>1. Me # p
        BY SizeAssumption DEF Me
    <3>. QED
        BY <1>2, <2>3, <3>1, ServeIs
  <2>4. \A p \in Peer : Connect(p) \/ Break(p) \/ Closed(p) \/ Report(p) => store' = store
      BY DEF Connect, Break, Closed, Report
  <2>5. \A j \in Job : \A f \in File :
            Import(j, f) \/ Export(j, f) \/ Upload(j, f) \/ Download(j, f) => store' = store
      BY DEF Import, Export, Upload, Download
  <2>6. \A j \in Job : WriteDone(j) \/ WriteFailed(j) => store' = store
      BY DEF WriteDone, WriteFailed
  <2>. QED
      BY <2>1, <2>2, <2>3, <2>4, <2>5, <2>6, Actions
<1>. QED
    BY <1>3, <1>4, <1>5

(* A file is exported as it is held.                                       *)
LEMMA ExportStep ==
    ASSUME TypeInv, ImportInv, UploadInv, DownloadInv, WaitInv, Listed(store[Me]),
           ExportedWhole, Next
    PROVE  ExportedWhole'
<1>. SUFFICES ASSUME NEW i \in Job, job'[i].op = "export"
              PROVE  job'[i].wrote =
                        [k \in 1 .. LastBlock(job'[i].file) |-> Block(job'[i].file, k)]
    BY DEF ExportedWhole
<1>1. CASE job'[i] = job[i]
    BY <1>1 DEF ExportedWhole
<1>2. ASSUME NEW f \in File, Export(i, f), job'[i] # job[i]
      PROVE  job'[i].wrote =
                [k \in 1 .. LastBlock(job'[i].file) |-> Block(job'[i].file, k)]
  <2>1. job' # job
      BY <1>2
  <2>2. PICK v \in ExportCall :
            /\ job' = [job EXCEPT ![i] = v] /\ v.file = f
            /\ v.wrote = [k \in 1 .. LastBlock(f) |-> ReadBlock(Me, Block(f, k))]
      BY <1>2, <2>1, ExportIs
  <2>3. Meta(f) \in store[Me]
      BY <1>2, <2>1, ExportIs
  <2>4. job'[i] = v
      BY <2>2, CallsTyped DEF Calls
  <2>5. \A k \in 1 .. LastBlock(f) : ReadBlock(Me, Block(f, k)) = Block(f, k)
      BY <2>3, BlockFacts DEF ReadBlock, Listed
  <2>6. PICK R, W : /\ R = [k \in 1 .. LastBlock(f) |-> ReadBlock(Me, Block(f, k))]
                    /\ W = [k \in 1 .. LastBlock(f) |-> Block(f, k)]
      OBVIOUS
  <2>7. R = W
      BY <2>5, <2>6
  <2>8. job'[i].wrote = R /\ job'[i].file = f
      BY <2>2, <2>4, <2>6
  <2>. QED
      BY <2>6, <2>7, <2>8, Zenon
<1>. QED
    BY <1>1, <1>2, CallChanges

-----------------------------------------------------------------------------
(* An upload is cut as an import is.                                       *)
LEMMA UploadCut ==
    ASSUME TypeInv, ImportInv, UploadInv, DownloadInv, WaitInv, Next
    PROVE  UploadInv'
<1>. DEFINE Ok(d) == /\ CutAt(d.file, d.at, d.len)
                     /\ d.state \in {"last", "ok"} => d.len = 0
<1>. SUFFICES ASSUME NEW i \in Job, job'[i].op = "upload" PROVE Ok(job'[i])
    BY DEF UploadInv
<1>1. CASE job'[i] = job[i]
    BY <1>1 DEF UploadInv
<1>2. ASSUME NEW u, NEW v, NEW b, UploadStep(i, u, v, b), u.state = "writing"
      PROVE  Ok(job'[i])
  <2>1. job'[i] = v
      BY <1>2, CallsTyped DEF UploadStep, Calls
  <2>2. Ok(v)
      BY <1>2 DEF UploadStep, SentBlock
  <2>. QED
      BY <2>1, <2>2
<1>3. ASSUME NEW f \in File, Upload(i, f) PROVE Ok(job'[i])
  <2>1. PICK p \in Peer : \E v, b : UploadStep(i, UploadFile(f, p), v, b)
      BY <1>3, UploadIs
  <2>. QED
      BY <1>2, <2>1, FirstCalls
<1>4. ASSUME NEW s, job[i] \in UploadCall, job' = [job EXCEPT ![i].state = s],
             s = "error" \/ (s = "ok" /\ job[i].state = "last")
      PROVE  Ok(job'[i])
  <2>1. /\ job'[i].file = job[i].file /\ job'[i].at = job[i].at
        /\ job'[i].len = job[i].len /\ job'[i].state = s
      BY <1>4 DEF UploadCall, TypeInv
  <2>2. job[i].op = "upload"
      BY <1>4 DEF UploadCall
  <2>3. /\ CutAt(job[i].file, job[i].at, job[i].len)
        /\ job[i].state = "last" => job[i].len = 0
      BY <2>2 DEF UploadInv
  <2>. QED
      BY <1>4, <2>1, <2>3
<1>5. ASSUME WriteDone(i), job'[i] # job[i] PROVE Ok(job'[i])
  <2>1. job' # job
      BY <1>5
  <2>. QED
      BY <1>2, <1>4, <1>5, <2>1, WriteDoneIs
<1>6. ASSUME WriteFailed(i) PROVE Ok(job'[i])
    BY <1>4, <1>6, CallTypes DEF WriteFailed, Writing
<1>. QED
    BY <1>1, <1>3, <1>5, <1>6, CallChanges

-----------------------------------------------------------------------------
(* What is sent.  A peer that takes the next message has all that was to   *)
(* arrive, one message sooner.                                             *)
LEMMA TakenArrives ==
    ASSUME NEW S, NEW T, NEW q \in Seq(OutMsg), q # << >>, NEW t, t = Tail(q),
           S \subseteq T, \A b : q[1] = StoreBlock(b) => b \in T,
           \A b \in T : b \in S \/ q[1] = StoreBlock(b)
    PROVE  /\ InOrder(S, q) /\ Listed(S) => InOrder(T, t) /\ Listed(T)
           /\ \A d : HasSent(S, q, d) => HasSent(T, t, d)
<1>1. /\ Len(q) \in Nat \ {0} /\ Len(t) = Len(q) - 1
      /\ \A i \in 1 .. Len(q) - 1 : t[i] = q[i + 1]
    BY QueueTail
<1>2. ASSUME NEW n \in 1 .. Len(q), NEW b, Arrives(S, q, n, b)
      PROVE  Arrives(T, t, n - 1, b)
  <2>1. CASE b \in S
      BY <2>1 DEF Arrives
  <2>2. ASSUME NEW i \in 1 .. n, q[i] = StoreBlock(b) PROVE Arrives(T, t, n - 1, b)
    <3>1. CASE i = 1
        BY <2>2, <3>1 DEF Arrives
    <3>2. CASE i # 1
      <4>1. i - 1 \in 1 .. n - 1 /\ i - 1 \in 1 .. Len(q) - 1 /\ (i - 1) + 1 = i
          BY <1>1, <3>2
      <4>2. t[i - 1] = StoreBlock(b)
          BY <1>1, <2>2, <4>1
      <4>. QED
          BY <4>1, <4>2 DEF Arrives
    <3>. QED
        BY <3>1, <3>2
  <2>. QED
      BY <1>2, <2>1, <2>2 DEF Arrives
<1>3. \A b : Arrives(S, q, Len(q), b) => Arrives(T, t, Len(t), b)
    BY <1>1, <1>2
<1>4. ASSUME NEW d, HasSent(S, q, d) PROVE HasSent(T, t, d)
    BY <1>3, <1>4 DEF HasSent, AllArrive
<1>5. ASSUME InOrder(S, q), Listed(S) PROVE InOrder(T, t)
  <2>. SUFFICES ASSUME NEW i \in 1 .. Len(t), NEW f \in File, t[i] = StoreBlock(Meta(f))
                PROVE  AllArrive(T, t, i - 1, BlocksOf(f))
      BY DEF InOrder
  <2>1. i + 1 \in 1 .. Len(q) /\ i \in 1 .. Len(q) /\ q[i + 1] = t[i] /\ (i + 1) - 1 = i
      BY <1>1
  <2>2. AllArrive(S, q, i, BlocksOf(f))
      BY <1>5, <2>1 DEF InOrder
  <2>. QED
      BY <1>2, <2>1, <2>2 DEF AllArrive
<1>6. ASSUME InOrder(S, q), Listed(S) PROVE Listed(T)
  <2>. SUFFICES ASSUME NEW f \in File, Meta(f) \in T PROVE BlocksOf(f) \subseteq T
      BY DEF Listed
  <2>1. CASE Meta(f) \in S
      BY <1>6, <2>1 DEF Listed
  <2>2. CASE q[1] = StoreBlock(Meta(f))
    <3>1. 1 \in 1 .. Len(q) /\ 1 - 1 = 0
        BY <1>1
    <3>2. AllArrive(S, q, 0, BlocksOf(f))
        BY <1>6, <2>2, <3>1 DEF InOrder
    <3>3. \A b \in BlocksOf(f) : b \in S
        BY <3>2 DEF AllArrive, Arrives
    <3>. QED
        BY <3>3
  <2>. QED
      BY <2>1, <2>2
<1>. QED
    BY <1>4, <1>5, <1>6

(* A message that is added to a queue takes nothing from what is on its    *)
(* way; a metafile follows its blocks.                                     *)
LEMMA AddedArrives ==
    ASSUME NEW S, NEW q \in Seq(OutMsg), NEW m \in OutMsg, NEW t, t = Append(q, m),
           \A f \in File : m = StoreBlock(Meta(f)) => AllArrive(S, q, Len(q), BlocksOf(f))
    PROVE  /\ InOrder(S, q) => InOrder(S, t)
           /\ \A b : Arrives(S, q, Len(q), b) => Arrives(S, t, Len(t), b)
           /\ \A b : m = StoreBlock(b) => Arrives(S, t, Len(t), b)
           /\ \A d : HasSent(S, q, d) => HasSent(S, t, d)
<1>1. /\ Len(q) \in Nat /\ Len(t) = Len(q) + 1 /\ t[Len(q) + 1] = m
      /\ \A i \in 1 .. Len(q) : t[i] = q[i]
    BY QueueAppend
<1>2. ASSUME NEW n \in 0 .. Len(q), NEW l \in n .. Len(q) + 1, NEW b, Arrives(S, q, n, b)
      PROVE  Arrives(S, t, l, b)
  <2>1. CASE b \in S
      BY <2>1 DEF Arrives
  <2>2. ASSUME NEW i \in 1 .. n, q[i] = StoreBlock(b) PROVE Arrives(S, t, l, b)
    <3>1. i \in 1 .. l /\ i \in 1 .. Len(q)
        BY <1>1
    <3>. QED
        BY <1>1, <2>2, <3>1 DEF Arrives
  <2>. QED
      BY <1>2, <2>1, <2>2 DEF Arrives
<1>3. \A b : Arrives(S, q, Len(q), b) => Arrives(S, t, Len(t), b)
  <2>1. Len(q) \in 0 .. Len(q) /\ Len(t) \in Len(q) .. Len(q) + 1
      BY <1>1
  <2>. QED
      BY <1>2, <2>1
<1>4. \A b : m = StoreBlock(b) => Arrives(S, t, Len(t), b)
  <2>1. Len(t) \in 1 .. Len(t) /\ t[Len(t)] = m
      BY <1>1
  <2>. QED
      BY <2>1 DEF Arrives
<1>5. ASSUME NEW d, HasSent(S, q, d) PROVE HasSent(S, t, d)
    BY <1>3, <1>5 DEF HasSent, AllArrive
<1>6. ASSUME InOrder(S, q) PROVE InOrder(S, t)
  <2>. SUFFICES ASSUME NEW i \in 1 .. Len(t), NEW f \in File, t[i] = StoreBlock(Meta(f))
                PROVE  AllArrive(S, t, i - 1, BlocksOf(f))
      BY DEF InOrder
  <2>1. CASE i \in 1 .. Len(q)
    <3>1. AllArrive(S, q, i - 1, BlocksOf(f))
        BY <1>1, <1>6, <2>1 DEF InOrder
    <3>2. i - 1 \in 0 .. Len(q) /\ i - 1 \in i - 1 .. Len(q) + 1
        BY <1>1, <2>1
    <3>. QED
        BY <1>2, <3>1, <3>2 DEF AllArrive
  <2>2. CASE i = Len(q) + 1
    <3>1. m = StoreBlock(Meta(f)) /\ i - 1 = Len(q)
        BY <1>1, <2>2
    <3>2. AllArrive(S, q, Len(q), BlocksOf(f))
        BY <3>1
    <3>3. Len(q) \in 0 .. Len(q) /\ Len(q) \in Len(q) .. Len(q) + 1
        BY <1>1
    <3>. QED
        BY <1>2, <3>1, <3>2, <3>3 DEF AllArrive
  <2>. QED
      BY <1>1, <2>1, <2>2
<1>. QED
    BY <1>3, <1>4, <1>5, <1>6

(* While no connection breaks, what is sent is on its way.                 *)
LEMMA SendArrives ==
    ASSUME TypeInv, ConnInv, NoneBroken, SentInv, conns # << >>,
           NEW p \in Peer, p = Head(conns), NEW m \in OutMsg, Sent(p, m), store' = store,
           \A f \in File : m = StoreBlock(Meta(f)) =>
               AllArrive(store[p], out[p], Len(out[p]), BlocksOf(f))
    PROVE  /\ \A q \in Peer : InOrder(store'[q], out'[q]) /\ Listed(store'[q])
           /\ \A q \in Peer : \A d : HasSent(store[q], out[q], d) => HasSent(store'[q], out'[q], d)
           /\ \A b : Arrives(store[p], out[p], Len(out[p]), b)
                     => Arrives(store'[p], out'[p], Len(out'[p]), b)
           /\ \A b : m = StoreBlock(b) => Arrives(store'[p], out'[p], Len(out'[p]), b)
<1>1. out[p] \in Seq(OutMsg) /\ link[p] \in {"none", "up", "broken"}
    BY DEF TypeInv
<1>2. link[p] = "up"
  <2>1. p = conns[1] /\ 1 \in 1 .. Len(conns)
      BY FirstConn
  <2>. QED
      BY <1>1, <2>1 DEF ConnInv, NoneBroken
<1>3. out'[p] = Append(out[p], m) /\ \A q \in Peer : q # p => out'[q] = out[q]
    BY <1>2, SentIs
<1>4. \A q \in Peer : InOrder(store[q], out[q]) /\ Listed(store[q])
    BY DEF SentInv
<1>5. PICK t : t = Append(out[p], m)
    OBVIOUS
<1>6. /\ InOrder(store[p], t)
      /\ \A b : Arrives(store[p], out[p], Len(out[p]), b) => Arrives(store[p], t, Len(t), b)
      /\ \A b : m = StoreBlock(b) => Arrives(store[p], t, Len(t), b)
      /\ \A d : HasSent(store[p], out[p], d) => HasSent(store[p], t, d)
  <2>1. PICK S, q : S = store[p] /\ q = out[p]
      OBVIOUS
  <2>2. /\ q \in Seq(OutMsg) /\ t = Append(q, m) /\ InOrder(S, q)
        /\ \A f \in File : m = StoreBlock(Meta(f)) => AllArrive(S, q, Len(q), BlocksOf(f))
      BY <1>1, <1>4, <1>5, <2>1
  <2>3. /\ InOrder(S, q) => InOrder(S, t)
        /\ \A b : Arrives(S, q, Len(q), b) => Arrives(S, t, Len(t), b)
        /\ \A b : m = StoreBlock(b) => Arrives(S, t, Len(t), b)
        /\ \A d : HasSent(S, q, d) => HasSent(S, t, d)
      BY <2>2, AddedArrives
  <2>. QED
      BY <2>1, <2>2, <2>3, Zenon
<1>7. out'[p] = t
    BY <1>3, <1>5
<1>8. \A q \in Peer : InOrder(store'[q], out'[q]) /\ Listed(store'[q])
  <2>. TAKE q \in Peer
  <2>1. CASE q = p
      BY <1>4, <1>6, <1>7, <2>1
  <2>2. CASE q # p
      BY <1>3, <1>4, <2>2
  <2>. QED
      BY <2>1, <2>2
<1>9. \A q \in Peer : \A d : HasSent(store[q], out[q], d) => HasSent(store'[q], out'[q], d)
  <2>. TAKE q \in Peer
  <2>1. CASE q = p
      BY <1>6, <1>7, <2>1
  <2>2. CASE q # p
      BY <1>3, <2>2
  <2>. QED
      BY <2>1, <2>2
<1>. QED
    BY <1>6, <1>7, <1>8, <1>9

(* A request is no block, and one block is not another.                    *)
LEMMA MsgsDiffer ==
    /\ \A b, c : StoreBlock(b) = StoreBlock(c) => b = c
    /\ \A i, b, c : RequestBlock(i, b) # StoreBlock(c)
<1>1. \A b : StoreBlock(b).block = b /\ StoreBlock(b).id = "store_block"
    BY DEF StoreBlock
<1>2. \A i, b : RequestBlock(i, b).id = "request_block"
    BY DEF RequestBlock
<1>. QED
    BY <1>1, <1>2

(* What an upload has sent, a block later.                                 *)
LEMMA UploadSends ==
    ASSUME TypeInv, ConnInv, UpInv, SentInv, NoneBroken, NEW j \in Job,
           NEW u \in UploadCall, NEW v, NEW b, UploadStep(j, u, v, b),
           u.state = "writing", u.at = 0 \/ u = job[j]
    PROVE  /\ v.on = Head(conns) /\ v.on \in Peer
           /\ HasSent(store'[v.on], out'[v.on], v)
           /\ \A q \in Peer : InOrder(store'[q], out'[q]) /\ Listed(store'[q])
           /\ \A q \in Peer : \A d : HasSent(store[q], out[q], d) => HasSent(store'[q], out'[q], d)
<1>1. PICK p \in Peer : p = Head(conns)
    BY FirstConn DEF UploadStep
<1>2. PICK m \in OutMsg : m = StoreBlock(b) /\ Sent(p, m)
    BY <1>1, MsgTypes DEF UploadStep
<1>3. u.file \in File /\ u.at \in Nat /\ u.op = "upload"
    BY DEF UploadCall
<1>4. PICK S, q : S = store[p] /\ q = out[p]
    OBVIOUS
<1>5. AllArrive(S, q, Len(q), FirstBlocks(u.file, u.at))
  <2>1. CASE u.at = 0
      BY <2>1, OneMoreBlock DEF AllArrive
  <2>2. CASE u = job[j]
    <3>1. u.on = p /\ HasSent(store[u.on], out[u.on], u)
        BY <1>1, <1>3, <2>2 DEF UpInv
    <3>. QED
        BY <1>4, <3>1 DEF HasSent
  <2>. QED
      BY <2>1, <2>2
<1>6. v.file = u.file /\ v.on = p
    BY <1>1 DEF UploadStep, SentBlock
<1>7. \/ v.state = "writing" /\ v.at = u.at + 1 /\ b = Block(u.file, u.at + 1)
      \/ v.state = "writing" /\ v.at = u.at /\ b = Nothing
      \/ v.state = "last" /\ v.at = u.at /\ u.at = LastBlock(u.file) /\ b = Meta(u.file)
  <2>1. v.state = "last" /\ v.at = u.at /\ v.len = 0 /\ CutAt(v.file, v.at, v.len)
        => u.at = LastBlock(u.file)
      BY <1>3, <1>6, CutEnds
  <2>. QED
      BY <2>1 DEF UploadStep, SentBlock
<1>8. ASSUME NEW f \in File, b = Meta(f) PROVE AllArrive(S, q, Len(q), BlocksOf(f))
  <2>1. b # Nothing /\ b # Block(u.file, u.at + 1)
    <3>1. u.at + 1 \in Nat /\ Block(u.file, u.at + 1) \in FirstBlocks(u.file, u.at + 1)
        BY <1>3 DEF FirstBlocks
    <3>. QED
        BY <1>8, <3>1, BlockFacts
  <2>2. u.at = LastBlock(u.file) /\ b = Meta(u.file)
      BY <1>7, <2>1
  <2>3. f = u.file /\ BlocksOf(f) = FirstBlocks(u.file, u.at)
      BY <1>3, <1>8, <2>2, BlockFacts
  <2>. QED
      BY <1>5, <2>3
<1>9. \A f \in File : m = StoreBlock(Meta(f)) => AllArrive(S, q, Len(q), BlocksOf(f))
    BY <1>2, <1>8, MsgsDiffer
<1>10. /\ \A p1 \in Peer : InOrder(store'[p1], out'[p1]) /\ Listed(store'[p1])
       /\ \A p1 \in Peer : \A d : HasSent(store[p1], out[p1], d) => HasSent(store'[p1], out'[p1], d)
       /\ \A c : Arrives(store[p], out[p], Len(out[p]), c)
                 => Arrives(store'[p], out'[p], Len(out'[p]), c)
       /\ \A c : m = StoreBlock(c) => Arrives(store'[p], out'[p], Len(out'[p]), c)
  <2>1. conns # << >> /\ store' = store
      BY DEF UploadStep
  <2>. QED
      BY <1>1, <1>2, <1>4, <1>9, <2>1, SendArrives
<1>11. PICK T, t : T = store'[p] /\ t = out'[p]
    OBVIOUS
<1>12. /\ \A c : Arrives(S, q, Len(q), c) => Arrives(T, t, Len(t), c)
       /\ Arrives(T, t, Len(t), b)
    BY <1>2, <1>4, <1>10, <1>11
<1>13. AllArrive(T, t, Len(t), FirstBlocks(v.file, v.at))
  <2>1. CASE v.at = u.at
      BY <1>5, <1>6, <1>12, <2>1 DEF AllArrive
  <2>2. CASE v.at = u.at + 1 /\ b = Block(u.file, u.at + 1)
      BY <1>3, <1>5, <1>6, <1>12, <2>2, OneMoreBlock DEF AllArrive
  <2>. QED
      BY <1>7, <2>1, <2>2
<1>14. v.state \in {"last", "ok"} => Arrives(T, t, Len(t), Meta(v.file))
    BY <1>6, <1>7, <1>12
<1>15. HasSent(T, t, v)
    BY <1>13, <1>14 DEF HasSent
<1>. QED
    BY <1>1, <1>6, <1>10, <1>11, <1>15

(* The steps that leave what was sent alone.                               *)
LEMMA QuietStep ==
    ASSUME UpInv, SentInv, NoneBroken, out' = out,
           \A p \in Peer : store'[p] = store[p],
           conns # << >> => conns' # << >> /\ Head(conns') = Head(conns),
           TypeInv,
           \A i \in Job : job'[i].op = "upload" =>
               /\ job[i].op = "upload" /\ job'[i].file = job[i].file
               /\ job'[i].at = job[i].at /\ job'[i].on = job[i].on
               /\ job'[i].state \in {"last", "ok"} => job[i].state \in {"last", "ok"}
    PROVE  UpInv' /\ SentInv'
<1>1. SentInv'
    BY DEF SentInv
<1>2. ASSUME NEW i \in Job, job'[i].op = "upload"
      PROVE  /\ conns' # << >> /\ job'[i].on = Head(conns')
             /\ HasSent(store'[job'[i].on], out'[job'[i].on], job'[i])
  <2>1. /\ job[i].op = "upload" /\ job'[i].file = job[i].file
        /\ job'[i].at = job[i].at /\ job'[i].on = job[i].on
        /\ job'[i].state \in {"last", "ok"} => job[i].state \in {"last", "ok"}
      BY <1>2
  <2>2. conns # << >> /\ job[i].on = Head(conns) /\ HasSent(store[job[i].on], out[job[i].on], job[i])
      BY <2>1 DEF UpInv
  <2>3. conns' # << >> /\ job'[i].on = Head(conns')
      BY <2>1, <2>2
  <2>4. store'[job'[i].on] = store[job[i].on] /\ out'[job'[i].on] = out[job[i].on]
    <3>1. job[i].on \in Peer
        BY <2>2, FirstConn
    <3>. QED
        BY <2>1, <3>1
  <2>5. HasSent(store'[job'[i].on], out'[job'[i].on], job'[i])
    <3>1. PICK S, q, d, e : S = store[job[i].on] /\ q = out[job[i].on] /\ d = job[i] /\ e = job'[i]
        OBVIOUS
    <3>2. HasSent(S, q, d) /\ e.file = d.file /\ e.at = d.at
          /\ (e.state \in {"last", "ok"} => d.state \in {"last", "ok"})
        BY <2>1, <2>2, <3>1, Zenon
    <3>3. HasSent(S, q, e)
        BY <3>2 DEF HasSent
    <3>. QED
        BY <2>4, <3>1, <3>3
  <2>. QED
      BY <2>3, <2>5
<1>. QED
    BY <1>1, <1>2 DEF UpInv

(* The steps that ask for a block.                                         *)
LEMMA AskStep ==
    ASSUME TypeInv, ConnInv, UpInv, SentInv, NoneBroken, conns # << >>, conns' = conns,
           store' = store, NEW j \in Job, NEW b \in Data, NEW pending,
           pending \in [Peer -> SUBSET [req : Nat, job : Job]], Ask(j, b, pending),
           \A i \in Job : job'[i].op = "upload" => job'[i] = job[i]
    PROVE  UpInv' /\ SentInv'
<1>1. PICK p \in Peer, r \in [req : Nat, job : Job] :
          p = Head(conns) /\ Sent(p, RequestBlock(r.req, b))
    BY AskIs DEF Asks
<1>2. PICK m \in OutMsg : m = RequestBlock(r.req, b)
    BY MsgTypes
<1>3. \A f \in File : m # StoreBlock(Meta(f))
    BY <1>2, MsgsDiffer
<1>4. /\ \A q \in Peer : InOrder(store'[q], out'[q]) /\ Listed(store'[q])
      /\ \A q \in Peer : \A d : HasSent(store[q], out[q], d) => HasSent(store'[q], out'[q], d)
    BY <1>1, <1>2, <1>3, SendArrives
<1>5. ASSUME NEW i \in Job, job'[i].op = "upload"
      PROVE  /\ conns' # << >> /\ job'[i].on = Head(conns')
             /\ HasSent(store'[job'[i].on], out'[job'[i].on], job'[i])
  <2>1. job'[i] = job[i] /\ job[i].op = "upload"
      BY <1>5
  <2>2. job[i].on = p /\ HasSent(store[p], out[p], job[i])
      BY <1>1, <2>1 DEF UpInv
  <2>3. HasSent(store'[p], out'[p], job[i])
      BY <1>4, <2>2
  <2>. QED
      BY <1>1, <2>1, <2>2, <2>3
<1>. QED
    BY <1>4, <1>5 DEF UpInv, SentInv

(* While no connection breaks, a peer is sent a file's blocks in turn, and *)
(* the metafile after them; a peer that holds the metafile holds them.     *)
LEMMA UpStep ==
    ASSUME TypeInv, ConnInv, ImportInv, UploadInv, DownloadInv, WaitInv, UpInv, SentInv,
           Next
    PROVE  UpInv' /\ SentInv'
<1>. SUFFICES ASSUME NoneBroken' PROVE UpInv' /\ SentInv'
    BY DEF UpInv, SentInv
<1>0. NoneBroken
    BY StoresGrow
<1>1. ASSUME NEW j \in Job, NEW v \in Calls, v.op # "upload", job' = [job EXCEPT ![j] = v]
      PROVE  \A i \in Job : job'[i].op = "upload" => job'[i] = job[i]
    BY <1>1, CallsTyped
<1>2. ASSUME UNCHANGED <<out, conns>>, \A p \in Peer : store'[p] = store[p],
             \A i \in Job : job'[i].op = "upload" => job'[i] = job[i]
      PROVE  UpInv' /\ SentInv'
    BY <1>0, <1>2, QuietStep
<1>3. ASSUME NEW p \in Peer, Connect(p) PROVE UpInv' /\ SentInv'
  <2>1. UNCHANGED <<store, out, job>>
      BY <1>3 DEF Connect
  <2>2. conns # << >> => conns' # << >> /\ Head(conns') = Head(conns)
      BY <1>3, ConnAdded
  <2>. QED
      BY <1>0, <2>1, <2>2, QuietStep
<1>4. ASSUME NEW p \in Peer, Break(p) \/ Closed(p) PROVE FALSE
    BY <1>0, <1>4, BreakIs DEF Closed, NoneBroken
<1>5. ASSUME NEW p \in Peer, Serve(p) PROVE UpInv' /\ SentInv'
  <2>1. PICK m \in OutMsg :
            /\ out[p] # << >> /\ m = out[p][1] /\ m \in ToSet(out[p])
            /\ out' \in [Peer -> Seq(OutMsg)]
            /\ out' = [out EXCEPT ![p] = Tail(out[p])]
            /\ \A q \in Peer : ToSet(out'[q]) \subseteq ToSet(out[q])
            /\ in' \in [Peer -> Seq(InMsg)] /\ store' \in [Node -> SUBSET Data]
            /\ \A q \in Node : store[q] \subseteq store'[q]
            /\ \A q \in Node : q # p => store'[q] = store[q]
            /\ m.id = "store_block" =>
                 store'[p] = store[p] \cup {m.block} /\ in' = in
            /\ m.id = "request_block" =>
                 /\ store' = store
                 /\ \/ in' = in
                    \/ in' = [in EXCEPT ![p] = Append(in[p],
                                ReportBlock(m.req, ReadBlock(p, m.block)))]
      BY <1>5, ServeIs
  <2>2. PICK S, T, q, t : S = store[p] /\ T = store'[p] /\ q = out[p] /\ t = out'[p]
      OBVIOUS
  <2>3. out \in [Peer -> Seq(OutMsg)]
      BY DEF TypeInv
  <2>4. q \in Seq(OutMsg) /\ q # << >> /\ t = Tail(q) /\ m = q[1]
        /\ \A p1 \in Peer : p1 # p => out'[p1] = out[p1]
      BY <2>1, <2>2, <2>3
  <2>5. /\ S \subseteq T /\ \A b : q[1] = StoreBlock(b) => b \in T
        /\ \A b \in T : b \in S \/ q[1] = StoreBlock(b)
    <3>1. CASE m.id = "store_block"
      <4>1. m = StoreBlock(m.block)
          BY <3>1 DEF OutMsg, StoreBlock
      <4>. QED
          BY <2>1, <2>2, <2>4, <3>1, <4>1, MsgsDiffer
    <3>2. CASE m.id = "request_block"
      <4>1. \A b : m # StoreBlock(b)
          BY <3>2 DEF StoreBlock
      <4>. QED
          BY <2>1, <2>2, <2>4, <3>2, <4>1
    <3>. QED
        BY <3>1, <3>2 DEF OutMsg
  <2>6. /\ InOrder(S, q) /\ Listed(S) => InOrder(T, t) /\ Listed(T)
        /\ \A d : HasSent(S, q, d) => HasSent(T, t, d)
      BY <2>4, <2>5, TakenArrives
  <2>7. \A p1 \in Peer : p1 # p => store'[p1] = store[p1] /\ out'[p1] = out[p1]
      BY <2>1, <2>4 DEF Node
  <2>8. \A p1 \in Peer : InOrder(store'[p1], out'[p1]) /\ Listed(store'[p1])
    <3>. TAKE p1 \in Peer
    <3>1. InOrder(store[p1], out[p1]) /\ Listed(store[p1])
        BY <1>0 DEF SentInv
    <3>2. CASE p1 = p
        BY <2>2, <2>6, <3>1, <3>2
    <3>3. CASE p1 # p
        BY <2>7, <3>1, <3>3
    <3>. QED
        BY <3>2, <3>3
  <2>9. UNCHANGED <<conns, job>>
      BY <1>5 DEF Serve
  <2>10. ASSUME NEW i \in Job, job'[i].op = "upload"
         PROVE  /\ conns' # << >> /\ job'[i].on = Head(conns')
                /\ HasSent(store'[job'[i].on], out'[job'[i].on], job'[i])
    <3>1. conns # << >> /\ job[i].on = Head(conns) /\ HasSent(store[job[i].on], out[job[i].on], job[i])
        BY <1>0, <2>9, <2>10 DEF UpInv
    <3>2. PICK p1 \in Peer : p1 = job[i].on
        BY <3>1, FirstConn
    <3>3. HasSent(store'[p1], out'[p1], job[i])
      <4>1. CASE p1 = p
          BY <2>2, <2>6, <3>1, <3>2, <4>1
      <4>2. CASE p1 # p
          BY <2>7, <3>1, <3>2, <4>2
      <4>. QED
          BY <4>1, <4>2
    <3>. QED
        BY <2>9, <3>1, <3>2, <3>3
  <2>. QED
      BY <2>8, <2>10 DEF UpInv, SentInv
<1>6. ASSUME NEW p \in Peer, Report(p) PROVE UpInv' /\ SentInv'
  <2>1. UNCHANGED <<store, conns>>
      BY <1>6, ReportCases
  <2>2. CASE UNCHANGED <<job, out>>
      BY <1>2, <2>1, <2>2
  <2>3. CASE ~UNCHANGED <<job, out>>
    <3>1. PICK r, m, pending, v :
              Resumes(p, r, m, pending, v) /\ (GoesOn(r, pending, v) \/ IsDone(r, pending, v))
        BY <1>6, <2>3, ReportCases
    <3>2. PICK j \in Job : j = r.job
        BY <3>1 DEF Resumes
    <3>3. v \in Calls /\ v.op # "upload" /\ job' = [job EXCEPT ![j] = v]
        BY <3>1, <3>2 DEF Resumes, Calls, DownloadCall
    <3>4. \A i \in Job : job'[i].op = "upload" => job'[i] = job[i]
        BY <1>1, <3>3
    <3>5. CASE GoesOn(r, pending, v)
      <4>1. v.at \in 1 .. LastBlock(job[j].file) /\ job[j].file \in File
        <5>1. job[j].op = "download"
            BY <3>1, <3>2 DEF Resumes, Waits
        <5>2. job[j] \in DownloadCall
            BY <5>1, CallTypes
        <5>3. job[j].at \in Nat /\ job[j].file \in File
            BY <5>2 DEF DownloadCall
        <5>. QED
            BY <3>2, <3>5, <5>3, BlockFacts DEF GoesOn
      <4>2. PICK b \in Data : b = Block(job[j].file, v.at)
          BY <4>1, BlockFacts
      <4>3. Ask(j, b, pending)
          BY <3>2, <3>5, <4>2 DEF GoesOn
      <4>. QED
          BY <1>0, <2>1, <3>1, <3>4, <4>3, AskStep DEF Resumes
    <3>6. CASE IsDone(r, pending, v)
        BY <1>2, <2>1, <3>4, <3>6 DEF IsDone
    <3>. QED
        BY <3>1, <3>5, <3>6
  <2>. QED
      BY <2>2, <2>3
<1>7. ASSUME NEW j \in Job, NEW f \in File, Import(j, f) PROVE UpInv' /\ SentInv'
  <2>1. PICK v \in ImportCall : job' = [job EXCEPT ![j] = v]
      BY <1>7, ImportIs
  <2>2. v \in Calls /\ v.op # "upload"
      BY DEF Calls, ImportCall
  <2>. QED
      BY <1>1, <1>2, <1>7, <2>1, <2>2 DEF Import, net
<1>8. ASSUME NEW j \in Job, NEW f \in File, Export(j, f) PROVE UpInv' /\ SentInv'
  <2>1. UNCHANGED <<store, out, conns>>
      BY <1>8 DEF Export, net
  <2>2. CASE job' = job
      BY <1>2, <2>1, <2>2
  <2>3. CASE job' # job
    <3>1. PICK v \in ExportCall : job' = [job EXCEPT ![j] = v]
        BY <1>8, <2>3, ExportIs
    <3>2. v \in Calls /\ v.op # "upload"
        BY DEF Calls, ExportCall
    <3>. QED
        BY <1>1, <1>2, <2>1, <3>1, <3>2
  <2>. QED
      BY <2>2, <2>3
<1>9. ASSUME NEW j \in Job, NEW u \in UploadCall, NEW v, NEW b, UploadStep(j, u, v, b),
             u.state = "writing", u.at = 0 \/ u = job[j]
      PROVE  UpInv' /\ SentInv'
  <2>1. /\ v.on = Head(conns) /\ v.on \in Peer
        /\ HasSent(store'[v.on], out'[v.on], v)
        /\ \A q \in Peer : InOrder(store'[q], out'[q]) /\ Listed(store'[q])
        /\ \A q \in Peer : \A d : HasSent(store[q], out[q], d) => HasSent(store'[q], out'[q], d)
      BY <1>0, <1>9, UploadSends
  <2>2. conns # << >> /\ conns' = conns /\ v \in Calls /\ job' = [job EXCEPT ![j] = v]
      BY <1>9 DEF UploadStep, Calls
  <2>3. job'[j] = v /\ \A i \in Job : i # j => job'[i] = job[i]
      BY <2>2, CallsTyped
  <2>4. ASSUME NEW i \in Job, job'[i].op = "upload"
        PROVE  /\ conns' # << >> /\ job'[i].on = Head(conns')
               /\ HasSent(store'[job'[i].on], out'[job'[i].on], job'[i])
    <3>1. CASE i = j
        BY <2>1, <2>2, <2>3, <3>1
    <3>2. CASE i # j
      <4>1. job'[i] = job[i] /\ job[i].op = "upload"
          BY <2>3, <2>4, <3>2
      <4>2. job[i].on = v.on /\ HasSent(store[v.on], out[v.on], job[i])
          BY <1>0, <2>1, <4>1 DEF UpInv
      <4>3. HasSent(store'[v.on], out'[v.on], job[i])
          BY <2>1, <4>2
      <4>. QED
          BY <2>1, <2>2, <4>1, <4>2, <4>3
    <3>. QED
        BY <3>1, <3>2
  <2>. QED
      BY <2>1, <2>4 DEF UpInv, SentInv
<1>10. ASSUME NEW j \in Job, NEW f \in File, Upload(j, f) PROVE UpInv' /\ SentInv'
  <2>1. PICK p \in Peer : \E v, b : UploadStep(j, UploadFile(f, p), v, b)
      BY <1>10, UploadIs
  <2>2. PICK u \in UploadCall : u = UploadFile(f, p) /\ u.at = 0 /\ u.state = "writing"
      BY FirstCalls
  <2>3. PICK v, b : UploadStep(j, u, v, b)
      BY <2>1, <2>2
  <2>. QED
      BY <1>9, <2>2, <2>3
<1>11. ASSUME NEW j \in Job, NEW f \in File, Download(j, f) PROVE UpInv' /\ SentInv'
  <2>1. UNCHANGED <<store, conns>>
      BY <1>11 DEF Download
  <2>2. CASE conns = << >>
      BY <1>2, <1>11, <2>1, <2>2 DEF Download
  <2>3. CASE conns # << >>
    <3>1. Ask(j, Meta(f), requests)
        BY <1>11, <2>3, DownloadIs
    <3>2. PICK v \in DownloadCall : job' = [job EXCEPT ![j] = v]
        BY <1>11, <2>3, DownloadIs
    <3>3. v \in Calls /\ v.op # "upload"
        BY DEF Calls, DownloadCall
    <3>4. \A i \in Job : job'[i].op = "upload" => job'[i] = job[i]
        BY <1>1, <3>2, <3>3
    <3>5. PICK b \in Data : b = Meta(f)
        BY BlockFacts
    <3>6. requests \in [Peer -> SUBSET [req : Nat, job : Job]]
        BY DEF TypeInv
    <3>. QED
        BY <1>0, <2>1, <2>3, <3>1, <3>4, <3>5, <3>6, AskStep
  <2>. QED
      BY <2>2, <2>3
<1>12. ASSUME NEW j \in Job, ImportBlock(j) PROVE UpInv' /\ SentInv'
  <2>1. PICK v \in ImportCall, b \in Data :
            /\ store' = [store EXCEPT ![Me] = store[Me] \cup {b}]
            /\ job' = [job EXCEPT ![j] = v]
      BY <1>12, ImportBlockIs
  <2>2. v \in Calls /\ v.op # "upload"
      BY DEF Calls, ImportCall
  <2>3. \A p \in Peer : store'[p] = store[p]
    <3>1. store \in [Node -> SUBSET Data] /\ \A p \in Peer : p \in Node /\ p # Me
        BY SizeAssumption DEF TypeInv, Node, Me
    <3>. QED
        BY <2>1, <3>1
  <2>. QED
      BY <1>1, <1>2, <1>12, <2>1, <2>2, <2>3 DEF ImportBlock, net
<1>13. ASSUME NEW j \in Job, NEW s, job[j] \in UploadCall, job' = [job EXCEPT ![j].state = s],
              s = "error" \/ (s = "ok" /\ job[j].state = "last"),
              UNCHANGED <<store, out, conns>>
       PROVE  UpInv' /\ SentInv'
  <2>1. \A i \in Job : i # j => job'[i] = job[i]
      BY <1>13 DEF TypeInv
  <2>2. /\ job[j].op = "upload" /\ job'[j].file = job[j].file
        /\ job'[j].at = job[j].at /\ job'[j].on = job[j].on /\ job'[j].state = s
      BY <1>13 DEF UploadCall, TypeInv
  <2>3. \A i \in Job : job'[i].op = "upload" =>
            /\ job[i].op = "upload" /\ job'[i].file = job[i].file
            /\ job'[i].at = job[i].at /\ job'[i].on = job[i].on
            /\ job'[i].state \in {"last", "ok"} => job[i].state \in {"last", "ok"}
      BY <1>13, <2>1, <2>2
  <2>. QED
      BY <1>0, <1>13, <2>3, QuietStep
<1>14. ASSUME NEW j \in Job, WriteDone(j) PROVE UpInv' /\ SentInv'
  <2>1. job[j] \in UploadCall /\ UNCHANGED <<store, conns>>
      BY <1>14, WriteDoneIs
  <2>2. CASE UNCHANGED <<out, job>>
      BY <1>2, <2>1, <2>2
  <2>3. CASE job[j].state = "last" /\ UNCHANGED out /\ job' = [job EXCEPT ![j].state = "ok"]
      BY <1>13, <2>1, <2>3
  <2>4. CASE job[j].state = "writing" /\ \E v, b : UploadStep(j, job[j], v, b)
      BY <1>9, <2>1, <2>4
  <2>. QED
      BY <1>14, <2>2, <2>3, <2>4, WriteDoneIs
<1>15. ASSUME NEW j \in Job, WriteFailed(j) PROVE UpInv' /\ SentInv'
  <2>1. job[j] \in UploadCall
      BY <1>15, CallTypes DEF WriteFailed, Writing
  <2>. QED
      BY <1>13, <1>15, <2>1 DEF WriteFailed, net
<1>. QED
    BY <1>3, <1>4, <1>5, <1>6, <1>7, <1>8, <1>10, <1>11, <1>12, <1>14, <1>15, Actions

-----------------------------------------------------------------------------
(* Only a report changes a download that waits.                            *)
LEMMA WaitsOn ==
    ASSUME TypeInv, ImportInv, UploadInv, DownloadInv, WaitInv, Next,
           \A p \in Peer : ~Report(p)
    PROVE  \A q \in Peer : \A r \in requests[q] : job'[r.job] = job[r.job]
<1>. SUFFICES ASSUME NEW q \in Peer, NEW r \in requests[q], job'[r.job] # job[r.job]
              PROVE  FALSE
    OBVIOUS
<1>1. PICK i \in Job : i = r.job
  <2>1. requests \in [Peer -> SUBSET [req : Nat, job : Job]]
      BY DEF TypeInv
  <2>2. r \in [req : Nat, job : Job]
      BY <2>1
  <2>. QED
      BY <2>2
<1>2. job[i].op = "download"
    BY <1>1 DEF WaitInv, Waits
<1>3. job[i] # Idle
    BY <1>2, CallTypes
<1>4. \A f \in File : ~Import(i, f) /\ ~Export(i, f) /\ ~Upload(i, f) /\ ~Download(i, f)
    BY <1>3 DEF Import, Export, Upload, Download
<1>5. ~ImportBlock(i) /\ ~WriteDone(i) /\ ~WriteFailed(i)
    BY <1>2 DEF ImportBlock, WriteDone, WriteFailed, Writing
<1>6. job'[i] # job[i]
    BY <1>1
<1>. QED
    BY <1>4, <1>5, <1>6, CallChanges

(* The steps that ask for nothing.                                         *)
LEMMA WaitFrame ==
    ASSUME WaitInv, OneInv, NumberInv, UNCHANGED next_req_id,
           \A q \in Peer : requests'[q] \subseteq requests[q],
           \A q \in Peer : \A r \in requests'[q] : job'[r.job] = job[r.job],
           \A q \in Peer : \A m \in ToSet(out'[q]) :
               m \in ToSet(out[q]) \/ m.id = "store_block",
           \A q \in Peer : \A m \in ToSet(in'[q]) :
               \/ m \in ToSet(in[q])
               \/ /\ m.req <= next_req_id[q]
                  /\ \A r \in requests[q] : m.req = r.req => Answer(job[r.job], m.data)
    PROVE  WaitInv' /\ OneInv' /\ NumberInv'
<1>1. ASSUME NEW q \in Peer, NEW r \in requests'[q]
      PROVE  /\ r.req <= next_req_id'[q] /\ Waits(job'[r.job])
             /\ \A m \in ToSet(out'[q]) :
                  m.id = "request_block" /\ m.req = r.req => m.block = Wanted(job'[r.job])
             /\ \A m \in ToSet(in'[q]) : m.req = r.req => Answer(job'[r.job], m.data)
  <2>1. r \in requests[q] /\ job'[r.job] = job[r.job]
      BY <1>1
  <2>2. PICK d : d = job[r.job]
      OBVIOUS
  <2>3. /\ r.req <= next_req_id[q] /\ Waits(d)
        /\ \A m \in ToSet(out[q]) : m.id = "request_block" /\ m.req = r.req => m.block = Wanted(d)
        /\ \A m \in ToSet(in[q]) : m.req = r.req => Answer(d, m.data)
      BY <2>1, <2>2 DEF WaitInv
  <2>4. \A m \in ToSet(out'[q]) : m.id = "request_block" /\ m.req = r.req => m.block = Wanted(d)
      BY <2>3
  <2>5. \A m \in ToSet(in'[q]) : m.req = r.req => Answer(d, m.data)
      BY <2>1, <2>2, <2>3
  <2>. QED
      BY <2>1, <2>2, <2>3, <2>4, <2>5
<1>2. WaitInv'
    BY <1>1 DEF WaitInv
<1>3. OneInv'
    BY DEF OneInv
<1>4. NumberInv'
    BY DEF NumberInv
<1>. QED
    BY <1>2, <1>3, <1>4

(* The steps that ask.                                                     *)
LEMMA WaitAsk ==
    ASSUME TypeInv, WaitInv, OneInv, NumberInv, conns # << >>, NEW j \in Job,
           NEW v \in DownloadCall, v.state = "waiting", job' = [job EXCEPT ![j] = v],
           NEW b \in Data, b = Wanted(v), NEW pending, Ask(j, b, pending),
           pending \in [Peer -> SUBSET [req : Nat, job : Job]],
           \A q \in Peer : pending[q] \subseteq requests[q],
           \A q \in Peer : \A r \in pending[q] : r.job # j,
           \A q \in Peer : ToSet(in'[q]) \subseteq ToSet(in[q])
    PROVE  WaitInv' /\ OneInv' /\ NumberInv'
<1>1. PICK p \in Peer : \E r \in [req : Nat, job : Job] : Asks(p, r, j, b, pending)
    BY AskIs
<1>0. PICK s \in [req : Nat, job : Job] :
          /\ s.req = next_req_id[p] + 1 /\ s.job = j
          /\ next_req_id' = [next_req_id EXCEPT ![p] = s.req]
          /\ requests' = [pending EXCEPT ![p] = pending[p] \cup {s}]
          /\ p = Head(conns) /\ Sent(p, RequestBlock(s.req, b))
          /\ next_req_id' \in [Peer -> Nat]
          /\ requests' \in [Peer -> SUBSET [req : Nat, job : Job]]
          /\ out' \in [Peer -> Seq(OutMsg)]
    BY <1>1 DEF Asks
<1>2. /\ next_req_id \in [Peer -> Nat] /\ requests \in [Peer -> SUBSET [req : Nat, job : Job]]
      /\ out \in [Peer -> Seq(OutMsg)] /\ in \in [Peer -> Seq(InMsg)] /\ job \in [Job -> Calls]
    BY DEF TypeInv, Calls
<1>3. /\ next_req_id'[p] = next_req_id[p] + 1
      /\ \A q \in Peer : next_req_id[q] \in Nat /\ next_req_id[q] <= next_req_id'[q]
    BY <1>0, <1>2
<1>4. \A q \in Peer : \A r \in requests'[q] :
          \/ r \in pending[q] /\ r \in requests[q] /\ r.job # j /\ r.job \in Job
          \/ q = p /\ r = s
  <2>. TAKE q \in Peer
  <2>1. requests'[q] = IF q = p THEN pending[p] \cup {s} ELSE pending[q]
      BY <1>0
  <2>. QED
      BY <1>2, <2>1
<1>5. PICK a \in OutMsg : a = RequestBlock(s.req, b) /\ a.id = "request_block"
                          /\ a.req = s.req /\ a.block = b
    BY MsgTypes
<1>6. \A q \in Peer : \A m \in ToSet(out'[q]) : m \in ToSet(out[q]) \/ (q = p /\ m = a)
  <2>1. /\ \A q \in Peer : q # p => out'[q] = out[q]
        /\ out'[p] = IF link[p] = "up" THEN Append(out[p], a) ELSE out[p]
      BY <1>0, <1>5, SentIs
  <2>2. ToSet(Append(out[p], a)) = ToSet(out[p]) \cup {a}
      BY <1>2, QueueAppend
  <2>. QED
      BY <2>1, <2>2
<1>7. job'[j] = v /\ Waits(v) /\ \A i \in Job : i # j => job'[i] = job[i]
  <2>1. v \in Calls /\ Waits(v)
      BY DEF Calls, DownloadCall, Waits
  <2>. QED
      BY <2>1, CallsTyped
<1>12. /\ \A q \in Peer : \A m \in ToSet(out[q]) :
              m.id = "request_block" => m.req <= next_req_id[q] /\ m.req \in Nat
       /\ \A q \in Peer : \A m \in ToSet(in[q]) : m.req <= next_req_id[q] /\ m.req \in Nat
  <2>1. ASSUME NEW q \in Peer, NEW m \in ToSet(out[q]), m.id = "request_block"
        PROVE  m.req <= next_req_id[q] /\ m.req \in Nat
    <3>1. m \in OutMsg
      <4>1. out[q] \in Seq(OutMsg)
          BY <1>2
      <4>. QED
          BY <4>1, QueueMember
    <3>. QED
        BY <2>1, <3>1 DEF NumberInv, OutMsg
  <2>2. ASSUME NEW q \in Peer, NEW m \in ToSet(in[q])
        PROVE  m.req <= next_req_id[q] /\ m.req \in Nat
    <3>1. m \in InMsg
      <4>1. in[q] \in Seq(InMsg)
          BY <1>2
      <4>. QED
          BY <4>1, QueueMember
    <3>. QED
        BY <3>1 DEF NumberInv, InMsg
  <2>. QED
      BY <2>1, <2>2
<1>8. ASSUME NEW q \in Peer, NEW r \in requests'[q]
      PROVE  /\ r.req <= next_req_id'[q] /\ Waits(job'[r.job])
             /\ \A m \in ToSet(out'[q]) :
                  m.id = "request_block" /\ m.req = r.req => m.block = Wanted(job'[r.job])
             /\ \A m \in ToSet(in'[q]) : m.req = r.req => Answer(job'[r.job], m.data)
  <2>1. CASE r \in requests[q] /\ r.job # j /\ r.job \in Job
    <3>1. job'[r.job] = job[r.job]
        BY <1>7, <2>1
    <3>2. /\ r.req <= next_req_id[q] /\ Waits(job[r.job]) /\ r.req \in Nat
          /\ \A m \in ToSet(out[q]) :
               m.id = "request_block" /\ m.req = r.req => m.block = Wanted(job[r.job])
          /\ \A m \in ToSet(in[q]) : m.req = r.req => Answer(job[r.job], m.data)
        BY <1>2, <2>1 DEF WaitInv
    <3>3. q = p => a.req # r.req
        BY <1>0, <1>3, <1>5, <3>2
    <3>4. \A m \in ToSet(out'[q]) :
              m.id = "request_block" /\ m.req = r.req => m.block = Wanted(job'[r.job])
        BY <1>6, <3>1, <3>2, <3>3
    <3>5. r.req <= next_req_id'[q]
        BY <1>0, <1>3, <3>2
    <3>. QED
        BY <3>1, <3>2, <3>4, <3>5
  <2>2. CASE q = p /\ r = s
    <3>1. job'[r.job] = v /\ r.req = next_req_id'[q] /\ r.req \in Nat
        BY <1>0, <1>2, <1>7, <2>2
    <3>0. PICK n \in Nat : n = next_req_id[q] /\ s.req = n + 1
        BY <1>0, <1>3, <2>2
    <3>2. \A m \in ToSet(out[q]) : m.id = "request_block" => m.req # s.req
      <4>. TAKE m \in ToSet(out[q])
      <4>1. m.id = "request_block" => m.req <= n /\ m.req \in Nat
          BY <1>12, <3>0
      <4>. QED
          BY <3>0, <4>1
    <3>3. \A m \in ToSet(in[q]) : m.req # s.req
      <4>. TAKE m \in ToSet(in[q])
      <4>1. m.req <= n /\ m.req \in Nat
          BY <1>12, <3>0
      <4>. QED
          BY <3>0, <4>1
    <3>4. \A m \in ToSet(out'[q]) :
              m.id = "request_block" /\ m.req = r.req => m.block = Wanted(v)
        BY <1>5, <1>6, <2>2, <3>2
    <3>5. \A m \in ToSet(in'[q]) : m.req = r.req => Answer(v, m.data)
        BY <2>2, <3>3
    <3>. QED
        BY <1>7, <3>1, <3>4, <3>5
  <2>. QED
      BY <1>4, <2>1, <2>2
<1>9. WaitInv'
    BY <1>8 DEF WaitInv
<1>10. OneInv'
  <2>. SUFFICES ASSUME NEW q1 \in Peer, NEW q2 \in Peer, NEW r1 \in requests'[q1],
                       NEW r2 \in requests'[q2]
                PROVE  /\ r1.job = r2.job => q1 = q2 /\ r1 = r2
                       /\ q1 = q2 /\ r1.req = r2.req => r1 = r2
      BY DEF OneInv
  <2>1. \A r \in requests[p] : r.req # s.req
    <3>. TAKE r \in requests[p]
    <3>1. r.req \in Nat /\ r.req <= next_req_id[p]
        BY <1>2 DEF WaitInv
    <3>. QED
        BY <1>0, <1>3, <3>1
  <2>2. r1 \in requests[q1] /\ r2 \in requests[q2] =>
            /\ r1.job = r2.job => q1 = q2 /\ r1 = r2
            /\ q1 = q2 /\ r1.req = r2.req => r1 = r2
      BY DEF OneInv
  <2>. QED
      BY <1>0, <1>4, <2>1, <2>2
<1>11. NumberInv'
  <2>3. \A q \in Peer : next_req_id'[q] \in Nat
      BY <1>0
  <2>4. \A q \in Peer : \A m \in ToSet(out'[q]) :
            m.id = "request_block" => m.req <= next_req_id'[q]
    <3>. TAKE q \in Peer
    <3>. TAKE m \in ToSet(out'[q])
    <3>1. CASE q = p /\ m = a
        BY <1>0, <1>3, <1>5, <2>3, <3>1
    <3>2. CASE m \in ToSet(out[q])
      <4>1. m.id = "request_block" => m.req <= next_req_id[q] /\ m.req \in Nat
          BY <1>12, <3>2
      <4>. QED
          BY <1>3, <2>3, <4>1
    <3>. QED
        BY <1>6, <3>1, <3>2
  <2>5. \A q \in Peer : \A m \in ToSet(in'[q]) : m.req <= next_req_id'[q]
    <3>. TAKE q \in Peer
    <3>. TAKE m \in ToSet(in'[q])
    <3>1. m \in ToSet(in[q])
        OBVIOUS
    <3>2. m.req <= next_req_id[q] /\ m.req \in Nat
        BY <1>12, <3>1
    <3>. QED
        BY <1>3, <2>3, <3>2
  <2>6. \A q \in Peer : \A r \in requests'[q] : r.req > 0
    <3>1. s.req > 0
        BY <1>0, <1>3
    <3>. QED
        BY <1>4, <3>1 DEF NumberInv
  <2>. QED
      BY <2>4, <2>5, <2>6 DEF NumberInv
<1>. QED
    BY <1>9, <1>10, <1>11

(* No other request is of the call whose request is taken away.            *)
LEMMA RequestTaken ==
    ASSUME TypeInv, OneInv, NEW p \in Peer, NEW r \in requests[p], NEW pending,
           pending = [requests EXCEPT ![p] = requests[p] \ {r}]
    PROVE  /\ \A q \in Peer : pending[q] \subseteq requests[q]
           /\ \A q \in Peer : \A s \in pending[q] : s.job # r.job
<1>1. requests \in [Peer -> SUBSET [req : Nat, job : Job]]
    BY DEF TypeInv
<1>2. \A q \in Peer : pending[q] = IF q = p THEN requests[p] \ {r} ELSE requests[q]
    BY <1>1
<1>3. \A q \in Peer : pending[q] \subseteq requests[q]
    BY <1>2
<1>4. ASSUME NEW q \in Peer, NEW s \in pending[q], s.job = r.job PROVE FALSE
  <2>1. s \in requests[q]
      BY <1>3
  <2>2. q = p /\ s = r
      BY <1>4, <2>1 DEF OneInv
  <2>. QED
      BY <1>2, <2>2
<1>. QED
    BY <1>3, <1>4

(* What a download is given, and what it asks for next.                    *)
LEMMA ReportStep ==
    ASSUME TypeInv, WaitInv, OneInv, NumberInv, DownloadInv, NEW p \in Peer, Report(p)
    PROVE  WaitInv' /\ OneInv' /\ NumberInv'
<1>1. \A q \in Peer : ToSet(in'[q]) \subseteq ToSet(in[q])
    BY ReportCases
<1>2. CASE UNCHANGED <<job, out, requests, next_req_id>>
    BY <1>1, <1>2, WaitFrame
<1>3. CASE ~UNCHANGED <<job, out, requests, next_req_id>>
  <2>1. PICK r, m, pending, v :
            Resumes(p, r, m, pending, v) /\ (GoesOn(r, pending, v) \/ IsDone(r, pending, v))
      BY <1>3, ReportCases
  <2>2. PICK j \in Job : j = r.job
      BY <2>1 DEF Resumes
  <2>3. /\ conns # << >> /\ r \in requests[p] /\ v \in DownloadCall
        /\ pending = [requests EXCEPT ![p] = requests[p] \ {r}]
        /\ pending \in [Peer -> SUBSET [req : Nat, job : Job]]
        /\ v.file = job[j].file /\ job' = [job EXCEPT ![j] = v] /\ Waits(job[j])
      BY <2>1, <2>2 DEF Resumes, Completed
  <2>4. /\ \A q \in Peer : pending[q] \subseteq requests[q]
        /\ \A q \in Peer : \A s \in pending[q] : s.job # j
      BY <2>2, <2>3, RequestTaken
  <2>5. job[j] \in DownloadCall
      BY <2>3, CallTypes DEF Waits
  <2>6. CASE GoesOn(r, pending, v)
    <3>1. v.state = "waiting" /\ v.at = job[j].at + 1 /\ v.at <= LastBlock(v.file)
          /\ Ask(j, Block(v.file, v.at), pending)
        BY <2>2, <2>3, <2>6 DEF GoesOn
    <3>2. v.file \in File /\ v.at \in 1 .. LastBlock(v.file) /\ v.at # 0
      <4>1. v.file \in File /\ job[j].at \in Nat
          BY <2>3, <2>5 DEF DownloadCall
      <4>. QED
          BY <3>1, <4>1, BlockFacts
    <3>3. PICK b \in Data : b = Block(v.file, v.at)
        BY <3>2, BlockFacts
    <3>4. b = Wanted(v)
        BY <3>2, <3>3 DEF Wanted
    <3>5. Ask(j, b, pending)
        BY <3>1, <3>3
    <3>. QED
        BY <1>1, <2>3, <2>4, <3>1, <3>4, <3>5, WaitAsk
  <2>7. CASE IsDone(r, pending, v)
    <3>1. requests' = pending /\ UNCHANGED <<out, next_req_id>>
        BY <2>7 DEF IsDone
    <3>2. \A i \in Job : i # j => job'[i] = job[i]
        BY <2>3, CallsTyped DEF Calls
    <3>3. \A q \in Peer : \A s \in requests'[q] : job'[s.job] = job[s.job]
      <4>. TAKE q \in Peer
      <4>. TAKE s \in requests'[q]
      <4>1. s \in [req : Nat, job : Job] /\ s.job # j
          BY <2>3, <2>4, <3>1
      <4>. QED
          BY <3>2, <4>1
    <3>4. \A q \in Peer : requests'[q] \subseteq requests[q]
        BY <2>4, <3>1
    <3>. QED
        BY <1>1, <3>1, <3>3, <3>4, WaitFrame
  <2>. QED
      BY <2>1, <2>6, <2>7
<1>. QED
    BY <1>2, <1>3

(* A download that waits is given the block it asked for; one it is not    *)
(* given the peer did not hold.                                            *)
LEMMA WaitStep ==
    ASSUME TypeInv, ImportInv, UploadInv, DownloadInv, HeldInv, WaitInv, OneInv, NumberInv,
           Next
    PROVE  WaitInv' /\ OneInv' /\ NumberInv'
<1>1. CASE \E p \in Peer : Report(p)
    BY <1>1, ReportStep
<1>2. CASE \A p \in Peer : ~Report(p)
  <2>1. \A q \in Peer : \A r \in requests[q] : job'[r.job] = job[r.job]
      BY <1>2, WaitsOn
  <2>2. ASSUME UNCHANGED <<requests, next_req_id>>,
               \A q \in Peer : \A m \in ToSet(out'[q]) :
                   m \in ToSet(out[q]) \/ m.id = "store_block",
               \A q \in Peer : ToSet(in'[q]) \subseteq ToSet(in[q])
        PROVE  WaitInv' /\ OneInv' /\ NumberInv'
      BY <2>1, <2>2, WaitFrame
  <2>3. ASSUME UNCHANGED <<requests, next_req_id, out, in>>
        PROVE  WaitInv' /\ OneInv' /\ NumberInv'
      BY <2>2, <2>3
  <2>4. ASSUME NEW p \in Peer, Connect(p) \/ Closed(p)
        PROVE  WaitInv' /\ OneInv' /\ NumberInv'
      BY <2>3, <2>4 DEF Connect, Closed
  <2>5. ASSUME NEW p \in Peer, Break(p)
        PROVE  WaitInv' /\ OneInv' /\ NumberInv'
    <3>1. \A q \in Peer : /\ ToSet(out'[q]) \subseteq ToSet(out[q])
                          /\ ToSet(in'[q]) \subseteq ToSet(in[q])
        BY <2>5, BreakIs
    <3>2. UNCHANGED <<requests, next_req_id>>
        BY <2>5 DEF Break
    <3>. QED
        BY <2>2, <3>1, <3>2
  <2>6. ASSUME NEW p \in Peer, Serve(p)
        PROVE  WaitInv' /\ OneInv' /\ NumberInv'
    <3>1. PICK m \in OutMsg :
              /\ out[p] # << >> /\ m = out[p][1] /\ m \in ToSet(out[p])
              /\ out' \in [Peer -> Seq(OutMsg)]
              /\ out' = [out EXCEPT ![p] = Tail(out[p])]
              /\ \A q \in Peer : ToSet(out'[q]) \subseteq ToSet(out[q])
              /\ in' \in [Peer -> Seq(InMsg)] /\ store' \in [Node -> SUBSET Data]
              /\ \A q \in Node : store[q] \subseteq store'[q]
              /\ \A q \in Node : q # p => store'[q] = store[q]
              /\ m.id = "store_block" =>
                   store'[p] = store[p] \cup {m.block} /\ in' = in
              /\ m.id = "request_block" =>
                   /\ store' = store
                   /\ \/ in' = in
                      \/ in' = [in EXCEPT ![p] = Append(in[p],
                                  ReportBlock(m.req, ReadBlock(p, m.block)))]
        BY <2>6, ServeIs
    <3>2. UNCHANGED <<requests, next_req_id>>
        BY <2>6 DEF Serve
    <3>3. CASE in' = in
        BY <2>2, <3>1, <3>2, <3>3
    <3>4. CASE in' # in
      <4>1. m.id = "request_block" /\ m.req \in Nat /\ m.block \in Data
          BY <3>1, <3>4 DEF OutMsg
      <4>2. ReadBlock(p, m.block) \in Data
          BY <4>1 DEF ReadBlock, Data
      <4>3. PICK a \in InMsg : a = ReportBlock(m.req, ReadBlock(p, m.block))
                               /\ a.req = m.req /\ a.data = ReadBlock(p, m.block)
          BY <4>1, <4>2, MsgTypes
      <4>4. in \in [Peer -> Seq(InMsg)]
          BY DEF TypeInv
      <4>5. PICK t \in Seq(InMsg) : t = Append(in[p], a) /\ ToSet(t) = ToSet(in[p]) \cup {a}
        <5>1. in[p] \in Seq(InMsg)
            BY <4>4
        <5>2. Append(in[p], a) \in Seq(InMsg) /\ ToSet(Append(in[p], a)) = ToSet(in[p]) \cup {a}
            BY <5>1, QueueAppend
        <5>. QED
            BY <5>2
      <4>6. in' = [in EXCEPT ![p] = t]
          BY <3>1, <3>4, <4>1, <4>3, <4>5
      <4>7. \A q \in Peer : \A n \in ToSet(in'[q]) : n \in ToSet(in[q]) \/ (q = p /\ n = a)
          BY <4>4, <4>5, <4>6
      <4>8. a.req <= next_req_id[p]
          BY <3>1, <4>1, <4>3 DEF NumberInv
      <4>9. ASSUME NEW r \in requests[p], a.req = r.req PROVE Answer(job[r.job], a.data)
        <5>1. PICK d : d = job[r.job]
            OBVIOUS
        <5>2. m.block = Wanted(d) /\ Waits(d)
          <6>1. /\ Waits(d)
                /\ \A n \in ToSet(out[p]) :
                     n.id = "request_block" /\ n.req = r.req => n.block = Wanted(d)
              BY <5>1, Zenon DEF WaitInv
          <6>2. m \in ToSet(out[p]) /\ m.id = "request_block" /\ m.req = r.req
              BY <3>1, <4>1, <4>3, <4>9
          <6>. QED
              BY <6>1, <6>2
        <5>3. PICK j \in Job : j = r.job
          <6>1. requests \in [Peer -> SUBSET [req : Nat, job : Job]]
              BY DEF TypeInv
          <6>2. r \in [req : Nat, job : Job]
              BY <6>1
          <6>. QED
              BY <6>2
        <5>4. d \in DownloadCall /\ Fetched(d)
            BY <5>1, <5>2, <5>3, CallTypes DEF Waits, DownloadInv
        <5>5. d.file \in File /\ d.at \in 0 .. LastBlock(d.file)
            BY <5>4 DEF DownloadCall, Fetched
        <5>6. Wanted(d) \in Whole(d.file)
          <6>1. CASE d.at = 0
              BY <5>5, <6>1, BlockFacts DEF Wanted
          <6>2. CASE d.at # 0
            <7>1. d.at \in 1 .. LastBlock(d.file)
                BY <5>5, <6>2, BlockFacts
            <7>2. Block(d.file, d.at) \in BlocksOf(d.file)
                BY <5>5, <7>1, BlockFacts
            <7>. QED
                BY <5>5, <6>2, <7>2, BlockFacts DEF Wanted
          <6>. QED
              BY <6>1, <6>2
        <5>7. HeldByAll(d.file) => Wanted(d) \in store[p]
            BY <5>6 DEF HeldByAll, HeldInv
        <5>8. a.data = IF Wanted(d) \in store[p] THEN Wanted(d) ELSE Nothing
            BY <4>3, <5>2 DEF ReadBlock
        <5>. QED
            BY <5>1, <5>7, <5>8 DEF Answer
      <4>10. \A q \in Peer : \A n \in ToSet(in'[q]) :
                \/ n \in ToSet(in[q])
                \/ /\ n.req <= next_req_id[q]
                   /\ \A r \in requests[q] : n.req = r.req => Answer(job[r.job], n.data)
          BY <4>7, <4>8, <4>9
      <4>11. \A q \in Peer : \A n \in ToSet(out'[q]) :
                n \in ToSet(out[q]) \/ n.id = "store_block"
          BY <3>1
      <4>12. \A q \in Peer : requests'[q] \subseteq requests[q]
          BY <3>2
      <4>13. \A q \in Peer : \A r \in requests'[q] : job'[r.job] = job[r.job]
          BY <2>1, <3>2
      <4>. QED
          BY <3>2, <4>10, <4>11, <4>12, <4>13, WaitFrame
    <3>. QED
        BY <3>3, <3>4
  <2>7. ASSUME NEW j \in Job, NEW f \in File, Import(j, f) \/ Export(j, f)
        PROVE  WaitInv' /\ OneInv' /\ NumberInv'
      BY <2>3, <2>7 DEF Import, Export, net
  <2>8. ASSUME NEW j \in Job, NEW u, NEW v, NEW b, UploadStep(j, u, v, b)
        PROVE  WaitInv' /\ OneInv' /\ NumberInv'
    <3>1. PICK p \in Peer, a \in OutMsg :
              p = Head(conns) /\ a = StoreBlock(b) /\ a.id = "store_block"
      <4>1. Head(conns) \in Peer
          BY <2>8, FirstConn DEF UploadStep
      <4>2. StoreBlock(b) \in OutMsg /\ StoreBlock(b).id = "store_block"
          BY <2>8, MsgTypes DEF UploadStep
      <4>. QED
          BY <4>1, <4>2
    <3>2. Sent(p, a) /\ UNCHANGED <<requests, next_req_id, in>>
        BY <2>8, <3>1 DEF UploadStep
    <3>3. /\ \A q \in Peer : q # p => out'[q] = out[q]
          /\ out'[p] = IF link[p] = "up" THEN Append(out[p], a) ELSE out[p]
        BY <3>2, SentIs
    <3>4. ToSet(Append(out[p], a)) = ToSet(out[p]) \cup {a}
      <4>1. out[p] \in Seq(OutMsg)
          BY DEF TypeInv
      <4>. QED
          BY <4>1, QueueAppend
    <3>5. \A q \in Peer : \A m \in ToSet(out'[q]) : m \in ToSet(out[q]) \/ m = a
        BY <3>3, <3>4
    <3>. QED
        BY <2>2, <3>1, <3>2, <3>5
  <2>9. ASSUME NEW j \in Job, NEW f \in File, Upload(j, f)
        PROVE  WaitInv' /\ OneInv' /\ NumberInv'
      BY <2>8, <2>9, UploadIs
  <2>10. ASSUME NEW j \in Job, NEW f \in File, Download(j, f)
         PROVE  WaitInv' /\ OneInv' /\ NumberInv'
    <3>1. UNCHANGED in /\ job[j] = Idle
        BY <2>10 DEF Download
    <3>2. CASE conns = << >>
        BY <2>3, <2>10, <3>1, <3>2 DEF Download
    <3>3. CASE conns # << >>
      <4>1. PICK v \in DownloadCall : job' = [job EXCEPT ![j] = v] /\ v.file = f /\ v.at = 0
                                      /\ v.state = "waiting"
          BY <2>10, <3>3, DownloadIs
      <4>2. PICK b \in Data : b = Meta(f)
          BY BlockFacts
      <4>3. Ask(j, b, requests) /\ b = Wanted(v)
          BY <2>10, <3>3, <4>1, <4>2, DownloadIs DEF Wanted
      <4>4. \A q \in Peer : \A r \in requests[q] : r.job # j
        <5>1. ~Waits(job[j])
            BY <3>1, CallTypes DEF Waits
        <5>. QED
            BY <5>1 DEF WaitInv
      <4>5. requests \in [Peer -> SUBSET [req : Nat, job : Job]]
          BY DEF TypeInv
      <4>6. PICK pending : pending = requests
          OBVIOUS
      <4>7. /\ Ask(j, b, pending) /\ pending \in [Peer -> SUBSET [req : Nat, job : Job]]
            /\ \A q \in Peer : pending[q] \subseteq requests[q]
            /\ \A q \in Peer : \A r \in pending[q] : r.job # j
            /\ \A q \in Peer : ToSet(in'[q]) \subseteq ToSet(in[q])
          BY <3>1, <4>3, <4>4, <4>5, <4>6
      <4>. QED
          BY <3>3, <4>1, <4>3, <4>7, WaitAsk
    <3>. QED
        BY <3>2, <3>3
  <2>11. ASSUME NEW j \in Job, ImportBlock(j) \/ WriteFailed(j)
         PROVE  WaitInv' /\ OneInv' /\ NumberInv'
      BY <2>3, <2>11 DEF ImportBlock, WriteFailed, net
  <2>12. ASSUME NEW j \in Job, WriteDone(j)
         PROVE  WaitInv' /\ OneInv' /\ NumberInv'
    <3>1. UNCHANGED <<in, requests, next_req_id>>
        BY <2>12, WriteDoneIs
    <3>2. CASE UNCHANGED out
        BY <2>3, <3>1, <3>2
    <3>3. ASSUME NEW v, NEW b, UploadStep(j, job[j], v, b)
          PROVE  WaitInv' /\ OneInv' /\ NumberInv'
        BY <2>8, <3>3
    <3>. QED
        BY <2>12, <3>2, <3>3, WriteDoneIs
  <2>. QED
      BY <1>2, <2>4, <2>5, <2>6, <2>7, <2>9, <2>10, <2>11, <2>12, Actions
<1>. QED
    BY <1>1, <1>2

(* A download writes the block it waited for, if there is one.             *)
LEMMA DownloadStep ==
    ASSUME TypeInv, ImportInv, UploadInv, DownloadInv, WaitInv, Next
    PROVE  DownloadInv'
<1>. SUFFICES ASSUME NEW i \in Job, job'[i].op = "download" PROVE Fetched(job'[i])
    BY DEF DownloadInv
<1>1. CASE job'[i] = job[i]
    BY <1>1 DEF DownloadInv
<1>2. ASSUME NEW f \in File, Download(i, f), conns # << >> PROVE Fetched(job'[i])
  <2>1. PICK v \in DownloadCall :
            /\ job' = [job EXCEPT ![i] = v]
            /\ v.file = f /\ v.at = 0 /\ v.wrote = << >> /\ v.state = "waiting"
      BY <1>2, DownloadIs
  <2>2. job'[i] = v
      BY <2>1, CallsTyped DEF Calls
  <2>3. LastBlock(f) \in Nat /\ Len(v.wrote) = 0
      BY <2>1, LastBlockIs
  <2>4. Fetched(v)
      BY <2>1, <2>3 DEF Fetched
  <2>. QED
      BY <2>2, <2>4
<1>3. ASSUME NEW p \in Peer, Report(p), job'[i] # job[i] PROVE Fetched(job'[i])
  <2>1. job' # job
      BY <1>3
  <2>2. PICK r, m, pending, v :
            Resumes(p, r, m, pending, v) /\ (GoesOn(r, pending, v) \/ IsDone(r, pending, v))
      BY <1>3, <2>1, ReportCases
  <2>3. PICK j \in Job : j = r.job
      BY <2>2 DEF Resumes
  <2>4. /\ v \in DownloadCall /\ job' = [job EXCEPT ![j] = v] /\ Waits(job[j])
        /\ r \in requests[p] /\ m \in ToSet(in[p]) /\ r.req = m.req /\ m \in InMsg
        /\ Completed(job[j], m.data, v)
      BY <2>2, <2>3 DEF Resumes
  <2>5. i = j /\ job'[i] = v
      BY <1>3, <2>4, CallsTyped DEF Calls
  <2>6. PICK d \in DownloadCall : d = job[j]
      BY <2>4, CallTypes DEF Waits
  <2>7. d.file \in File /\ d.at \in Nat /\ d.wrote \in Seq(Data) /\ d.state = "waiting"
        /\ Fetched(d) /\ LastBlock(d.file) \in Nat
      BY <2>4, <2>6, LastBlockIs DEF DownloadCall, Waits, DownloadInv
  <2>8. Answer(d, m.data)
      BY <2>3, <2>4, <2>6 DEF WaitInv
  <2>9. v.file = d.file /\ m.data \in Data
        /\ v.wrote = IF d.at = 0 \/ m.data = Nothing THEN d.wrote ELSE Append(d.wrote, m.data)
      BY <2>4, <2>6 DEF Completed, InMsg
  <2>10. \/ v.state = "waiting" /\ v.at = d.at + 1 /\ v.at <= LastBlock(d.file)
         \/ v.state = "ok" /\ v.at = d.at /\ v.at = LastBlock(d.file)
      BY <2>2, <2>3, <2>6 DEF GoesOn, IsDone
  <2>11. /\ d.at <= LastBlock(d.file)
         /\ \A k \in 1 .. Len(d.wrote) :
              d.wrote[k] \in BlocksOf(d.file) /\ d.wrote[k][2] < d.at
         /\ \A k, l \in 1 .. Len(d.wrote) : k < l => d.wrote[k][2] < d.wrote[l][2]
         /\ HeldByAll(d.file) => Len(d.wrote) = IF d.at = 0 THEN d.at ELSE d.at - 1
      BY <2>7 DEF Fetched
  <2>12. \A b \in BlocksOf(d.file) : b[2] \in Nat
      BY <2>7 DEF BlocksOf, Block
  <2>13. PICK n \in Nat, w \in Seq(Data) : n = Len(d.wrote) /\ w = d.wrote
      BY <2>7
  <2>14. CASE v.wrote = w /\ (HeldByAll(d.file) => d.at = 0)
    <3>1. \A k \in 1 .. n : w[k] \in BlocksOf(d.file) /\ w[k][2] < d.at /\ w[k][2] \in Nat
        BY <2>11, <2>12, <2>13
    <3>2. v.at \in 0 .. LastBlock(d.file) /\ d.at <= v.at
        BY <2>7, <2>10, <2>11
    <3>3. \A k \in 1 .. n : w[k][2] < v.at
        BY <2>7, <3>1, <3>2
    <3>4. HeldByAll(d.file) => n = IF v.at = 0 \/ v.state = "ok" THEN v.at ELSE v.at - 1
        BY <2>7, <2>10, <2>11, <2>13, <2>14
    <3>5. \A k, l \in 1 .. n : k < l => w[k][2] < w[l][2]
        BY <2>11, <2>13
    <3>6. v.wrote = w /\ Len(w) = n
        BY <2>13, <2>14
    <3>7. \A k \in 1 .. n : w[k] \in BlocksOf(d.file) /\ w[k][2] <= v.at /\ w[k][2] < v.at
      <4>1. v.at \in Nat
          BY <2>7, <3>2
      <4>. QED
          BY <3>1, <3>3, <4>1
    <3>8. v.state = "ok" => v.at = LastBlock(d.file)
        BY <2>10
    <3>9. Fetched(v)
        BY <2>9, <3>2, <3>4, <3>5, <3>6, <3>7, <3>8, Zenon DEF Fetched
    <3>. QED
        BY <2>5, <3>9
  <2>15. CASE d.at # 0 /\ m.data = Block(d.file, d.at) /\ v.wrote = Append(w, m.data)
    <3>1. d.at \in 1 .. LastBlock(d.file) /\ m.data[2] = d.at
        BY <2>7, <2>11, <2>15 DEF Block
    <3>2. m.data \in BlocksOf(d.file)
        BY <2>7, <2>15, <3>1, BlockFacts
    <3>3. PICK t \in Seq(Data) : t = Append(w, m.data)
        BY <2>9, <2>13, QueueAppend
    <3>4. /\ Len(t) = n + 1 /\ t[n + 1] = m.data /\ \A k \in 1 .. n : t[k] = w[k]
        BY <2>9, <2>13, <3>3, QueueAppend
    <3>5. \A k \in 1 .. n : w[k] \in BlocksOf(d.file) /\ w[k][2] < d.at /\ w[k][2] \in Nat
        BY <2>11, <2>12, <2>13
    <3>6. \A k \in 1 .. n + 1 : k \in 1 .. n \/ k = n + 1
        OBVIOUS
    <3>7. \A k \in 1 .. n + 1 : t[k] \in BlocksOf(d.file) /\ t[k][2] <= d.at /\ t[k][2] \in Nat
        BY <2>7, <3>1, <3>2, <3>4, <3>5, <3>6
    <3>8. \A k, l \in 1 .. n + 1 : k < l => t[k][2] < t[l][2]
      <4>. SUFFICES ASSUME NEW k \in 1 .. n + 1, NEW l \in 1 .. n + 1, k < l
                    PROVE  t[k][2] < t[l][2]
          OBVIOUS
      <4>1. k \in 1 .. n
          OBVIOUS
      <4>2. CASE l \in 1 .. n
          BY <2>11, <2>13, <3>4, <4>1, <4>2
      <4>3. CASE l = n + 1
          BY <3>1, <3>4, <3>5, <4>1, <4>3
      <4>. QED
          BY <3>6, <4>2, <4>3
    <3>9. /\ v.at \in 0 .. LastBlock(d.file) /\ d.at <= v.at /\ v.at # 0
          /\ v.state = "waiting" => d.at < v.at
        BY <2>7, <2>10, <2>11, <3>1
    <3>10. \A k \in 1 .. n + 1 : /\ t[k][2] <= v.at
                                 /\ v.state = "waiting" => t[k][2] < v.at
        BY <2>7, <3>7, <3>9
    <3>11. HeldByAll(d.file) => n + 1 = IF v.at = 0 \/ v.state = "ok" THEN v.at ELSE v.at - 1
      <4>1. HeldByAll(d.file) => n = d.at - 1
          BY <2>11, <2>13, <2>15
      <4>2. \/ v.state = "waiting" /\ v.at = d.at + 1
            \/ v.state = "ok" /\ v.at = d.at
          BY <2>10
      <4>. QED
          BY <2>7, <2>15, <4>1, <4>2
    <3>12. v.wrote = t
        BY <2>15, <3>3
    <3>13. \A k \in 1 .. n + 1 : /\ t[k] \in BlocksOf(d.file) /\ t[k][2] <= v.at
                                 /\ v.state = "waiting" => t[k][2] < v.at
        BY <3>7, <3>10
    <3>14. v.state = "ok" => v.at = LastBlock(d.file)
        BY <2>10
    <3>15. Fetched(v)
        BY <2>9, <3>4, <3>8, <3>9, <3>11, <3>12, <3>13, <3>14, Zenon DEF Fetched
    <3>. QED
        BY <2>5, <3>15
  <2>16. m.data = Wanted(d) \/ (m.data = Nothing /\ ~HeldByAll(d.file))
      BY <2>8 DEF Answer
  <2>17. d.at # 0 => Block(d.file, d.at) # Nothing
    <3>1. d.at # 0 => d.at \in 1 .. LastBlock(d.file)
        BY <2>7, <2>11
    <3>. QED
        BY <2>7, <3>1, BlockFacts
  <2>. QED
      BY <2>9, <2>13, <2>14, <2>15, <2>16, <2>17 DEF Wanted
<1>. QED
    BY <1>1, <1>2, <1>3, CallChanges

-----------------------------------------------------------------------------
(* Before anything is sent a peer has the files it has.                    *)
LEMMA BlocksInit ==
    ASSUME Init
    PROVE  BlocksInv
<1>1. /\ \A n \in Node : store[n] = IF n = Me THEN {} ELSE UNION {Whole(f) : f \in Holds[n]}
      /\ conns = << >> /\ link = [p \in Peer |-> "none"]
      /\ out = [p \in Peer |-> << >>] /\ in = [p \in Peer |-> << >>]
      /\ requests = [p \in Peer |-> {}] /\ next_req_id = [p \in Peer |-> 0]
      /\ job = [j \in Job |-> Idle] /\ dead = "no"
      /\ store = [n \in Node |-> IF n = Me THEN {} ELSE UNION {Whole(f) : f \in Holds[n]}]
    BY DEF Init
<1>2. /\ Me \in Node /\ \A p \in Peer : p \in Node /\ p # Me
      /\ \A n \in Node : n = Me \/ n \in Peer
    BY SizeAssumption DEF Node, Me
<1>3. \A p \in Peer : Holds[p] \subseteq File
    BY SizeAssumption
<1>4. \A p \in Peer : store[p] = UNION {Whole(f) : f \in Holds[p]}
    BY <1>1, <1>2
<1>5. store[Me] = {}
    BY <1>1, <1>2
<1>6. \A j \in Job : job[j] = Idle /\ job[j].op = "none"
    BY <1>1 DEF Idle
<1>7. \A p \in Peer : /\ requests[p] = {} /\ out[p] = << >> /\ in[p] = << >>
                      /\ Len(out[p]) = 0 /\ ToSet(out[p]) = {} /\ ToSet(in[p]) = {}
  <2>1. ToSet(<< >>) = {} /\ Len(<< >>) = 0
      BY DEF ToSet
  <2>. QED
      BY <1>1, <2>1
<1>8. TypeInv
  <2>1. \A n \in Node : store[n] \in SUBSET Data
    <3>1. \A f \in File : Whole(f) \subseteq Data
        BY BlockFacts
    <3>2. \A p \in Peer : store[p] \subseteq Data
        BY <1>3, <1>4, <3>1
    <3>. QED
        BY <1>2, <1>5, <3>2
  <2>2. store \in [Node -> SUBSET Data]
      BY <1>1, <2>1
  <2>3. conns \in Seq(Peer) /\ IsInjective(conns)
    <3>1. << >> \in Seq(Peer) /\ DOMAIN << >> = {}
        BY EmptySeq
    <3>. QED
        BY <1>1, <3>1 DEF IsInjective
  <2>4. out \in [Peer -> Seq(OutMsg)] /\ in \in [Peer -> Seq(InMsg)]
    <3>1. << >> \in Seq(OutMsg) /\ << >> \in Seq(InMsg)
        BY EmptySeq
    <3>. QED
        BY <1>1, <3>1
  <2>5. /\ link \in [Peer -> {"none", "up", "broken"}] /\ next_req_id \in [Peer -> Nat]
        /\ dead \in {"no", "no connection", "no metafile"}
      BY <1>1
  <2>6. requests \in [Peer -> SUBSET [req : Nat, job : Job]]
      BY <1>1
  <2>7. job \in [Job -> {Idle} \cup ImportCall \cup ExportCall \cup UploadCall \cup DownloadCall]
      BY <1>1
  <2>. QED
      BY <2>2, <2>3, <2>4, <2>5, <2>6, <2>7 DEF TypeInv
<1>9. ConnInv
  <2>1. 1 .. Len(conns) = {}
      BY <1>1
  <2>. QED
      BY <2>1 DEF ConnInv
<1>10. \A f \in File : \A p \in Peer : Meta(f) \in store[p] => BlocksOf(f) \subseteq store[p]
  <2>. SUFFICES ASSUME NEW f \in File, NEW p \in Peer, Meta(f) \in store[p]
                PROVE  BlocksOf(f) \subseteq store[p]
      OBVIOUS
  <2>1. PICK g \in Holds[p] : Meta(f) \in Whole(g)
      BY <1>4
  <2>2. g \in File
      BY <1>3
  <2>3. Meta(f) \notin BlocksOf(g)
      BY <2>2, BlockFacts
  <2>4. f = g
      BY <2>1, <2>2, <2>3, BlockFacts DEF Whole
  <2>5. Whole(f) \subseteq store[p]
      BY <1>4, <2>4
  <2>. QED
      BY <2>5, BlockFacts
<1>11. SentInv
  <2>1. \A p \in Peer : InOrder(store[p], out[p])
    <3>1. 1 .. 0 = {}
        OBVIOUS
    <3>. QED
        BY <1>7, <3>1 DEF InOrder
  <2>2. \A p \in Peer : Listed(store[p])
      BY <1>10 DEF Listed
  <2>. QED
      BY <2>1, <2>2 DEF SentInv
<1>12. ListedIsHeld
  <2>1. Listed(store[Me])
      BY <1>5 DEF Listed
  <2>2. \A p \in Peer : Listed(store[p])
      BY <1>10 DEF Listed
  <2>. QED
      BY <2>1, <2>2, ListedParts
<1>13. HeldInv
    BY <1>4 DEF HeldInv
<1>14. ImportInv /\ UploadInv /\ UpInv /\ DownloadInv /\ ExportedWhole
    BY <1>6 DEF ImportInv, UploadInv, UpInv, DownloadInv, ExportedWhole
<1>15. WaitInv /\ OneInv /\ NumberInv
    BY <1>7 DEF WaitInv, OneInv, NumberInv
<1>. QED
    BY <1>8, <1>9, <1>11, <1>12, <1>13, <1>14, <1>15 DEF BlocksInv

(* The invariant is kept by every step.                                    *)
LEMMA BlocksNext ==
    ASSUME BlocksInv, [Next]_vars
    PROVE  BlocksInv'
<1>1. CASE Next
  <2>1. /\ TypeInv /\ ConnInv /\ ImportInv /\ UploadInv /\ UpInv /\ SentInv
        /\ HeldInv /\ WaitInv /\ OneInv /\ NumberInv /\ DownloadInv
        /\ ListedIsHeld /\ ExportedWhole
      BY DEF BlocksInv
  <2>2. Listed(store[Me])
      BY <2>1, ListedParts
  <2>3. TypeInv' /\ ConnInv'
      BY <1>1, <2>1, TypeStep
  <2>4. ImportInv' /\ HeldInv' /\ Listed(store'[Me])
      BY <1>1, <2>1, <2>2, ImportStep
  <2>5. ExportedWhole'
      BY <1>1, <2>1, <2>2, ExportStep
  <2>6. UploadInv'
      BY <1>1, <2>1, UploadCut
  <2>7. UpInv' /\ SentInv'
      BY <1>1, <2>1, UpStep
  <2>8. WaitInv' /\ OneInv' /\ NumberInv'
      BY <1>1, <2>1, WaitStep
  <2>9. DownloadInv'
      BY <1>1, <2>1, DownloadStep
  <2>10. ListedIsHeld'
    <3>1. NoneBroken' => \A p \in Peer : Listed(store'[p])
        BY <2>7 DEF SentInv
    <3>. QED
        BY <2>4, <3>1, ListedParts
  <2>. QED
      BY <2>3, <2>4, <2>5, <2>6, <2>7, <2>8, <2>9, <2>10 DEF BlocksInv
<1>2. CASE UNCHANGED vars
  <2>1. UNCHANGED <<store, conns, link, out, in, requests, next_req_id, job, dead>>
      BY <1>2 DEF vars, net
  <2>2. TypeInv' /\ ConnInv' /\ HeldInv'
      BY <2>1 DEF BlocksInv, TypeInv, ConnInv, HeldInv
  <2>3. ImportInv' /\ UploadInv' /\ DownloadInv' /\ ExportedWhole'
      BY <2>1 DEF BlocksInv, ImportInv, UploadInv, DownloadInv, ExportedWhole
  <2>4. UpInv' /\ SentInv' /\ ListedIsHeld'
      BY <2>1 DEF BlocksInv, UpInv, SentInv, ListedIsHeld, NoneBroken
  <2>5. WaitInv' /\ OneInv' /\ NumberInv'
      BY <2>1 DEF BlocksInv, WaitInv, OneInv, NumberInv
  <2>. QED
      BY <2>2, <2>3, <2>4, <2>5 DEF BlocksInv
<1>. QED
    BY <1>1, <1>2

(* What the invariant says of the files.                                   *)
LEMMA BlocksSound ==
    ASSUME BlocksInv
    PROVE  FilesSound
<1>1. /\ TypeInv /\ WaitInv /\ NumberInv /\ DownloadInv
      /\ ListedIsHeld /\ ExportedWhole
    BY DEF BlocksInv
<1>2. TypeOK
  <2>1. conns \in Seq(Peer) /\ IsInjective(conns)
        /\ out \in [Peer -> Seq(OutMsg)] /\ in \in [Peer -> Seq(InMsg)]
        /\ requests \in [Peer -> SUBSET [req : Nat, job : Job]]
        /\ next_req_id \in [Peer -> Nat]
      BY <1>1 DEF TypeInv
  <2>2. ToSet(conns) \subseteq Peer
      BY <2>1, QueueMember
  <2>3. \A p \in Peer : \A m \in Msgs(p) :
            m.id \in {"store_block", "request_block", "report_block"}
    <3>. SUFFICES ASSUME NEW p \in Peer, NEW m \in Msgs(p)
                  PROVE  m.id \in {"store_block", "request_block", "report_block"}
        OBVIOUS
    <3>1. out[p] \in Seq(OutMsg) /\ in[p] \in Seq(InMsg)
        BY <2>1
    <3>2. m \in OutMsg \/ m \in InMsg
      <4>1. m \in ToSet(out[p]) \/ m \in ToSet(in[p])
          BY DEF Msgs
      <4>2. m \in ToSet(out[p]) => m \in OutMsg
          BY <3>1, QueueMember
      <4>3. m \in ToSet(in[p]) => m \in InMsg
          BY <3>1, QueueMember
      <4>. QED
          BY <4>1, <4>2, <4>3
    <3>. QED
        BY <3>2 DEF OutMsg, InMsg
  <2>4. \A p \in Peer : \A r \in requests[p] :
            r.req \in 1 .. next_req_id[p] /\ job[r.job].op = "download"
    <3>. SUFFICES ASSUME NEW p \in Peer, NEW r \in requests[p]
                  PROVE  r.req \in 1 .. next_req_id[p] /\ job[r.job].op = "download"
        OBVIOUS
    <3>1. r \in [req : Nat, job : Job] /\ next_req_id[p] \in Nat
        BY <2>1
    <3>2. r.req <= next_req_id[p] /\ r.req > 0 /\ Waits(job[r.job])
        BY <1>1 DEF WaitInv, NumberInv
    <3>. QED
        BY <3>1, <3>2 DEF Waits
  <2>5. \A j \in Job : job[j].state \in
            {"idle", "cutting", "writing", "last", "waiting", "ok", "error"}
    <3>. TAKE j \in Job
    <3>1. job[j] \in {Idle} \cup ImportCall \cup ExportCall \cup UploadCall \cup DownloadCall
        BY <1>1 DEF TypeInv
    <3>. QED
        BY <3>1 DEF Idle, ImportCall, ExportCall, UploadCall, DownloadCall
  <2>. QED
      BY <1>1, <2>1, <2>2, <2>3, <2>4, <2>5 DEF TypeOK, TypeInv
<1>3. FetchedInOrder
  <2>. SUFFICES ASSUME NEW j \in Job, job[j].op = "download"
                PROVE  LET w == job[j].wrote
                           f == job[j].file
                       IN /\ \A k \in DOMAIN w : w[k] \in BlocksOf(f)
                          /\ \A k, l \in DOMAIN w : k < l => w[k][2] < w[l][2]
                          /\ job[j].state = "ok" /\ (\A p \in Peer : f \in Holds[p]) =>
                               Len(w) = LastBlock(f)
      BY DEF FetchedInOrder
  <2>1. PICK d \in DownloadCall : d = job[j] /\ Fetched(d)
      BY <1>1, CallTypes DEF DownloadInv
  <2>2. d.wrote \in Seq(Data)
      BY DEF DownloadCall
  <2>3. DOMAIN d.wrote = 1 .. Len(d.wrote)
      BY <2>2
  <2>4. d.state = "ok" /\ HeldByAll(d.file) => Len(d.wrote) = LastBlock(d.file)
      BY <2>1 DEF Fetched
  <2>. QED
      BY <2>1, <2>3, <2>4 DEF Fetched, HeldByAll
<1>. QED
    BY <1>1, <1>2, <1>3 DEF FilesSound

(* The inductive invariant of calls, connections, requests and queues      *)
(* holds in every state, whatever the peers, files and block size.         *)
THEOREM BlocksInvariant == Spec => []BlocksInv
<1>1. Init => BlocksInv
    BY BlocksInit
<1>2. BlocksInv /\ [Next]_vars => BlocksInv'
    BY BlocksNext
<1>. QED
    BY <1>1, <1>2, PTL DEF Spec

(* Whatever the files and their lengths, the peers, and the connections    *)
(* that break: whoever holds a metafile holds the blocks it lists (a peer, *)
(* while no connection broke), a download writes a file's blocks in their  *)
(* order and leaves none out that the peers hold, and a file is exported   *)
(* as it was imported.                                                     *)
THEOREM FilesAreSound == Spec => []FilesSound
<1>1. BlocksInv => FilesSound
    BY BlocksSound
<1>. QED
    BY <1>1, BlocksInvariant, PTL

(* An upload that reports success while no connection broke has every      *)
(* block of its file, and the metafile, stored with its peer or on the way *)
(* to it: the safety half of UploadedIsStored.                             *)
UploadedIsSent ==
    \A j \in Job :
        job[j].op = "upload" /\ job[j].state = "ok" /\ NoneBroken =>
            \A b \in Whole(job[j].file) :
                \/ b \in store[job[j].on]
                \/ StoreBlock(b) \in ToSet(out[job[j].on])

(* When upload returns and no connection was cut, every block of the file  *)
(* and its metafile is at the peer it went to, or in the queue to it.      *)
THEOREM UploadsAreSent == Spec => []UploadedIsSent
<1>1. ASSUME BlocksInv PROVE UploadedIsSent
  <2>. SUFFICES ASSUME NEW j \in Job, job[j].op = "upload", job[j].state = "ok", NoneBroken,
                       NEW b \in Whole(job[j].file)
                PROVE  \/ b \in store[job[j].on]
                       \/ StoreBlock(b) \in ToSet(out[job[j].on])
      BY DEF UploadedIsSent
  <2>1. TypeInv /\ UploadInv /\ UpInv
      BY <1>1 DEF BlocksInv
  <2>2. PICK d \in UploadCall : d = job[j]
      BY <2>1, CallTypes
  <2>3. d.file \in File /\ d.at \in Nat /\ d.on \in Peer /\ d.state = "ok"
      BY <2>2 DEF UploadCall
  <2>4. CutAt(d.file, d.at, 0)
      BY <2>1, <2>2 DEF UploadInv
  <2>5. d.at = LastBlock(d.file)
      BY <2>3, <2>4, CutEnds
  <2>6. PICK S, q : S = store[d.on] /\ q = out[d.on]
      OBVIOUS
  <2>7. HasSent(S, q, d)
      BY <2>1, <2>2, <2>6 DEF UpInv
  <2>8. b \in FirstBlocks(d.file, d.at) \/ b = Meta(d.file)
      BY <2>2, <2>3, <2>5, BlockFacts DEF Whole
  <2>9. Arrives(S, q, Len(q), b)
      BY <2>3, <2>7, <2>8 DEF HasSent, AllArrive
  <2>10. q \in Seq(OutMsg)
    <3>1. out \in [Peer -> Seq(OutMsg)]
        BY <2>1 DEF TypeInv
    <3>. QED
        BY <2>3, <2>6, <3>1
  <2>11. b \in S \/ StoreBlock(b) \in ToSet(q)
      BY <2>9, <2>10, QueueMember DEF Arrives
  <2>. QED
      BY <2>2, <2>6, <2>11
<1>. QED
    BY <1>1, BlocksInvariant, PTL

=============================================================================
