---------------------------- MODULE ChainProofs -----------------------------
(***************************************************************************)
(* How blocks get onto the chains of the nodes.                            *)
(*                                                                         *)
(* The generating thread: whatever the number of candidates, and however   *)
(* the main thread and the workers interleave at the flags, one worker at  *)
(* a time has them, none is left when the node is gone, and the handlers   *)
(* may take the thread for the Miner.  The target: whatever the hashes,    *)
(* the window, the grain and the clock, it is that of the last window of   *)
(* blocks, what is mined at it is accepted, and it eases by one grain a    *)
(* block at most.  The nodes: however they are linked, and whatever         *)
(* messages are lost, a block that two of them share has the same place in *)
(* both chains, behind the same blocks.                                    *)
(***************************************************************************)
EXTENDS Generator, BlockChain, Sync, FiniteSetTheorems,
        WellFoundedInduction, SequenceTheorems, TLAPS

Starting == {"wait", "lower", "run"}

(* start_block has a candidate to make; between its two writes and until   *)
(* the worker is queued, nobody but it writes the flags.                   *)
StartInv ==
    /\ main \in Starting => candidates < MaxCandidate
    /\ main \in {"lower", "run"} => ~stopped
    /\ handling # None => main \in Starting

(* A worker exists for each candidate made, and for no other.              *)
PoolInv == \A c \in Candidate : worker[c] = "none" <=> c > candidates

(* The events are found blocks in the order of their candidates, each once,*)
(* after the one that is handled.                                          *)
Ascending(s) == \A i, j \in 1 .. Len(s) : i <= j => s[j] - s[i] >= j - i

QueueInv ==
    /\ posted \in Seq(EverPosted)
    /\ Ascending(posted)
    /\ handling # None =>
         /\ handling \in EverPosted
         /\ \A i \in 1 .. Len(posted) : handling < posted[i]

GenInv == WorkersSound /\ StartInv /\ PoolInv /\ QueueInv

(* The events are no more than the candidates they are made of.            *)
LEMMA AscendingBound ==
    ASSUME NEW n \in Nat, NEW s \in Seq(1 .. n), Ascending(s)
    PROVE  Len(s) <= n
<1>1. CASE Len(s) = 0
    BY <1>1
<1>2. CASE Len(s) > 0
  <2>0. 1 \in 1 .. Len(s) /\ Len(s) \in 1 .. Len(s)
      BY <1>2
  <2>1. s[1] \in 1 .. n /\ s[Len(s)] \in 1 .. n
      BY <2>0
  <2>2. s[Len(s)] - s[1] >= Len(s) - 1
      BY <2>0 DEF Ascending
  <2>. QED
      BY <2>1, <2>2
<1>. QED
    BY <1>1, <1>2

(* What was found last goes to the end of the queue.                       *)
LEMMA AscendingAppend ==
    ASSUME NEW s \in Seq(Int), Ascending(s), NEW c \in Int,
           \A i \in 1 .. Len(s) : s[i] < c
    PROVE  Ascending(Append(s, c))
<1>. DEFINE t == Append(s, c)
<1>1. \A i \in 1 .. Len(s) : t[i] = s[i] /\ s[i] \in Int
    OBVIOUS
<1>2. Len(t) = Len(s) + 1 /\ t[Len(t)] = c
    OBVIOUS
<1>3. \A i \in 1 .. Len(s) : s[Len(s)] - s[i] >= Len(s) - i
    BY DEF Ascending
<1>4. SUFFICES ASSUME NEW i \in 1 .. Len(t), NEW j \in 1 .. Len(t), i <= j
               PROVE  t[j] - t[i] >= j - i
    BY DEF Ascending
<1>5. CASE j <= Len(s)
  <2>1. i \in 1 .. Len(s) /\ j \in 1 .. Len(s)
      BY <1>4, <1>5
  <2>. QED
      BY <1>1, <1>4, <2>1 DEF Ascending
<1>6. CASE j = Len(t) /\ i \in 1 .. Len(s)
  <2>1. Len(s) \in 1 .. Len(s)
      BY <1>6
  <2>2. s[Len(s)] < c /\ s[Len(s)] \in Int /\ s[i] \in Int
      BY <1>6, <2>1
  <2>. QED
      BY <1>1, <1>2, <1>3, <1>6, <2>2
<1>7. CASE j = Len(t) /\ i = Len(t)
    BY <1>2, <1>7
<1>. QED
    BY <1>2, <1>5, <1>6, <1>7

(* The event that is handled is the oldest, and is not in the rest.        *)
LEMMA AscendingTail ==
    ASSUME NEW s \in Seq(Int), Ascending(s), s # << >>
    PROVE  /\ Ascending(Tail(s))
           /\ \A i \in 1 .. Len(Tail(s)) : Head(s) < Tail(s)[i]
<1>1. Len(Tail(s)) = Len(s) - 1
    OBVIOUS
<1>2. \A i \in 1 .. Len(Tail(s)) :
        i + 1 \in 1 .. Len(s) /\ Tail(s)[i] = s[i + 1] /\ s[i + 1] \in Int
    OBVIOUS
<1>3. Head(s) = s[1] /\ s[1] \in Int /\ 1 \in 1 .. Len(s)
    OBVIOUS
<1>4. Ascending(Tail(s))
    BY <1>1, <1>2 DEF Ascending
<1>5. ASSUME NEW i \in 1 .. Len(Tail(s))
      PROVE  Head(s) < Tail(s)[i]
  <2>1. s[i + 1] - s[1] >= (i + 1) - 1
      BY <1>2, <1>3 DEF Ascending
  <2>. QED
      BY <1>2, <1>3, <2>1
<1>. QED
    BY <1>4, <1>5

-----------------------------------------------------------------------------
(* At first there is nothing to keep apart.                                *)
LEMMA InitGen == Init => GenInv
<1>. SUFFICES ASSUME Init PROVE GenInv
    OBVIOUS
<1>. USE CandidateAssumption DEF Init, flags, pool
<1>1. Live = {}
    BY DEF Live
<1>2. TypeOK
  <2>1. worker \in [Candidate -> {"none", "queued", "hash", "test", "told",
                                  "due", "tell", "end", "done"}]
      OBVIOUS
  <2>2. posted \in Seq(Candidate) /\ Len(posted) <= candidates
      OBVIOUS
  <2>3. enabled \in BOOLEAN /\ stop \in BOOLEAN /\ stopped \in BOOLEAN
      OBVIOUS
  <2>. QED
      BY <2>1, <2>2, <2>3 DEF TypeOK
<1>3. WorkersSound
    BY <1>1, <1>2 DEF WorkersSound, OneWorker, ClosedIsQuiet
<1>4. StartInv /\ PoolInv
    BY DEF StartInv, PoolInv, Starting, Candidate
<1>5. QueueInv
    BY DEF QueueInv, Ascending, None
<1>. QED
    BY <1>3, <1>4, <1>5 DEF GenInv

(* What nobody reads: a step that changes no variable keeps everything.    *)
LEMMA StutterGen == GenInv /\ UNCHANGED vars => GenInv'
BY DEF GenInv, WorkersSound, TypeOK, OneWorker, ClosedIsQuiet, StartInv,
       PoolInv, QueueInv, Ascending, EverPosted, Live, vars, flags, pool

(* What TypeOK says but for the queue, which follows from the invariant.   *)
BaseOK ==
    /\ main \in {"loop", "wait", "lower", "run", "closing", "closed"}
    /\ enabled \in BOOLEAN /\ stop \in BOOLEAN /\ stopped \in BOOLEAN
    /\ candidates \in 0 .. MaxCandidate
    /\ handling \in Candidate \cup {None}
    /\ worker \in [Candidate -> {"none", "queued", "hash", "test", "told",
                                 "due", "tell", "end", "done"}]
    /\ found \subseteq Candidate

(* The queue of found blocks is not longer than the candidates made.       *)
LEMMA QueueBound ==
    BaseOK /\ QueueInv /\ PoolInv => TypeOK
<1>. SUFFICES ASSUME BaseOK, QueueInv, PoolInv PROVE TypeOK
    OBVIOUS
<1>1. EverPosted \subseteq 1 .. candidates
  <2>. SUFFICES ASSUME NEW c \in EverPosted PROVE c \in 1 .. candidates
      OBVIOUS
  <2>. QED
      BY CandidateAssumption DEF EverPosted, PoolInv, Candidate, BaseOK
<1>2. posted \in Seq(EverPosted)
    BY DEF QueueInv
<1>3. posted \in Seq(1 .. candidates)
    BY <1>1, <1>2, SeqMonotonic
<1>4. Len(posted) <= candidates
    BY <1>3, CandidateAssumption, AscendingBound DEF QueueInv, BaseOK
<1>5. posted \in Seq(Candidate)
  <2>1. EverPosted \subseteq Candidate
      BY DEF EverPosted, BaseOK
  <2>. QED
      BY <1>2, <2>1, SeqMonotonic
<1>. QED
    BY <1>4, <1>5 DEF TypeOK, BaseOK

(* A step that changes neither a worker nor the queue keeps what they say; *)
(* the event that was handled may be done with.                            *)
LEMMA QueueStays ==
    ASSUME PoolInv, QueueInv, handling' \in {handling, None},
           UNCHANGED <<worker, found, candidates, posted>>
    PROVE  PoolInv' /\ QueueInv' /\ Live' = Live
<1>1. Live' = Live /\ EverPosted' = EverPosted
    BY DEF Live, EverPosted
<1>2. PoolInv'
    BY DEF PoolInv
<1>3. QueueInv'
    BY <1>1 DEF QueueInv, Ascending
<1>. QED
    BY <1>1, <1>2, <1>3

(* A step of the main thread is one of a worker that is kept apart from    *)
(* the next one, and the events keep their order.                          *)
LEMMA MainGen == GenInv /\ Main => GenInv'
<1>. SUFFICES ASSUME GenInv, Main PROVE GenInv'
    OBVIOUS
<1>0. /\ BaseOK /\ OneWorker /\ ClosedIsQuiet
      /\ StartInv /\ PoolInv /\ QueueInv
    BY DEF GenInv, WorkersSound, TypeOK, BaseOK
<1>. SUFFICES BaseOK' /\ OneWorker' /\ ClosedIsQuiet'
              /\ StartInv' /\ PoolInv' /\ QueueInv'
    BY QueueBound, PTL DEF GenInv, WorkersSound
<1>. USE <1>0 DEF Starting, flags, pool
<1>1. CASE TurnOn \/ NewCandidate
  <2>. USE <1>1 DEF TurnOn, NewCandidate, StartBlock
  <2>1. PoolInv' /\ QueueInv' /\ Live' = Live
      BY QueueStays
  <2>2. BaseOK'
      BY DEF BaseOK
  <2>3. OneWorker' /\ ClosedIsQuiet'
      BY <2>1 DEF OneWorker, ClosedIsQuiet
  <2>4. StartInv'
      BY DEF StartInv
  <2>. QED
      BY <2>1, <2>2, <2>3, <2>4
<1>2. CASE TurnOff \/ WaitForWorker \/ LowerStop \/ Close \/ Closed
  <2>. USE <1>2 DEF TurnOff, WaitForWorker, LowerStop, Close, Closed
  <2>1. PoolInv' /\ QueueInv' /\ Live' = Live
      BY QueueStays
  <2>2. BaseOK'
      BY DEF BaseOK
  <2>3. OneWorker' /\ ClosedIsQuiet'
      BY <2>1 DEF OneWorker, ClosedIsQuiet
  <2>4. StartInv'
      BY DEF StartInv
  <2>. QED
      BY <2>1, <2>2, <2>3, <2>4
<1>3. CASE GeneratedBlock
  <2>. USE <1>3 DEF GeneratedBlock
  <2>1. Live' = Live /\ EverPosted' = EverPosted /\ PoolInv'
      BY DEF StartBlock, Live, EverPosted, PoolInv
  <2>2. handling = None
      BY DEF StartInv
  <2>3. /\ EverPosted \subseteq Candidate
        /\ posted \in Seq(EverPosted) /\ posted \in Seq(Int)
    <3>1. EverPosted \subseteq Candidate
        BY DEF BaseOK, EverPosted
    <3>2. posted \in Seq(EverPosted)
        BY DEF QueueInv
    <3>3. EverPosted \subseteq Int
        BY <3>1, CandidateAssumption DEF Candidate
    <3>. QED
        BY <3>1, <3>2, <3>3, SeqMonotonic
  <2>4. /\ Head(posted) \in EverPosted
        /\ Tail(posted) \in Seq(EverPosted)
      BY <2>3
  <2>5. /\ Ascending(Tail(posted))
        /\ \A i \in 1 .. Len(Tail(posted)) : Head(posted) < Tail(posted)[i]
      BY <2>3, AscendingTail DEF QueueInv
  <2>6. handling' \in {handling, Head(posted)}
      BY DEF StartBlock
  <2>7. QueueInv'
    <3>1. Ascending(posted')
        BY <2>5
    <3>. QED
        BY <2>1, <2>2, <2>4, <2>5, <2>6, <3>1 DEF QueueInv, Ascending
  <2>8. BaseOK'
      BY <2>3, <2>4, <2>6 DEF BaseOK, StartBlock
  <2>. QED
      BY <2>1, <2>2, <2>7, <2>8
      DEF StartBlock, OneWorker, ClosedIsQuiet, StartInv
<1>4. CASE RunWorker
  <2>. USE <1>4 DEF RunWorker
  <2>1. /\ candidates \in Nat /\ candidates + 1 \in Candidate
        /\ candidates' = candidates + 1 /\ ~stopped
      BY CandidateAssumption DEF StartInv, BaseOK, Candidate
  <2>2. /\ worker' = [worker EXCEPT ![candidates + 1] = "queued"]
        /\ worker[candidates + 1] = "none"
      BY <2>1 DEF PoolInv
  <2>3. Live' = {candidates + 1}
      BY <2>1, <2>2 DEF Live, OneWorker, BaseOK
  <2>4. EverPosted' = EverPosted
      BY <2>1, <2>2 DEF EverPosted, BaseOK
  <2>5. PoolInv'
      BY <2>1, <2>2, CandidateAssumption DEF PoolInv, BaseOK, Candidate
  <2>6. QueueInv'
      BY <2>4 DEF QueueInv, Ascending
  <2>7. BaseOK'
      BY <2>1, <2>2, CandidateAssumption DEF BaseOK, Candidate
  <2>. QED
      BY <2>1, <2>3, <2>5, <2>6, <2>7
      DEF OneWorker, ClosedIsQuiet, StartInv
<1>. QED
    BY <1>1, <1>2, <1>3, <1>4 DEF Main

-----------------------------------------------------------------------------
(* A worker that runs is the newest, and the main thread is neither past   *)
(* its wait nor gone.                                                      *)
LEMMA Running ==
    ASSUME GenInv, NEW c \in Candidate, worker[c] \notin {"none", "done"}
    PROVE  /\ c = candidates /\ Live = {c} /\ ~stopped
           /\ main \notin {"lower", "run", "closed"}
<1>1. c \in Live
    BY DEF Live
<1>. QED
    BY <1>1 DEF GenInv, WorkersSound, OneWorker, ClosedIsQuiet

(* A worker that goes on to anything but the end of the pool's work.       *)
LEMMA GoesOn ==
    ASSUME GenInv, NEW c \in Candidate, NEW from, NEW to,
           from \notin {"none", "done"},
           to \in {"hash", "test", "told", "due", "tell", "end", "done"},
           Goes(c, from, to), stop' \in BOOLEAN, stopped' \in BOOLEAN,
           found' \subseteq Candidate,
           to # "done" => ~stopped'
    PROVE  /\ BaseOK' /\ OneWorker' /\ ClosedIsQuiet' /\ StartInv' /\ PoolInv'
           /\ \A d \in Candidate \ {c} : worker'[d] = worker[d]
           /\ worker'[c] = to /\ c = candidates
<1>0. BaseOK /\ StartInv /\ PoolInv
    BY DEF GenInv, WorkersSound, TypeOK, BaseOK
<1>1. /\ c = candidates /\ Live = {c} /\ ~stopped
      /\ main \notin {"lower", "run", "closed"}
    BY Running DEF Goes
<1>2. /\ \A d \in Candidate \ {c} : worker'[d] = worker[d]
      /\ worker'[c] = to
    BY <1>0 DEF Goes, BaseOK
<1>3. Live' \subseteq {c} /\ (to = "done" => Live' = {})
    BY <1>1, <1>2 DEF Live
<1>4. BaseOK'
    BY <1>0 DEF Goes, BaseOK
<1>5. OneWorker' /\ ClosedIsQuiet' /\ StartInv'
    BY <1>0, <1>1, <1>3 DEF Goes, OneWorker, ClosedIsQuiet, StartInv, Starting
<1>6. PoolInv'
    BY <1>0, <1>2 DEF Goes, PoolInv
<1>. QED
    BY <1>1, <1>2, <1>4, <1>5, <1>6

(* What the main thread sees of a step of a worker: nothing, or an event.  *)
Quiet ==
    /\ EverPosted' = EverPosted
    /\ UNCHANGED <<candidates, posted, handling>>

Posts(c) ==
    /\ c = candidates /\ c \notin EverPosted
    /\ EverPosted' = EverPosted \cup {c}
    /\ posted' = Append(posted, c)
    /\ UNCHANGED <<candidates, handling>>

(* The worker's steps: what is posted is newer than every event in the     *)
(* queue, and what is lost was not posted.                                 *)
LEMMA WorkGen ==
    ASSUME GenInv, NEW c \in Candidate, Work(c)
    PROVE  GenInv' /\ (Quiet \/ Posts(c))
<1>0. /\ BaseOK /\ OneWorker /\ ClosedIsQuiet
      /\ StartInv /\ PoolInv /\ QueueInv
    BY DEF GenInv, WorkersSound, TypeOK, BaseOK
<1>. SUFFICES /\ BaseOK' /\ OneWorker' /\ ClosedIsQuiet'
              /\ StartInv' /\ PoolInv' /\ QueueInv'
              /\ Quiet \/ Posts(c)
  <2>1. BaseOK' /\ PoolInv' /\ QueueInv' => TypeOK'
      BY QueueBound, PTL
  <2>. QED
      BY <2>1 DEF GenInv, WorkersSound
<1>. DEFINE Kept == /\ BaseOK' /\ OneWorker' /\ ClosedIsQuiet'
                    /\ StartInv' /\ PoolInv'
<1>1. ASSUME EverPosted' = EverPosted,
             UNCHANGED <<candidates, posted, handling>>
      PROVE  QueueInv' /\ Quiet
    BY <1>0, <1>1 DEF QueueInv, Ascending, Quiet
<1>2. worker[c] \notin {"none", "done"} => ~stopped
    BY Running
<1>3. CASE Start(c)
  <2>1. Kept /\ \A d \in Candidate \ {c} : worker'[d] = worker[d]
             /\ worker'[c] = "hash"
      BY <1>0, <1>3, GoesOn DEF Start, BaseOK
  <2>2. EverPosted' = EverPosted
      BY <1>0, <1>3, <2>1 DEF Start, Goes, EverPosted, BaseOK
  <2>. QED
      BY <1>1, <1>3, <2>1, <2>2 DEF Start, Goes
<1>4. CASE Hash(c)
  <2>1. found' \subseteq Candidate /\ stop' \in BOOLEAN /\ stopped' \in BOOLEAN
        /\ ~stopped'
      BY <1>0, <1>2, <1>4 DEF Hash, Goes, BaseOK
  <2>2. Kept /\ \A d \in Candidate \ {c} : worker'[d] = worker[d]
             /\ worker'[c] = "test"
      BY <1>4, <2>1, GoesOn DEF Hash
  <2>3. EverPosted' = EverPosted
      BY <1>0, <1>4, <2>2 DEF Hash, Goes, EverPosted, BaseOK
  <2>. QED
      BY <1>1, <1>4, <2>2, <2>3 DEF Hash, Goes
<1>5. CASE Test(c)
  <2>1. PICK to \in {"hash", "told", "due"} : Goes(c, "test", to)
      BY <1>5 DEF Test
  <2>2. found' \subseteq Candidate /\ stop' \in BOOLEAN /\ stopped' \in BOOLEAN
        /\ ~stopped'
      BY <1>0, <1>2, <1>5, <2>1 DEF Test, Goes, BaseOK
  <2>3. Kept /\ \A d \in Candidate \ {c} : worker'[d] = worker[d]
             /\ worker'[c] = to
      BY <2>1, <2>2, GoesOn
  <2>4. EverPosted' = EverPosted
      BY <1>0, <1>5, <2>1, <2>3 DEF Test, Goes, EverPosted, BaseOK
  <2>. QED
      BY <1>1, <1>5, <2>1, <2>3, <2>4 DEF Test, Goes
<1>6. CASE PostNothing(c)
  <2>1. found' \subseteq Candidate /\ stop' \in BOOLEAN /\ stopped' \in BOOLEAN
        /\ ~stopped'
      BY <1>0, <1>2, <1>6 DEF PostNothing, Goes, BaseOK
  <2>2. Kept /\ \A d \in Candidate \ {c} : worker'[d] = worker[d]
             /\ worker'[c] = "end"
      BY <1>6, <2>1, GoesOn DEF PostNothing
  <2>3. EverPosted' = EverPosted
      BY <1>0, <1>6, <2>2 DEF PostNothing, Goes, EverPosted, BaseOK
  <2>. QED
      BY <1>1, <1>6, <2>2, <2>3 DEF PostNothing, Goes
<1>7. CASE Tell(c)
  <2>1. found' \subseteq Candidate /\ stop' \in BOOLEAN /\ stopped' \in BOOLEAN
        /\ ~stopped'
      BY <1>0, <1>2, <1>7 DEF Tell, Goes, BaseOK
  <2>2. Kept /\ \A d \in Candidate \ {c} : worker'[d] = worker[d]
             /\ worker'[c] = "end"
      BY <1>7, <2>1, GoesOn DEF Tell
  <2>3. EverPosted' = EverPosted
      BY <1>0, <1>7, <2>2 DEF Tell, Goes, EverPosted, BaseOK
  <2>. QED
      BY <1>1, <1>7, <2>2, <2>3 DEF Tell, Goes
<1>8. CASE End(c)
  <2>1. Kept /\ \A d \in Candidate \ {c} : worker'[d] = worker[d]
             /\ worker'[c] = "done"
      BY <1>0, <1>8, GoesOn DEF End, BaseOK
  <2>2. EverPosted' = EverPosted
      BY <1>0, <1>8, <2>1 DEF End, Goes, EverPosted, BaseOK
  <2>. QED
      BY <1>1, <1>8, <2>1, <2>2 DEF End, Goes
<1>9. CASE Post(c)
  <2>1. PICK from \in {"told", "due"} : Goes(c, from, "tell")
      BY <1>9 DEF Post
  <2>2. stop' \in BOOLEAN /\ stopped' \in BOOLEAN /\ ~stopped'
        /\ found' \subseteq Candidate
      BY <1>0, <1>2, <1>9, <2>1 DEF Post, Goes, BaseOK
  <2>3. Kept /\ (\A d \in Candidate \ {c} : worker'[d] = worker[d])
             /\ worker'[c] = "tell" /\ c = candidates
      BY <2>1, <2>2, GoesOn
  <2>4. EverPosted' = EverPosted \cup {c} /\ c \notin EverPosted
      BY <1>0, <1>9, <2>1, <2>3 DEF Post, Goes, EverPosted, BaseOK
  <2>5. \A d \in EverPosted : d \in Int /\ d < c
      BY <1>0, <2>3, <2>4, CandidateAssumption
      DEF EverPosted, PoolInv, BaseOK, Candidate
  <2>6. posted \in Seq(EverPosted) /\ Ascending(posted)
      BY <1>0 DEF QueueInv
  <2>7. /\ posted \in Seq(Int) /\ posted \in Seq(EverPosted')
        /\ c \in Int /\ \A i \in 1 .. Len(posted) : posted[i] < c
    <3>1. EverPosted \subseteq Int /\ EverPosted \subseteq EverPosted'
        BY <2>4, <2>5
    <3>2. \A i \in 1 .. Len(posted) : posted[i] \in EverPosted
        BY <2>6, ElementOfSeq
    <3>3. posted \in Seq(Int) /\ posted \in Seq(EverPosted')
        BY <2>6, <3>1, SeqMonotonic
    <3>4. c \in Int
        BY CandidateAssumption DEF Candidate
    <3>. QED
        BY <2>5, <3>2, <3>3, <3>4
  <2>8. posted' = Append(posted, c) /\ handling' = handling
      BY <1>9, <2>1 DEF Post, Goes
  <2>9. posted' \in Seq(EverPosted') /\ Ascending(posted')
    <3>1. Ascending(Append(posted, c))
        BY <2>6, <2>7, AscendingAppend
    <3>2. Append(posted, c) \in Seq(EverPosted')
        BY <2>4, <2>7
    <3>. QED
        BY <2>8, <3>1, <3>2
  <2>10. ASSUME handling # None
         PROVE  /\ handling \in EverPosted'
                /\ \A i \in 1 .. Len(posted') : handling < posted'[i]
      BY <1>0, <2>4, <2>5, <2>7, <2>8, <2>10 DEF QueueInv
  <2>11. QueueInv'
      BY <2>8, <2>9, <2>10 DEF QueueInv, Ascending
  <2>12. Posts(c)
      BY <1>9, <2>1, <2>3, <2>4, <2>8 DEF Posts, Goes
  <2>. QED
      BY <2>3, <2>11, <2>12
<1>. QED
    BY <1>3, <1>4, <1>5, <1>6, <1>7, <1>8, <1>9 DEF Work

(* The invariant holds of every behaviour.                                 *)
LEMMA GenAlways == Spec => []GenInv
<1>1. GenInv /\ [Next]_vars => GenInv'
    BY StutterGen, MainGen, WorkGen DEF Next
<1>. QED
    BY <1>1, InitGen, PTL DEF Spec

(* However the threads interleave at the flags: start_block starts a       *)
(* worker only when the last one is done, each candidate's block is posted *)
(* at most once, and a node that is gone has no worker.                    *)
THEOREM OneWorkerAtATime == Spec => []WorkersSound
<1>1. GenInv => WorkersSound
    BY DEF GenInv
<1>. QED
    BY <1>1, GenAlways, PTL

-----------------------------------------------------------------------------
(* What is in the queue, as a set.                                         *)
LEMMA QueueAsSet ==
    ASSUME NEW s \in Seq(Int)
    PROVE  /\ \A c \in Int : ToSet(Append(s, c)) = ToSet(s) \cup {c}
           /\ s # << >> => /\ ToSet(s) = {Head(s)} \cup ToSet(Tail(s))
<1>1. ASSUME NEW c \in Int
      PROVE  ToSet(Append(s, c)) = ToSet(s) \cup {c}
  <2>1. /\ DOMAIN Append(s, c) = 1 .. Len(s) + 1
        /\ Append(s, c)[Len(s) + 1] = c
        /\ \A i \in 1 .. Len(s) : Append(s, c)[i] = s[i]
        /\ DOMAIN s = 1 .. Len(s)
      OBVIOUS
  <2>2. 1 .. Len(s) + 1 = (1 .. Len(s)) \cup {Len(s) + 1}
      OBVIOUS
  <2>. QED
      BY <2>1, <2>2 DEF ToSet
<1>2. ASSUME s # << >>
      PROVE  ToSet(s) = {Head(s)} \cup ToSet(Tail(s))
  <2>1. /\ DOMAIN s = 1 .. Len(s) /\ Head(s) = s[1] /\ Len(s) \in Nat \ {0}
        /\ DOMAIN Tail(s) = 1 .. Len(s) - 1
        /\ \A i \in 1 .. Len(s) - 1 : Tail(s)[i] = s[i + 1]
      BY <1>2
  <2>2. \A i \in 1 .. Len(s) :
          i = 1 \/ (i - 1 \in 1 .. Len(s) - 1 /\ (i - 1) + 1 = i)
      BY <2>1
  <2>3. ToSet(s) \subseteq {Head(s)} \cup ToSet(Tail(s))
    <3>1. SUFFICES ASSUME NEW i \in 1 .. Len(s)
                   PROVE  s[i] \in {Head(s)} \cup ToSet(Tail(s))
        BY <2>1 DEF ToSet
    <3>2. CASE i = 1
        BY <2>1, <3>2
    <3>3. CASE i # 1
      <4>1. i - 1 \in DOMAIN Tail(s) /\ Tail(s)[i - 1] = s[i]
          BY <2>1, <2>2, <3>3
      <4>. QED
          BY <4>1 DEF ToSet
    <3>. QED
        BY <3>2, <3>3
  <2>4. {Head(s)} \cup ToSet(Tail(s)) \subseteq ToSet(s)
    <3>1. \A i \in 1 .. Len(s) - 1 : i + 1 \in DOMAIN s
        BY <2>1
    <3>2. 1 \in DOMAIN s
        BY <2>1
    <3>. QED
        BY <2>1, <3>1, <3>2 DEF ToSet
  <2>. QED
      BY <2>3, <2>4
<1>. QED
    BY <1>1, <1>2

(* What no event and no candidate comes of, the handlers cannot see.       *)
LEMMA QuietStep == Quiet => UNCHANGED M!vars
BY DEF Quiet, M!vars

(* The steps of the main thread: only RunWorker, which makes the next      *)
(* candidate, and an event that is dropped are steps of the Miner.         *)
LEMMA MainMiner == GenInv /\ Main => M!Next \/ UNCHANGED M!vars
<1>. SUFFICES ASSUME GenInv, Main PROVE M!Next \/ UNCHANGED M!vars
    OBVIOUS
<1>0. TypeOK /\ StartInv /\ PoolInv /\ QueueInv
    BY DEF GenInv, WorkersSound
<1>1. /\ EverPosted \subseteq Candidate /\ EverPosted \subseteq Int
      /\ posted \in Seq(Int)
      /\ None \notin Candidate
      /\ \A c \in EverPosted : c <= candidates
  <2>1. EverPosted \subseteq Candidate
      BY <1>0 DEF TypeOK, EverPosted
  <2>2. Candidate \subseteq Int /\ None \notin Candidate
      BY CandidateAssumption DEF Candidate, None
  <2>3. posted \in Seq(Int)
      BY <1>0, <2>2, SeqMonotonic DEF TypeOK
  <2>4. \A c \in EverPosted : c <= candidates
      BY <1>0, <2>1, CandidateAssumption
      DEF EverPosted, PoolInv, TypeOK, Candidate
  <2>. QED
      BY <2>1, <2>2, <2>3, <2>4
<1>2. handling \notin ToSet(posted)
  <2>1. SUFFICES ASSUME NEW i \in 1 .. Len(posted), posted[i] = handling
                 PROVE  FALSE
      BY <1>1 DEF ToSet
  <2>2. posted[i] \in Candidate /\ handling # None /\ handling < posted[i]
      BY <1>0, <1>1, <2>1 DEF TypeOK, QueueInv
  <2>. QED
      BY <2>1, <2>2, CandidateAssumption DEF Candidate
<1>3. CASE \/ TurnOn \/ TurnOff \/ NewCandidate \/ WaitForWorker
           \/ LowerStop \/ Close \/ Closed
  <2>1. Quiet
      BY <1>3 DEF TurnOn, TurnOff, NewCandidate, WaitForWorker, LowerStop,
                  Close, Closed, StartBlock, Quiet, EverPosted, pool
  <2>. QED
      BY <2>1, QuietStep
<1>4. CASE GeneratedBlock
  <2>. USE <1>4 DEF GeneratedBlock
  <2>1. /\ EverPosted' = EverPosted /\ candidates' = candidates
        /\ handling = None /\ posted # << >> /\ posted' = Tail(posted)
        /\ handling' \in {None, Head(posted)}
      BY <1>0 DEF StartBlock, pool, EverPosted, StartInv, Starting
  <2>2. /\ Head(posted) \in Candidate
        /\ ToSet(posted) = {Head(posted)} \cup ToSet(Tail(posted))
      BY <1>0, <1>1, <2>1, QueueAsSet DEF TypeOK
  <2>3. Head(posted) \notin ToSet(Tail(posted))
    <3>1. /\ \A i \in 1 .. Len(Tail(posted)) : Head(posted) < Tail(posted)[i]
          /\ DOMAIN Tail(posted) = 1 .. Len(Tail(posted))
          /\ Head(posted) \in Int
        BY <1>0, <1>1, <2>1, AscendingTail DEF QueueInv
    <3>. QED
        BY <3>1 DEF ToSet
  <2>4. CASE handling' = Head(posted)
    <3>1. UNCHANGED M!vars
        BY <1>1, <2>1, <2>2, <2>4 DEF M!vars
    <3>. QED
        BY <3>1
  <2>5. CASE handling' = None
    <3>1. M!GeneratedBlock(Head(posted))
        BY <1>1, <2>1, <2>2, <2>3, <2>5 DEF M!GeneratedBlock
    <3>. QED
        BY <2>2, <3>1 DEF M!Next, M!Candidate, Candidate
  <2>. QED
      BY <2>1, <2>4, <2>5
<1>5. CASE RunWorker
  <2>. USE <1>5 DEF RunWorker
  <2>1. /\ candidates \in Nat /\ candidates < MaxCandidate
        /\ candidates' = candidates + 1 /\ candidates + 1 \in Candidate
        /\ handling' = None /\ posted' = posted
      BY <1>0, CandidateAssumption DEF StartInv, Starting, TypeOK, Candidate
  <2>2. EverPosted' = EverPosted
    <3>1. /\ worker' = [worker EXCEPT ![candidates + 1] = "queued"]
          /\ worker[candidates + 1] = "none"
        BY <1>0, <2>1 DEF PoolInv
    <3>. QED
        BY <1>0, <2>1, <3>1 DEF EverPosted, TypeOK
  <2>3. candidates + 1 \notin EverPosted
      BY <1>1, <2>1
  <2>4. M!StartBlock
      BY <2>1, <2>2, <2>3 DEF M!StartBlock
  <2>5. CASE handling = None
    <3>1. M!Begin
        BY <2>1, <2>4, <2>5 DEF M!Begin
    <3>. QED
        BY <3>1 DEF M!Next
  <2>6. CASE handling # None
    <3>1. M!GeneratedBlock(handling)
        BY <1>2, <2>1, <2>4, <2>6 DEF M!GeneratedBlock
    <3>2. handling \in M!Candidate
        BY <1>0, <2>6 DEF TypeOK, Candidate, M!Candidate
    <3>. QED
        BY <3>1, <3>2 DEF M!Next
  <2>. QED
      BY <2>5, <2>6
<1>. QED
    BY <1>3, <1>4, <1>5 DEF Main

(* A worker's step that posts is the Miner's Found, of the candidate that  *)
(* is hashed; of its others the handlers see nothing.                      *)
LEMMA WorkMiner ==
    ASSUME GenInv, NEW c \in Candidate, Work(c)
    PROVE  M!Next \/ UNCHANGED M!vars
<1>1. CASE Quiet
    BY <1>1, QuietStep
<1>2. CASE Posts(c)
  <2>1. c # None /\ c \in Int /\ posted \in Seq(Int)
    <3>1. posted \in Seq(Candidate) /\ Candidate \subseteq Int
        BY CandidateAssumption DEF GenInv, WorkersSound, TypeOK, Candidate
    <3>. QED
        BY <3>1, SeqMonotonic, CandidateAssumption DEF Candidate, None
  <2>2. ToSet(posted') = ToSet(posted) \cup {c}
      BY <1>2, <2>1, QueueAsSet DEF Posts
  <2>3. M!Found
      BY <1>2, <2>1, <2>2 DEF Posts, M!Found, M!None, None
  <2>. QED
      BY <2>3 DEF M!Next
<1>. QED
    BY <1>1, <1>2, WorkGen

(* The handlers may take the generating thread for the Miner: start_block, *)
(* which waits for the worker and lets other steps in, is to them one step.*)
THEOREM GeneratorIsMiner == Spec => ImplementsMiner
<1>1. Init => M!Init
  <2>. SUFFICES ASSUME Init PROVE M!Init
      OBVIOUS
  <2>1. EverPosted = {} /\ ToSet(posted) = {}
      BY DEF Init, EverPosted, ToSet
  <2>. QED
      BY <2>1 DEF Init, M!Init, None, M!None
<1>2. GenInv /\ [Next]_vars => [M!Next]_(M!vars)
  <2>1. UNCHANGED vars => Quiet
      BY DEF vars, pool, Quiet, EverPosted
  <2>. QED
      BY <2>1, QuietStep, MainMiner, WorkMiner DEF Next
<1>. QED
    BY <1>1, <1>2, GenAlways, PTL DEF Spec, ImplementsMiner, M!Spec

-----------------------------------------------------------------------------
(* The chain the blocks go to, and the target they have to meet.           *)

(* What validate demands of every block that was let onto the chain.       *)
ChainInv ==
    /\ bc \in Seq(Block)
    /\ clock \in SECONDS_PER_BLOCK .. MaxTime
    /\ validate(bc)

-----------------------------------------------------------------------------
(* The quotient a division by n leaves.                                    *)
LEMMA DivIs ==
    ASSUME NEW a \in Nat, NEW n \in Nat \ {0}
    PROVE  /\ a \div n \in Nat /\ (a \div n) * n <= a
           /\ \A q \in Nat : q * n <= a => q <= a \div n
OBVIOUS

(* More of a thing, more times.                                            *)
LEMMA TimesOrder ==
    ASSUME NEW x \in Nat, NEW y \in Nat, x <= y
    PROVE  x * Grain <= y * (Grain + 1)
<1>1. PICK d \in Nat : y = x + d
  <2>1. y - x \in Nat /\ y = x + (y - x)
      OBVIOUS
  <2>. QED
      BY <2>1
<1>2. (x + d) * (Grain + 1) = x * Grain + x + d * Grain + d
    BY HashAssumption
<1>3. x * Grain \in Nat /\ d * Grain \in Nat
    BY HashAssumption
<1>. QED
    BY <1>1, <1>2, <1>3, HashAssumption

(* Easing a target never lowers it, keeps the order of targets, and adds   *)
(* one grain at most.                                                      *)
LEMMA EasedIs ==
    ASSUME NEW m \in 0 .. MaxHash
    PROVE  /\ Eased(m) \in 0 .. MaxHash /\ m <= Eased(m)
           /\ Eased(m) * Grain <= m * (Grain + 1)
<1>. DEFINE q == (m * (Grain + 1)) \div Grain
<1>1. m * (Grain + 1) \in Nat /\ Grain \in Nat \ {0}
    BY HashAssumption
<1>2. q \in Nat /\ q * Grain <= m * (Grain + 1)
    BY <1>1, DivIs
<1>3. m <= q
  <2>1. m * Grain <= m * (Grain + 1)
      BY HashAssumption
  <2>. QED
      BY <1>1, <2>1, DivIs
<1>4. Eased(m) = IF q > MaxHash THEN MaxHash ELSE q
    BY DEF Eased
<1>. HIDE DEF q
<1>5. q > MaxHash => MaxHash * Grain <= q * Grain
    BY <1>2, HashAssumption
<1>. QED
    BY <1>1, <1>2, <1>3, <1>4, <1>5, HashAssumption

(* calculate_hash_target eases the highest hash of its window: the higher  *)
(* that hash, the higher the target.                                       *)
LEMMA EasedOrder ==
    ASSUME NEW a \in 0 .. MaxHash, NEW b \in 0 .. MaxHash, a <= b
    PROVE  Eased(a) <= Eased(b)
<1>. DEFINE p == (a * (Grain + 1)) \div Grain
            q == (b * (Grain + 1)) \div Grain
<1>1. /\ a * (Grain + 1) \in Nat /\ b * (Grain + 1) \in Nat /\ Grain \in Nat \ {0}
      /\ a * (Grain + 1) <= b * (Grain + 1)
    BY HashAssumption
<1>2. p \in Nat /\ q \in Nat /\ p * Grain <= a * (Grain + 1)
    BY <1>1, DivIs
<1>3. p * Grain <= b * (Grain + 1)
    BY <1>1, <1>2
<1>4. p <= q
    BY <1>1, <1>2, <1>3, DivIs
<1>5. /\ Eased(a) = IF p > MaxHash THEN MaxHash ELSE p
      /\ Eased(b) = IF q > MaxHash THEN MaxHash ELSE q
    BY DEF Eased
<1>. HIDE DEF p, q
<1>. QED
    BY <1>2, <1>4, <1>5, HashAssumption

-----------------------------------------------------------------------------
(* A set of hashes has a greatest one.                                     *)
LEMMA MaxOfHashes ==
    ASSUME NEW S \in SUBSET (0 .. MaxHash), S # {}
    PROVE  Max(S) \in S /\ \A h \in S : Max(S) >= h
<1>. DEFINE R == {MaxHash - h : h \in S}
            less == OpToRel(<, Nat)
<1>1. R \subseteq Nat /\ R # {}
  <2>1. \A h \in S : MaxHash - h \in Nat
      BY HashAssumption
  <2>. QED
      BY <2>1, Zenon
<1>2. IsWellFoundedOn(less, Nat)
    BY NatLessThanWellFounded
<1>3. \A x, y \in Nat : x < y => <<x, y>> \in less
    BY DEF OpToRel
<1>. HIDE DEF R, less
<1>4. PICK r \in R : \A x \in R : <<x, r>> \notin less
    BY <1>1, <1>2, WFMin
<1>5. ASSUME NEW x \in R PROVE r <= x
  <2>1. x \in Nat /\ r \in Nat
      BY <1>1
  <2>2. ~(x < r)
      BY <1>3, <1>4, <2>1
  <2>. QED
      BY <2>1, <2>2
<1>6. PICK m \in S : r = MaxHash - m
    BY DEF R
<1>7. ASSUME NEW h \in S PROVE m >= h
  <2>1. MaxHash - h \in R
      BY DEF R
  <2>2. MaxHash - m <= MaxHash - h
      BY <1>5, <1>6, <2>1
  <2>. QED
      BY <2>2, HashAssumption
<1>. QED
    BY <1>7 DEF Max

(* The greatest of a set below another's.                                  *)
LEMMA MaxOrder ==
    ASSUME NEW S \in SUBSET (0 .. MaxHash), S # {}, NEW T \in SUBSET (0 .. MaxHash),
           \A h \in S : \E k \in T : h <= k
    PROVE  Max(S) <= Max(T)
<1>1. T # {}
    OBVIOUS
<1>2. Max(S) \in S /\ Max(T) \in T /\ \A k \in T : Max(T) >= k
    BY <1>1, MaxOfHashes
<1>3. PICK k \in T : Max(S) <= k
    BY <1>2
<1>4. Max(S) \in 0 .. MaxHash /\ Max(T) \in 0 .. MaxHash /\ k \in 0 .. MaxHash
    BY <1>2
<1>5. Max(T) >= k
    BY <1>2
<1>. QED
    BY <1>3, <1>4, <1>5

(* What the loop looks at are hashes, the block's own among them.          *)
LEMMA WindowType ==
    ASSUME NEW s \in Seq(Block), NEW n \in 1 .. Len(s)
    PROVE  /\ Window(s, n) \in SUBSET (0 .. MaxHash) /\ Window(s, n) # {}
           /\ s[n].hash \in Window(s, n)
<1>1. \A i \in 1 .. n : s[i].hash \in 0 .. MaxHash /\ s[i].prev_block \in 0 .. MaxHash
  <2>1. \A i \in 1 .. n : s[i] \in Block
      OBVIOUS
  <2>. QED
      BY <2>1 DEF Block
<1>2. n \in 1 .. n /\ \A i \in 2 .. n : i \in 1 .. n
    OBVIOUS
<1>. QED
    BY <1>1, <1>2 DEF Window

(* So a target is a hash, and a block's own hash always meets the target   *)
(* that is worked out from it.                                             *)
LEMMA TargetIs ==
    ASSUME NEW s \in Seq(Block), NEW n \in 1 .. Len(s)
    PROVE  /\ calculate_hash_target(s, n) \in 0 .. MaxHash
           /\ s[n].hash <= calculate_hash_target(s, n)
<1>. DEFINE m == Max(Window(s, n))
<1>1. m \in 0 .. MaxHash /\ s[n].hash <= m /\ s[n].hash \in 0 .. MaxHash
    BY WindowType, MaxOfHashes
<1>. HIDE DEF m
<1>2. Eased(m) \in 0 .. MaxHash /\ m <= Eased(m)
    BY <1>1, EasedIs
<1>3. calculate_hash_target(s, n) = IF n = 1 THEN MaxHash ELSE Eased(m)
    BY DEF calculate_hash_target, m
<1>. QED
    BY <1>1, <1>2, <1>3, HashAssumption

(* A block on top changes no target below it.                              *)
LEMMA TargetBelow ==
    ASSUME NEW s \in Seq(Block), NEW b \in Block, NEW n \in 1 .. Len(s)
    PROVE  calculate_hash_target(Append(s, b), n) = calculate_hash_target(s, n)
<1>1. \A i \in 1 .. n : Append(s, b)[i] = s[i]
    OBVIOUS
<1>2. Window(Append(s, b), n) = Window(s, n)
  <2>1. \A j \in {i \in 2 .. n : n - i < BLOCK_WINDOW - 1} : Append(s, b)[j] = s[j]
      BY <1>1
  <2>2. Append(s, b)[n] = s[n]
      BY <1>1
  <2>. QED
      BY <2>1, <2>2 DEF Window
<1>. QED
    BY <1>2 DEF calculate_hash_target

(* validate refuses a block on a valid chain for its time or for what it   *)
(* is on: never for its hash.                                              *)
LEMMA ValidAppend ==
    ASSUME NEW s \in Seq(Block), validate(s), NEW b \in Block,
           b.utc_time >= SECONDS_PER_BLOCK,
           b.prev_block = IF s = << >> THEN NoHash ELSE Last(s).hash
    PROVE  validate(Append(s, b))
<1>. DEFINE t == Append(s, b)
<1>1. t \in Seq(Block) /\ Len(t) = Len(s) + 1 /\ Len(s) \in Nat /\ t[Len(s) + 1] = b
    OBVIOUS
<1>2. ASSUME NEW i \in 1 .. Len(s)
      PROVE  /\ t[i].utc_time - 0 >= SECONDS_PER_BLOCK
             /\ t[i].prev_block = IF i = 1 THEN NoHash ELSE t[i - 1].hash
             /\ t[i].hash <= calculate_hash_target(t, i)
  <2>1. t[i] = s[i] /\ (i # 1 => t[i - 1] = s[i - 1])
      OBVIOUS
  <2>2. calculate_hash_target(t, i) = calculate_hash_target(s, i)
      BY TargetBelow
  <2>. HIDE DEF t
  <2>. QED
      BY <2>1, <2>2 DEF validate
<1>3. b.hash <= calculate_hash_target(t, Len(s) + 1)
  <2>. HIDE DEF t
  <2>. QED
      BY <1>1, TargetIs
<1>4. b.prev_block = IF Len(s) + 1 = 1 THEN NoHash ELSE t[(Len(s) + 1) - 1].hash
  <2>1. s = << >> <=> Len(s) + 1 = 1
      OBVIOUS
  <2>2. s # << >> => t[(Len(s) + 1) - 1] = Last(s)
      BY DEF Last
  <2>. QED
      BY <2>1, <2>2
<1>5. b.utc_time - 0 >= SECONDS_PER_BLOCK
    BY DEF Block, Time
<1>. HIDE DEF t
<1>6. validate(t)
  <2>. SUFFICES ASSUME NEW i \in 1 .. Len(t)
                PROVE  /\ t[i].utc_time - 0 >= SECONDS_PER_BLOCK
                       /\ t[i].prev_block = IF i = 1 THEN NoHash ELSE t[i - 1].hash
                       /\ t[i].hash <= calculate_hash_target(t, i)
      BY DEF validate
  <2>1. i \in 1 .. Len(s) \/ i = Len(s) + 1
      BY <1>1
  <2>. QED
      BY <1>1, <1>2, <1>3, <1>4, <1>5, <2>1
<1>. QED
    BY <1>6 DEF t

-----------------------------------------------------------------------------
(* The chain without its head.                                             *)
LEMMA FrontType ==
    ASSUME NEW s \in Seq(Block), s # << >>
    PROVE  /\ Front(s) \in Seq(Block) /\ Len(Front(s)) = Len(s) - 1
           /\ \A i \in 1 .. Len(s) - 1 : Front(s)[i] = s[i]
<1>1. Len(s) \in Nat /\ Len(s) >= 1
    OBVIOUS
<1>. DEFINE n == Len(s) - 1
<1>2. n \in Nat /\ n <= Len(s) /\ Front(s) = SubSeq(s, 1, n)
    BY <1>1 DEF Front
<1>3. \A i \in 1 .. n : s[i] \in Block
    BY <1>2
<1>. HIDE DEF n
<1>4. /\ SubSeq(s, 1, n) \in Seq(Block)
      /\ Len(SubSeq(s, 1, n)) = IF 1 <= n THEN n - 1 + 1 ELSE 0
      /\ \A i \in 1 .. n - 1 + 1 : SubSeq(s, 1, n)[i] = s[1 + i - 1]
    BY <1>2, <1>3, SubSeqProperties
<1>5. Len(SubSeq(s, 1, n)) = n /\ \A i \in 1 .. n : SubSeq(s, 1, n)[i] = s[i]
    BY <1>2, <1>4
<1>. QED
    BY <1>2, <1>4, <1>5 DEF n

(* Every step leaves a valid chain.                                        *)
LEMMA ChainStep == ChainInv /\ [ChainNext]_chainVars => ChainInv'
<1>. SUFFICES ASSUME ChainInv, [ChainNext]_chainVars PROVE ChainInv'
    OBVIOUS
<1>1. CASE Tick
  <2>1. bc' = bc /\ clock' \in SECONDS_PER_BLOCK .. MaxTime
      BY <1>1, HashAssumption DEF Tick, ChainInv, SECONDS_PER_BLOCK
  <2>. QED
      BY <2>1 DEF ChainInv, validate
<1>2. ASSUME NEW b \in Block, Genesis(b) PROVE ChainInv'
  <2>1. /\ bc' = <<b>> /\ clock' = clock /\ b.prev_block = NoHash
        /\ b.utc_time >= SECONDS_PER_BLOCK
      BY <1>2 DEF Genesis, ChainInv, SECONDS_PER_BLOCK
  <2>2. validate(<< >>) /\ << >> \in Seq(Block)
      BY DEF validate
  <2>3. validate(Append(<< >>, b))
      BY <2>1, <2>2, ValidAppend
  <2>4. Append(<< >>, b) = <<b>>
      OBVIOUS
  <2>5. validate(bc')
      BY <2>1, <2>3, <2>4
  <2>. QED
      BY <2>1, <2>5 DEF ChainInv, validate
<1>3. ASSUME NEW b \in Block, AppendBlock(b) PROVE ChainInv'
    BY <1>3 DEF AppendBlock, ChainInv, validate
<1>4. ASSUME NEW b \in Block, ReplaceBlock(b) PROVE ChainInv'
  <2>1. /\ bc' = Append(Front(bc), b) /\ clock' = clock
        /\ validate(Append(Front(bc), b))
      BY <1>4 DEF ReplaceBlock
  <2>2. Append(Front(bc), b) \in Seq(Block)
      BY <1>4, FrontType DEF ReplaceBlock, ChainInv
  <2>. QED
      BY <2>1, <2>2 DEF ChainInv, validate
<1>5. CASE UNCHANGED chainVars
    BY <1>5 DEF chainVars, ChainInv, validate
<1>. QED
    BY <1>1, <1>2, <1>3, <1>4, <1>5 DEF ChainNext

(* A new block_chain holds no block, which validate accepts.               *)
LEMMA ChainStart == ChainInit => ChainInv
BY HashAssumption DEF ChainInit, ChainInv, validate, SECONDS_PER_BLOCK

(* The blocks that add_block keeps always form a chain that validate       *)
(* accepts.                                                                *)
LEMMA ChainInvariant == ChainSpec => []ChainInv
    BY ChainStart, ChainStep, PTL DEF ChainSpec

(* Following prev_block finds the hashes of the window's blocks.           *)
LEMMA WindowIsRecent ==
    ASSUME NEW s \in Seq(Block), validate(s), NEW n \in 1 .. Len(s)
    PROVE  Window(s, n) = {s[j].hash : j \in {i \in 1 .. n : n - i < BLOCK_WINDOW}}
<1>. DEFINE back == {i \in 2 .. n : n - i < BLOCK_WINDOW - 1}
            recent == {i \in 1 .. n : n - i < BLOCK_WINDOW}
<1>1. \A j \in back : s[j].prev_block = s[j - 1].hash
    BY DEF validate
<1>2. \A j \in back : j - 1 \in recent
    BY HashAssumption
<1>3. \A i \in recent : i = n \/ (i + 1 \in back /\ (i + 1) - 1 = i)
    BY HashAssumption
<1>4. n \in recent
    BY HashAssumption
<1>5. Window(s, n) = {s[n].hash} \cup {s[j].prev_block : j \in back}
    BY DEF Window
<1>. HIDE DEF back, recent
<1>6. Window(s, n) \subseteq {s[j].hash : j \in recent}
    BY <1>1, <1>2, <1>4, <1>5
<1>7. ASSUME NEW i \in recent PROVE s[i].hash \in Window(s, n)
  <2>1. CASE i = n
      BY <1>5, <2>1
  <2>2. CASE i + 1 \in back /\ (i + 1) - 1 = i
      BY <1>1, <1>5, <2>2
  <2>. QED
      BY <1>3, <2>1, <2>2
<1>. QED
    BY <1>6, <1>7 DEF recent

(* On every chain the next block's target is a hash, and is that of the    *)
(* last window of blocks: prev_block leads calculate_hash_target through   *)
(* just these.                                                             *)
THEOREM TargetIsSound == ChainSpec => []TargetSound
<1>1. ChainInv => TargetSound
  <2>. SUFFICES ASSUME ChainInv PROVE TargetSound
      OBVIOUS
  <2>1. bc # << >> => Len(bc) \in 1 .. Len(bc)
      BY DEF ChainInv
  <2>2. ChainTypeOK
      BY <2>1, TargetIs, HashAssumption DEF ChainInv, ChainTypeOK, Target, Time, SECONDS_PER_BLOCK
  <2>3. ASSUME Len(bc) > 1 PROVE TargetOfWindow
    <3>1. Len(bc) \in Nat
        BY DEF ChainInv
    <3>2. Len(bc) \in 1 .. Len(bc) /\ Len(bc) # 1
        BY <2>3, <3>1
    <3>. QED
        BY <3>2, WindowIsRecent
        DEF ChainInv, TargetOfWindow, Target, calculate_hash_target
  <2>. QED
      BY <2>2, <2>3 DEF TargetSound, TargetOfWindow
<1>. QED
    BY <1>1, ChainInvariant, PTL

(* What generate finds on the head, at any target, validate accepts.       *)
THEOREM WhatIsMinedIsAccepted == ChainSpec => []MinedIsAccepted
<1>1. ChainInv => MinedIsAccepted
  <2>. SUFFICES ASSUME ChainInv, bc # << >>, NEW h \in 1 .. MaxHash
                PROVE  validate(Append(bc, Mining(h)))
      BY DEF MinedIsAccepted
  <2>1. Last(bc) \in Block /\ Len(bc) \in Nat
    <3>1. Len(bc) \in Nat /\ Len(bc) \in 1 .. Len(bc)
        BY DEF ChainInv
    <3>. QED
        BY <3>1 DEF ChainInv, Last
  <2>2. clock \in Time /\ clock >= SECONDS_PER_BLOCK
      BY HashAssumption DEF ChainInv, Time, SECONDS_PER_BLOCK
  <2>3. Mining(h) \in Block
      BY <2>1, <2>2 DEF Mining, Block
  <2>. QED
      BY <2>2, <2>3, ValidAppend DEF ChainInv, Mining
<1>. QED
    BY <1>1, ChainInvariant, PTL

(* validate's look at the target refuses no block: a block on the head is  *)
(* let through with any hash, for the target it is compared with is worked *)
(* out from that hash as well.                                             *)
AnyHashIsAccepted ==
    \A b \in Block :
        bc # << >> /\ b.prev_block = Last(bc).hash /\ b.utc_time >= SECONDS_PER_BLOCK
            => validate(Append(bc, b))

(* Between the chain's checks, add_block never refuses a block for its     *)
(* hash: whatever the hash of a block that follows the head, validate      *)
(* accepts it.                                                             *)
THEOREM TargetRefusesNothing == ChainSpec => []AnyHashIsAccepted
<1>1. ChainInv => AnyHashIsAccepted
    BY ValidAppend DEF ChainInv, AnyHashIsAccepted
<1>. QED
    BY <1>1, ChainInvariant, PTL

-----------------------------------------------------------------------------
(* How the target moves with a block more, that meets it.                  *)
LEMMA AppendEases ==
    ASSUME NEW s \in Seq(Block), s # << >>, validate(s), NEW b \in Block,
           b.prev_block = Last(s).hash, generate(b.hash, s)
    PROVE  calculate_hash_target(Append(s, b), Len(s) + 1) * Grain
               <= calculate_hash_target(s, Len(s)) * (Grain + 1)
<1>. DEFINE n == Len(s)
            t == Append(s, b)
            old == calculate_hash_target(s, n)
            top == Max(Window(t, n + 1))
<1>1. n \in Nat \ {0} /\ n \in 1 .. Len(s) /\ n + 1 \in 1 .. Len(t) /\ t \in Seq(Block)
      /\ t[n + 1] = b /\ \A i \in 1 .. n : t[i] = s[i]
    OBVIOUS
<1>2. old \in 0 .. MaxHash /\ b.hash < old /\ b.hash \in 0 .. MaxHash
    BY <1>1, TargetIs DEF generate, Block
<1>3. ASSUME NEW h \in Window(t, n + 1) PROVE h <= old /\ h \in 0 .. MaxHash
  <2>1. h \in 0 .. MaxHash
      BY <1>1, WindowType
  <2>2. CASE n = 1
    <3>1. old = MaxHash
        BY <2>2 DEF calculate_hash_target
    <3>. QED
        BY <2>1, <3>1
  <2>3. CASE n # 1 /\ h = b.hash
      BY <1>2, <2>1, <2>3
  <2>4. CASE n # 1 /\ h # b.hash
    <3>1. PICK j \in {i \in 2 .. n + 1 : (n + 1) - i < BLOCK_WINDOW - 1} :
              h = t[j].prev_block
        BY <1>1, <2>4 DEF Window
    <3>2. CASE j = n + 1
      <4>1. h = s[n].hash
          BY <1>1, <3>1, <3>2 DEF Last
      <4>. QED
          BY <1>1, <2>1, <4>1, TargetIs
    <3>3. CASE j # n + 1
      <4>1. j \in 2 .. n /\ n - j < BLOCK_WINDOW - 1 /\ t[j] = s[j]
          BY <1>1, <3>1, <3>3, HashAssumption
      <4>2. h \in Window(s, n)
          BY <3>1, <4>1 DEF Window
      <4>3. h <= Max(Window(s, n)) /\ Max(Window(s, n)) \in 0 .. MaxHash
          BY <1>1, <4>2, WindowType, MaxOfHashes
      <4>4. Max(Window(s, n)) <= Eased(Max(Window(s, n)))
          BY <4>3, EasedIs
      <4>5. old = Eased(Max(Window(s, n)))
          BY <2>4 DEF calculate_hash_target
      <4>. QED
          BY <1>2, <2>1, <4>3, <4>4, <4>5
    <3>. QED
        BY <3>2, <3>3
  <2>. QED
      BY <2>1, <2>2, <2>3, <2>4
<1>4. top \in Window(t, n + 1)
    BY <1>1, WindowType, MaxOfHashes
<1>5. top <= old /\ top \in 0 .. MaxHash
    BY <1>3, <1>4
<1>6. calculate_hash_target(t, n + 1) = Eased(top)
    BY <1>1 DEF calculate_hash_target
<1>7. Eased(top) * Grain <= top * (Grain + 1)
    BY <1>5, EasedIs
<1>8. Eased(top) \in 0 .. MaxHash
    BY <1>5, EasedIs
<1>. HIDE DEF top, old, t, n
<1>9. top * (Grain + 1) <= old * (Grain + 1)
    BY <1>2, <1>5, HashAssumption
<1>10. Eased(top) * Grain <= old * (Grain + 1)
    BY <1>2, <1>5, <1>7, <1>8, <1>9, HashAssumption
<1>. QED
    BY <1>6, <1>10 DEF top, old, t, n

(* How it moves with another block for the last, with a lower hash.        *)
LEMMA SiblingIsHarder ==
    ASSUME NEW s \in Seq(Block), s # << >>, NEW b \in Block,
           b.prev_block = Last(s).prev_block, b.hash < Last(s).hash
    PROVE  /\ Len(Append(Front(s), b)) = Len(s) /\ Append(Front(s), b) \in Seq(Block)
           /\ calculate_hash_target(Append(Front(s), b), Len(s))
                  <= calculate_hash_target(s, Len(s))
<1>. DEFINE n == Len(s)
            t == Append(Front(s), b)
<1>1. n \in Nat \ {0} /\ n \in 1 .. n
    OBVIOUS
<1>2. /\ Front(s) \in Seq(Block) /\ Len(Front(s)) = n - 1
      /\ \A i \in 1 .. n - 1 : Front(s)[i] = s[i]
    BY FrontType
<1>3. t \in Seq(Block) /\ Len(t) = (n - 1) + 1 /\ t[(n - 1) + 1] = b
      /\ \A i \in 1 .. n - 1 : t[i] = s[i]
    BY <1>1, <1>2
<1>4. Len(t) = n /\ t[n] = b
    BY <1>1, <1>3
<1>. HIDE DEF t
<1>5. \A i \in 1 .. n : t[i].prev_block = s[i].prev_block
  <2>1. t[n].prev_block = s[n].prev_block
      BY <1>4 DEF Last
  <2>. QED
      BY <1>1, <1>3, <2>1
<1>6. ASSUME NEW h \in Window(t, n) PROVE \E k \in Window(s, n) : h <= k
  <2>1. h \in 0 .. MaxHash /\ s[n].hash \in Window(s, n)
      BY <1>1, <1>3, <1>4, WindowType
  <2>2. CASE h = t[n].hash
    <3>1. h < s[n].hash /\ s[n].hash \in 0 .. MaxHash
        BY <1>1, <1>4, <2>1, <2>2, WindowType DEF Last
    <3>. QED
        BY <2>1, <3>1
  <2>3. CASE h # t[n].hash
    <3>1. PICK j \in {i \in 2 .. n : n - i < BLOCK_WINDOW - 1} : h = t[j].prev_block
        BY <2>3 DEF Window
    <3>2. h \in Window(s, n)
        BY <1>5, <3>1 DEF Window
    <3>. QED
        BY <2>1, <3>2
  <2>. QED
      BY <2>2, <2>3
<1>7. /\ Window(t, n) \in SUBSET (0 .. MaxHash) /\ Window(t, n) # {}
      /\ Window(s, n) \in SUBSET (0 .. MaxHash) /\ Window(s, n) # {}
    BY <1>1, <1>3, <1>4, WindowType
<1>8. Max(Window(t, n)) <= Max(Window(s, n))
    BY <1>6, <1>7, MaxOrder
<1>9. Max(Window(t, n)) \in 0 .. MaxHash /\ Max(Window(s, n)) \in 0 .. MaxHash
    BY <1>7, MaxOfHashes
<1>10. Eased(Max(Window(t, n))) <= Eased(Max(Window(s, n)))
    BY <1>8, <1>9, EasedOrder
<1>11. calculate_hash_target(t, n) <= calculate_hash_target(s, n)
    BY <1>10, HashAssumption DEF calculate_hash_target
<1>. QED
    BY <1>3, <1>4, <1>11 DEF t

(* A lower hash in the head's place never makes the next block easier.     *)
THEOREM ReplacedIsNeverEasier == ChainSpec => ReplacedIsHarder
<1>1. ChainInv /\ [ChainNext]_chainVars
          => [bc # << >> /\ Len(bc') = Len(bc) => Target' <= Target]_chainVars
  <2>. SUFFICES ASSUME ChainInv, ChainNext, bc # << >>, Len(bc') = Len(bc)
                PROVE  Target' <= Target
      OBVIOUS
  <2>1. bc \in Seq(Block) /\ Len(bc) \in 1 .. Len(bc)
      BY DEF ChainInv
  <2>2. CASE Tick
    <3>1. Target' = Target
        BY <2>2 DEF Tick, Target
    <3>2. Target \in 0 .. MaxHash
        BY <2>1, TargetIs DEF Target
    <3>. QED
        BY <3>1, <3>2
  <2>3. ASSUME NEW b \in Block, Genesis(b) PROVE FALSE
      BY <2>3 DEF Genesis
  <2>4. ASSUME NEW b \in Block, AppendBlock(b) PROVE FALSE
      BY <2>1, <2>4 DEF AppendBlock
  <2>5. ASSUME NEW b \in Block, ReplaceBlock(b) PROVE Target' <= Target
    <3>1. /\ bc' = Append(Front(bc), b) /\ b.prev_block = Last(bc).prev_block
          /\ b.hash < Last(bc).hash
        BY <2>5 DEF ReplaceBlock, Sibling
    <3>2. calculate_hash_target(bc', Len(bc)) <= calculate_hash_target(bc, Len(bc))
        BY <2>1, <3>1, SiblingIsHarder
    <3>. QED
        BY <3>2 DEF Target
  <2>. QED
      BY <2>2, <2>3, <2>4, <2>5 DEF ChainNext
<1>. QED
    BY <1>1, ChainInvariant, PTL DEF ChainSpec, ReplacedIsHarder

(* Among nodes whose blocks meet the target, it eases by one grain a block *)
(* at most, as the comment on it has it (there a hundredth).               *)
THEOREM TargetEasesSlowly ==
    ASSUME Mined
    PROVE  ChainSpec => TargetEases
<1>1. ChainInv /\ [ChainNext]_chainVars
          => [bc # << >> => Target' * Grain <= Target * (Grain + 1)]_chainVars
  <2>. SUFFICES ASSUME ChainInv, ChainNext, bc # << >>
                PROVE  Target' * Grain <= Target * (Grain + 1)
      OBVIOUS
  <2>1. bc \in Seq(Block) /\ Len(bc) \in 1 .. Len(bc) /\ validate(bc)
      BY DEF ChainInv
  <2>2. Target \in 0 .. MaxHash
      BY <2>1, TargetIs DEF Target
  <2>3. ASSUME Target' <= Target, Target' \in 0 .. MaxHash
        PROVE  Target' * Grain <= Target * (Grain + 1)
    <3>1. PICK x \in 0 .. MaxHash, y \in 0 .. MaxHash : x = Target' /\ y = Target
        BY <2>2, <2>3
    <3>2. x \in Nat /\ y \in Nat /\ x <= y
        BY <2>3, <3>1, HashAssumption
    <3>3. x * Grain <= y * (Grain + 1)
        BY <3>2, TimesOrder
    <3>. QED
        BY <3>1, <3>3
  <2>4. CASE Tick
    <3>1. Target' = Target
        BY <2>4 DEF Tick, Target
    <3>. QED
        BY <2>2, <2>3, <3>1
  <2>5. ASSUME NEW b \in Block, Genesis(b) PROVE FALSE
      BY <2>5 DEF Genesis
  <2>6. ASSUME NEW b \in Block, AppendBlock(b)
        PROVE  Target' * Grain <= Target * (Grain + 1)
    <3>1. /\ bc' = Append(bc, b) /\ b.prev_block = Last(bc).hash
          /\ generate(b.hash, bc)
        BY <2>6 DEF AppendBlock, Offered
    <3>2. Len(bc') = Len(bc) + 1
        BY <2>1, <3>1
    <3>. QED
        BY <2>1, <3>1, <3>2, AppendEases DEF Target
  <2>7. ASSUME NEW b \in Block, ReplaceBlock(b)
        PROVE  Target' * Grain <= Target * (Grain + 1)
    <3>1. /\ bc' = Append(Front(bc), b) /\ b.prev_block = Last(bc).prev_block
          /\ b.hash < Last(bc).hash
        BY <2>7 DEF ReplaceBlock, Sibling
    <3>2. /\ Len(bc') = Len(bc) /\ bc' \in Seq(Block)
          /\ calculate_hash_target(bc', Len(bc)) <= calculate_hash_target(bc, Len(bc))
        BY <2>1, <3>1, SiblingIsHarder
    <3>3. Target' <= Target /\ Target' \in 0 .. MaxHash
        BY <2>1, <3>2, TargetIs DEF Target
    <3>. QED
        BY <2>3, <3>3
  <2>. QED
      BY <2>4, <2>5, <2>6, <2>7 DEF ChainNext
<1>. QED
    BY <1>1, ChainInvariant, PTL DEF ChainSpec, TargetEases

-----------------------------------------------------------------------------
(* The chains of several nodes, and the messages between them.             *)

(* What is on a wire: a report is of a block that was generated, or says   *)
(* that there is none, and no block with a predecessor has the index 0.    *)
Reported(pr, msg) ==
    msg.id = "report_full_block" =>
        /\ msg.blk \in DOMAIN pr \cup {NoBlock}
        /\ msg.index = 0 => msg.blk # NoBlock /\ pr[msg.blk] = NoBlock

AllReported(pr, s) == \A k \in 1 .. Len(s) : Reported(pr, s[k])

WireInv == \A e \in Node \X Node : AllReported(prev, wire[e])

(* The numbers of blocks are at most as many as there are blocks, so that  *)
(* the next one is new.                                                    *)
PrevInv ==
    /\ IsFiniteSet(DOMAIN prev)
    /\ \A x \in DOMAIN prev :
         -Cardinality(DOMAIN prev) <= x /\ x <= Cardinality(DOMAIN prev)

(* A chain begins with a block without predecessor, and each other block's *)
(* predecessor is the one before it.                                       *)
Linked(pr, s) ==
    \A i \in 1 .. Len(s) : pr[s[i]] = IF i = 1 THEN NoBlock ELSE s[i - 1]

LinkedInv == \A n \in Node : Linked(prev, chain[n])

(* A write fails only on a connection that is lost.                        *)
FailInv == \A n \in Node : \A m \in failing[n] : Lost(n, m)

SyncInv ==
    /\ SyncTypeOK /\ WireInv /\ PrevInv /\ LinkedInv /\ FailInv /\ DiesOfLoss

(* Blocks are added, and those there are keep their predecessors.          *)
Grows ==
    /\ DOMAIN prev \subseteq DOMAIN prev' /\ DOMAIN prev' \subseteq BlockHash
    /\ \A x \in DOMAIN prev : prev'[x] = prev[x]
    /\ PrevInv'

ChainsOK == chain' \in [Node -> Seq(DOMAIN prev')] /\ LinkedInv'

WiresOK == wire' \in [Node \X Node -> Seq(Message)] /\ WireInv'

FailsOK == failing' \in [Node -> SUBSET Node] /\ FailInv'

(* A hash is a number that is not that of no block.                        *)
LEMMA HashFacts == BlockHash \subseteq Int /\ NoBlock \notin BlockHash
<1>1. MaxBlock + Cardinality(Node) \in Nat
    BY LinkAssumption, FS_CardinalityType
<1>. QED
    BY <1>1 DEF BlockHash, NoBlock

(* While nothing is generated, the blocks are the same.                    *)
LEMMA SameBlocks ==
    ASSUME SyncInv, UNCHANGED prev
    PROVE  Grows
BY DEF SyncInv, SyncTypeOK, Grows, PrevInv

(* A block that is generated is a new one, with the predecessor it has.    *)
LEMMA NewBlockIs ==
    ASSUME SyncInv, NEW h \in BlockHash, NEW p, NewBlock(h, p)
    PROVE  Grows /\ h \in DOMAIN prev' /\ prev'[h] = p
<1>. DEFINE D == DOMAIN prev
            c == Cardinality(D)
<1>1. /\ IsFiniteSet(D) /\ c \in Nat /\ D \subseteq BlockHash
      /\ \A x \in D : -c <= x /\ x <= c
    BY FS_CardinalityType DEF SyncInv, SyncTypeOK, PrevInv
<1>2. h = c + 1 \/ h = -(c + 1)
    BY DEF NewBlock
<1>3. h \notin D
  <2>1. \A x \in Int : -c <= x /\ x <= c => x # c + 1 /\ x # -(c + 1)
    <3>. HIDE DEF c
    <3>. QED
        BY <1>1
  <2>2. \A x \in D : x \in Int
      BY <1>1, HashFacts
  <2>. QED
      BY <1>1, <1>2, <2>1, <2>2
<1>4. prev' = [x \in D \cup {h} |-> IF x = h THEN p ELSE prev[x]]
    BY DEF NewBlock
<1>5. DOMAIN prev' = D \cup {h} /\ prev'[h] = p /\ \A x \in D : prev'[x] = prev[x]
    BY <1>3, <1>4
<1>6. IsFiniteSet(D \cup {h}) /\ Cardinality(D \cup {h}) = c + 1
    BY <1>1, <1>3, FS_AddElement
<1>7. \A x \in D \cup {h} : -(c + 1) <= x /\ x <= c + 1
  <2>1. \A x \in Int : (-c <= x /\ x <= c) \/ x = c + 1 \/ x = -(c + 1)
                         => -(c + 1) <= x /\ x <= c + 1
    <3>. HIDE DEF c
    <3>. QED
        BY <1>1
  <2>2. \A x \in D \cup {h} : x \in Int
      BY <1>1, HashFacts
  <2>. QED
      BY <1>1, <1>2, <2>1, <2>2
<1>8. PrevInv'
    BY <1>5, <1>6, <1>7 DEF PrevInv
<1>. QED
    BY <1>1, <1>5, <1>8 DEF Grows

(* A chain of linked blocks stays one when blocks are added.               *)
LEMMA LinkedGrows ==
    ASSUME Grows, NEW s \in Seq(DOMAIN prev), Linked(prev, s)
    PROVE  s \in Seq(DOMAIN prev') /\ Linked(prev', s)
<1>1. \A i \in 1 .. Len(s) : s[i] \in DOMAIN prev
    OBVIOUS
<1>. QED
    BY <1>1 DEF Grows, Linked

(* What is reported of a block stays true when blocks are added.           *)
LEMMA ReportedGrows ==
    ASSUME Grows, NEW msg, Reported(prev, msg)
    PROVE  Reported(prev', msg)
BY DEF Grows, Reported

(* So does what is on the wire.                                            *)
LEMMA WiresStay ==
    ASSUME SyncInv, Grows, UNCHANGED wire
    PROVE  WiresOK
BY ReportedGrows DEF SyncInv, SyncTypeOK, WireInv, AllReported, WiresOK

(* And every chain.                                                        *)
LEMMA ChainsStay ==
    ASSUME SyncInv, Grows, UNCHANGED chain
    PROVE  ChainsOK
<1>1. \A n \in Node : chain[n] \in Seq(DOMAIN prev) /\ Linked(prev, chain[n])
    BY DEF SyncInv, SyncTypeOK, LinkedInv
<1>2. \A n \in Node : chain[n] \in Seq(DOMAIN prev') /\ Linked(prev', chain[n])
    BY <1>1, LinkedGrows
<1>3. chain' = chain /\ chain = [n \in Node |-> chain[n]]
    BY DEF SyncInv, SyncTypeOK
<1>. QED
    BY <1>2, <1>3 DEF ChainsOK, LinkedInv

(* One node's chain becomes another one that is linked.                    *)
LEMMA ChainSet ==
    ASSUME SyncInv, Grows, NEW n \in Node, NEW s \in Seq(DOMAIN prev'),
           Linked(prev', s), chain' = [chain EXCEPT ![n] = s]
    PROVE  ChainsOK /\ chain'[n] = s
<1>1. \A m \in Node : chain[m] \in Seq(DOMAIN prev) /\ Linked(prev, chain[m])
    BY DEF SyncInv, SyncTypeOK, LinkedInv
<1>2. \A m \in Node : chain[m] \in Seq(DOMAIN prev') /\ Linked(prev', chain[m])
    BY <1>1, LinkedGrows
<1>3. chain' = [m \in Node |-> IF m = n THEN s ELSE chain[m]]
    BY DEF SyncInv, SyncTypeOK
<1>4. \A m \in Node : chain'[m] \in Seq(DOMAIN prev') /\ Linked(prev', chain'[m])
    BY <1>2, <1>3
<1>. QED
    BY <1>3, <1>4 DEF ChainsOK, LinkedInv

(* A first block without predecessor is a chain.                           *)
LEMMA FirstLinked ==
    ASSUME NEW pr, NEW h \in DOMAIN pr, pr[h] = NoBlock
    PROVE  <<h>> \in Seq(DOMAIN pr) /\ Linked(pr, <<h>>)
BY DEF Linked

(* A block whose predecessor is the last one extends the chain.            *)
LEMMA AppendLinked ==
    ASSUME NEW pr, NEW s \in Seq(DOMAIN pr), s # << >>, Linked(pr, s),
           NEW h \in DOMAIN pr, pr[h] = Last(s)
    PROVE  /\ Append(s, h) \in Seq(DOMAIN pr) /\ Linked(pr, Append(s, h))
           /\ Append(s, h)[Len(s) + 1] = h /\ Len(Append(s, h)) = Len(s) + 1
<1>. DEFINE t == Append(s, h)
<1>1. /\ t \in Seq(DOMAIN pr) /\ Len(t) = Len(s) + 1 /\ t[Len(s) + 1] = h
      /\ \A i \in 1 .. Len(s) : t[i] = s[i]
    OBVIOUS
<1>2. Len(s) \in Nat /\ Len(s) > 0 /\ Last(s) = s[Len(s)]
    BY DEF Last
<1>. HIDE DEF t
<1>3. ASSUME NEW i \in 1 .. Len(s) + 1
      PROVE  pr[t[i]] = IF i = 1 THEN NoBlock ELSE t[i - 1]
  <2>1. CASE i = Len(s) + 1
    <3>1. i # 1 /\ i - 1 = Len(s) /\ Len(s) \in 1 .. Len(s)
        BY <1>2, <2>1
    <3>. QED
        BY <1>1, <1>2, <2>1, <3>1
  <2>2. CASE i \in 1 .. Len(s)
    <3>1. i # 1 => i - 1 \in 1 .. Len(s)
        BY <1>2, <2>2
    <3>. QED
        BY <1>1, <2>2, <3>1 DEF Linked
  <2>. QED
      BY <1>2, <2>1, <2>2
<1>. QED
    BY <1>1, <1>3 DEF Linked, t

(* A chain without its last block.                                         *)
LEMMA FrontIs ==
    ASSUME NEW S, NEW s \in Seq(S), s # << >>
    PROVE  /\ Front(s) \in Seq(S) /\ Len(Front(s)) = Len(s) - 1
           /\ \A i \in 1 .. Len(s) - 1 : Front(s)[i] = s[i]
<1>1. Len(s) \in Nat /\ Len(s) > 0
    OBVIOUS
<1>2. PICK n \in Nat : n = Len(s) - 1
    BY <1>1
<1>3. Front(s) = SubSeq(s, 1, n)
    BY <1>2 DEF Front
<1>4. /\ SubSeq(s, 1, n) \in Seq(S) /\ Len(SubSeq(s, 1, n)) = n
      /\ \A i \in 1 .. n : SubSeq(s, 1, n)[i] = s[i]
    BY <1>1, <1>2, SubSeqProperties
<1>. QED
    BY <1>2, <1>3, <1>4

(* A sibling takes the last block's place.                                 *)
LEMMA SiblingLinked ==
    ASSUME NEW pr, NEW s \in Seq(DOMAIN pr), s # << >>, Linked(pr, s),
           NEW h \in DOMAIN pr, pr[h] = pr[Last(s)]
    PROVE  /\ Append(Front(s), h) \in Seq(DOMAIN pr)
           /\ Linked(pr, Append(Front(s), h))
           /\ Append(Front(s), h)[Len(s)] = h /\ Len(Append(Front(s), h)) = Len(s)
<1>. DEFINE t == Append(Front(s), h)
<1>1. Len(s) \in Nat /\ Len(s) > 0 /\ Last(s) = s[Len(s)] /\ Len(s) \in 1 .. Len(s)
    BY DEF Last
<1>2. /\ t \in Seq(DOMAIN pr) /\ Len(t) = Len(s) /\ t[Len(s)] = h
      /\ \A i \in 1 .. Len(s) - 1 : t[i] = s[i]
  <2>1. PICK f \in Seq(DOMAIN pr) :
            f = Front(s) /\ Len(f) = Len(s) - 1 /\ \A i \in 1 .. Len(s) - 1 : f[i] = s[i]
      BY FrontIs
  <2>. QED
      BY <1>1, <2>1
<1>. HIDE DEF t
<1>3. ASSUME NEW i \in 1 .. Len(s)
      PROVE  pr[t[i]] = IF i = 1 THEN NoBlock ELSE t[i - 1]
  <2>1. i # 1 => i - 1 \in 1 .. Len(s) - 1
      BY <1>1
  <2>2. pr[t[i]] = pr[s[i]]
    <3>1. CASE i = Len(s)
        BY <1>1, <1>2, <3>1
    <3>2. CASE i \in 1 .. Len(s) - 1
        BY <1>2, <3>2
    <3>. QED
        BY <1>1, <3>1, <3>2
  <2>. QED
      BY <1>2, <2>1, <2>2 DEF Linked
<1>. QED
    BY <1>2, <1>3 DEF Linked, t

(* create_gen_block makes a chain of one block for a node that has none.   *)
LEMMA EnsureGenesisIs ==
    ASSUME SyncInv, NEW n \in Node, NEW h \in BlockHash, EnsureGenesis(n, h)
    PROVE  Grows /\ ChainsOK
<1>1. CASE chain[n] # << >>
  <2>1. UNCHANGED <<prev, chain>>
      BY <1>1 DEF EnsureGenesis
  <2>. QED
      BY <2>1, SameBlocks, ChainsStay
<1>2. CASE chain[n] = << >>
  <2>1. NewBlock(h, NoBlock) /\ chain' = [chain EXCEPT ![n] = <<h>>]
      BY <1>2 DEF EnsureGenesis
  <2>2. Grows /\ h \in DOMAIN prev' /\ prev'[h] = NoBlock
      BY <2>1, NewBlockIs
  <2>3. <<h>> \in Seq(DOMAIN prev') /\ Linked(prev', <<h>>)
      BY <2>2, FirstLinked
  <2>. QED
      BY <2>1, <2>2, <2>3, ChainSet
<1>. QED
    BY <1>1, <1>2

(* A message that may be sent.                                             *)
Sendable(pr, s) == s \in Seq(Message) /\ AllReported(pr, s)

(* A request says nothing of a block.                                      *)
LEMMA Requests ==
    ASSUME NEW pr, NEW i \in Nat
    PROVE  Sendable(pr, << >>) /\ Sendable(pr, <<GetFullBlock(i)>>)
BY DEF Sendable, AllReported, Reported, Message, GetFullBlock

(* Nor does a transaction.                                                 *)
LEMMA TransactionReport ==
    ASSUME NEW pr, NEW t \in Trx
    PROVE  Sendable(pr, <<ReportTransaction(t)>>)
BY DEF Sendable, AllReported, Reported, Message, ReportTransaction

(* A block of a chain is reported with its index.                          *)
LEMMA BlockReport ==
    ASSUME NEW pr, DOMAIN pr \subseteq BlockHash, NEW s \in Seq(DOMAIN pr),
           Linked(pr, s), NEW i \in Nat, i < Len(s), NEW j \in Nat
    PROVE  Sendable(pr, <<ReportFullBlock(s[i + 1], i, j)>>)
<1>. DEFINE msg == ReportFullBlock(s[i + 1], i, j)
<1>1. i + 1 \in 1 .. Len(s)
    OBVIOUS
<1>2. s[i + 1] \in DOMAIN pr
    BY <1>1
<1>3. i = 0 => pr[s[i + 1]] = NoBlock
    BY <1>1 DEF Linked
<1>4. s[i + 1] # NoBlock
    BY <1>2, HashFacts
<1>5. msg \in Message
    BY <1>2 DEF Message, ReportFullBlock
<1>6. msg.blk = s[i + 1] /\ msg.index = i
    BY DEF ReportFullBlock
<1>7. Reported(pr, msg)
    BY <1>2, <1>3, <1>4, <1>6 DEF Reported
<1>8. Sendable(pr, <<msg>>)
  <2>. HIDE DEF msg
  <2>. QED
      BY <1>5, <1>7 DEF Sendable, AllReported
<1>. QED
    BY <1>8

(* That there is no such block.                                            *)
LEMMA NoReport == ASSUME NEW pr PROVE Sendable(pr, <<ReportFullBlock(NoBlock, -1, -1)>>)
BY DEF Sendable, AllReported, Reported, Message, ReportFullBlock

(* What is added to a queue, or taken from it, leaves what may be sent.    *)
LEMMA QueueMoves ==
    ASSUME NEW pr, NEW s, Sendable(pr, s)
    PROVE  /\ s # << >> => Sendable(pr, Tail(s))
           /\ \A t : Sendable(pr, t) => Sendable(pr, s \o t)
           /\ \A k \in 0 .. Len(s) : Sendable(pr, SubSeq(s, 1, k))
<1>1. s \in Seq(Message) /\ Len(s) \in Nat /\ \A k \in 1 .. Len(s) : Reported(pr, s[k])
    BY DEF Sendable, AllReported
<1>2. ASSUME s # << >> PROVE Sendable(pr, Tail(s))
  <2>1. /\ Tail(s) \in Seq(Message) /\ Len(Tail(s)) = Len(s) - 1
        /\ \A k \in 1 .. Len(s) - 1 : Tail(s)[k] = s[k + 1] /\ k + 1 \in 1 .. Len(s)
      BY <1>1, <1>2
  <2>. QED
      BY <1>1, <2>1 DEF Sendable, AllReported
<1>3. ASSUME NEW t, Sendable(pr, t) PROVE Sendable(pr, s \o t)
  <2>1. t \in Seq(Message) /\ Len(t) \in Nat /\ \A k \in 1 .. Len(t) : Reported(pr, t[k])
      BY <1>3 DEF Sendable, AllReported
  <2>2. /\ s \o t \in Seq(Message) /\ Len(s \o t) = Len(s) + Len(t)
        /\ \A k \in 1 .. Len(s) + Len(t) :
             (s \o t)[k] = IF k <= Len(s) THEN s[k] ELSE t[k - Len(s)]
      BY <1>1, <2>1, ConcatProperties
  <2>3. ASSUME NEW k \in 1 .. Len(s) + Len(t) PROVE Reported(pr, (s \o t)[k])
    <3>1. CASE k <= Len(s)
      <4>1. k \in 1 .. Len(s)
          BY <1>1, <2>1, <3>1
      <4>. QED
          BY <1>1, <2>2, <3>1, <4>1
    <3>2. CASE ~(k <= Len(s))
      <4>1. k - Len(s) \in 1 .. Len(t)
          BY <1>1, <2>1, <3>2
      <4>. QED
          BY <2>1, <2>2, <3>2, <4>1
    <3>. QED
        BY <3>1, <3>2
  <2>. QED
      BY <2>2, <2>3 DEF Sendable, AllReported
<1>4. ASSUME NEW k \in 0 .. Len(s) PROVE Sendable(pr, SubSeq(s, 1, k))
  <2>1. /\ SubSeq(s, 1, k) \in Seq(Message) /\ Len(SubSeq(s, 1, k)) = k
        /\ \A i \in 1 .. k : SubSeq(s, 1, k)[i] = s[i] /\ i \in 1 .. Len(s)
      BY <1>1, SubSeqProperties
  <2>. QED
      BY <1>1, <2>1 DEF Sendable, AllReported
<1>. QED
    BY <1>2, <1>3, <1>4

(* What is on a wire may be sent, though blocks are added.                 *)
LEMMA WiresSendable ==
    ASSUME SyncInv, Grows
    PROVE  \A e \in Node \X Node : Sendable(prev', wire[e])
BY ReportedGrows DEF SyncInv, SyncTypeOK, WireInv, AllReported, Sendable

(* Wires on which all may be sent.                                         *)
LEMMA WiresAre ==
    ASSUME DOMAIN wire' = Node \X Node, wire' = [e \in Node \X Node |-> wire'[e]],
           \A e \in Node \X Node : Sendable(prev', wire'[e])
    PROVE  WiresOK
BY DEF WiresOK, WireInv, Sendable

(* One message more on one wire.                                           *)
LEMMA WireSet ==
    ASSUME SyncInv, Grows, NEW e \in Node \X Node, NEW msg, Sendable(prev', <<msg>>),
           wire' = [wire EXCEPT ![e] = Append(@, msg)]
    PROVE  WiresOK
<1>1. wire \in [Node \X Node -> Seq(Message)]
    BY DEF SyncInv, SyncTypeOK
<1>2. Sendable(prev', wire[e] \o <<msg>>)
    BY WiresSendable, QueueMoves
<1>3. wire[e] \o <<msg>> = Append(wire[e], msg)
  <2>1. wire[e] \in Seq(Message) /\ msg \in Message
      BY <1>1 DEF Sendable
  <2>. QED
      BY <2>1, AppendProperties, ConcatProperties
<1>4. \A d \in Node \X Node : wire'[d] = IF d = e THEN wire[e] \o <<msg>> ELSE wire[d]
    BY <1>1, <1>3
<1>5. \A d \in Node \X Node : Sendable(prev', wire'[d])
    BY <1>2, <1>4, WiresSendable
<1>6. DOMAIN wire' = Node \X Node /\ wire' = [d \in Node \X Node |-> wire'[d]]
    BY <1>1
<1>. QED
    BY <1>5, <1>6, WiresAre

(* A connection that is lost stays lost.                                   *)
LostStays == \A n, m \in Node : Lost(n, m) => Lost(n, m)'

(* A handler takes a message and sends others: a write on a lost           *)
(* connection may fail.                                                    *)
LEMMA SendsIs ==
    ASSUME SyncInv, Grows, UNCHANGED link, NEW n \in Node, NEW m,
           m \in Node => wire[<<m, n>>] # << >>,
           NEW ps \in SUBSET Node, NEW msgs,
           \A p \in ps : Sendable(prev', msgs[p]),
           Sends(n, ps, msgs, m)
    PROVE  WiresOK /\ FailsOK
<1>1. wire \in [Node \X Node -> Seq(Message)] /\ failing \in [Node -> SUBSET Node]
    BY DEF SyncInv, SyncTypeOK
<1>2. WiresOK
  <2>. DEFINE Kept(e) == IF e = <<m, n>> THEN Tail(wire[e]) ELSE wire[e]
              Added(e) == IF e[1] = n /\ e[2] \in ps /\ Up(n, e[2]) THEN msgs[e[2]] ELSE << >>
  <2>1. wire' = [e \in Node \X Node |-> Kept(e) \o Added(e)]
      BY <1>1 DEF Sends
  <2>2. ASSUME NEW e \in Node \X Node PROVE Sendable(prev', Kept(e))
    <3>1. Sendable(prev', wire[e])
        BY WiresSendable
    <3>2. CASE e = <<m, n>>
      <4>1. wire[e] # << >>
          BY <3>2
      <4>. QED
          BY <3>1, <3>2, <4>1, QueueMoves
    <3>3. CASE e # <<m, n>>
        BY <3>1, <3>3
    <3>. QED
        BY <3>2, <3>3
  <2>3. ASSUME NEW e \in Node \X Node PROVE Sendable(prev', Added(e))
    <3>1. Sendable(prev', << >>)
        BY DEF Sendable, AllReported
    <3>. QED
        BY <3>1
  <2>. HIDE DEF Kept, Added
  <2>4. \A e \in Node \X Node : Sendable(prev', Kept(e) \o Added(e))
      BY <2>2, <2>3, QueueMoves
  <2>5. \A e \in Node \X Node : Sendable(prev', wire'[e])
      BY <2>1, <2>4
  <2>6. DOMAIN wire' = Node \X Node /\ wire' = [e \in Node \X Node |-> wire'[e]]
      BY <2>1
  <2>. QED
      BY <2>5, <2>6, WiresAre
<1>3. FailsOK
  <2>1. PICK bad \in SUBSET {p \in ps : Lost(n, p) /\ msgs[p] # << >>} :
            failing' = [failing EXCEPT ![n] = @ \cup bad]
      BY DEF Sends
  <2>2. bad \subseteq Node /\ \A p \in bad : Lost(n, p)
      OBVIOUS
  <2>3. \A k \in Node : failing'[k] = IF k = n THEN failing[n] \cup bad ELSE failing[k]
      BY <1>1, <2>1
  <2>4. failing' \in [Node -> SUBSET Node]
      BY <1>1, <2>1, <2>2
  <2>5. \A k \in Node : \A p \in failing'[k] : Lost(k, p)
      BY <2>2, <2>3 DEF SyncInv, FailInv
  <2>6. \A k, p : Lost(k, p)' <=> Lost(k, p)
      BY DEF Lost
  <2>. QED
      BY <2>4, <2>5, <2>6 DEF FailsOK, FailInv
<1>. QED
    BY <1>2, <1>3

(* An answer goes to the connection whose message is taken.                *)
LEMMA AnswersIs ==
    ASSUME SyncInv, Grows, UNCHANGED link, NEW n \in Node, NEW m \in Node,
           wire[<<m, n>>] # << >>, NEW answer, Sendable(prev', answer),
           Answers(n, m, answer)
    PROVE  WiresOK /\ FailsOK
<1>1. \A p \in {m} : Sendable(prev', [q \in {m} |-> answer][p])
    OBVIOUS
<1>2. {m} \in SUBSET Node
    OBVIOUS
<1>3. Sends(n, {m}, [q \in {m} |-> answer], m)
    BY DEF Answers
<1>. HIDE DEF Answers
<1>. QED
    BY <1>1, <1>2, <1>3, SendsIs

(* News goes to every connection but that one.                             *)
LEMMA EmitsIs ==
    ASSUME SyncInv, Grows, UNCHANGED link, NEW n \in Node, NEW m,
           m \in Node => wire[<<m, n>>] # << >>,
           NEW msg, Sendable(prev', <<msg>>), NEW answer, Sendable(prev', answer),
           Emits(n, msg, m, answer)
    PROVE  WiresOK /\ FailsOK
<1>. DEFINE msgs == [p \in Node |-> IF p = m THEN answer
                                    ELSE IF p \in signals[n] THEN <<msg>>
                                    ELSE << >>]
<1>1. Sendable(prev', << >>)
    BY DEF Sendable, AllReported
<1>2. \A p \in Node : Sendable(prev', msgs[p])
    BY <1>1
<1>3. Sends(n, Node, msgs, m)
    BY DEF Emits
<1>. HIDE DEF msgs
<1>. QED
    BY <1>2, <1>3, SendsIs

(* After a handler's step: its connections are what they were.             *)
LEMMA HandlerDone ==
    ASSUME SyncInv, UNCHANGED <<cons, dead>>, known' \in [Node -> SUBSET Trx],
           Grows, ChainsOK, WiresOK, FailsOK
    PROVE  SyncInv'
<1>1. SyncTypeOK'
    BY DEF SyncInv, SyncTypeOK, cons, Grows, ChainsOK, WiresOK, FailsOK
<1>2. DiesOfLoss'
    BY DEF SyncInv, DiesOfLoss, cons, Lost
<1>. QED
    BY <1>1, <1>2 DEF SyncInv, Grows, ChainsOK, WiresOK, FailsOK

(* After a connection's step: the chains are what they were.               *)
LEMMA ConnDone ==
    ASSUME SyncInv, UNCHANGED data, WiresOK, LostStays,
           link' \in [Links -> {"none", "up", "lost"}],
           listed' \in [Node -> SUBSET Node], signals' \in [Node -> SUBSET Node],
           reading' \in [Node -> SUBSET Node],
           \A n \in Node : reading'[n] \subseteq signals'[n],
           failing' \in [Node -> SUBSET Node],
           \A n \in Node : failing'[n] \subseteq failing[n],
           dead' \subseteq Node, \A n \in dead' : n \in dead \/ \E m \in Node : Lost(n, m)
    PROVE  SyncInv'
<1>1. UNCHANGED <<prev, chain, known>>
    BY DEF data
<1>2. SyncTypeOK'
    BY <1>1 DEF SyncInv, SyncTypeOK, WiresOK
<1>3. FailInv'
  <2>1. ASSUME NEW n \in Node, NEW m \in failing'[n] PROVE Lost(n, m)'
    <3>1. m \in failing[n] /\ m \in Node
        OBVIOUS
    <3>2. Lost(n, m)
        BY <3>1 DEF SyncInv, FailInv
    <3>. QED
        BY <3>1, <3>2 DEF LostStays
  <2>. QED
      BY <2>1 DEF FailInv
<1>4. DiesOfLoss'
  <2>1. ASSUME NEW n \in dead' PROVE \E m \in Node : Lost(n, m)'
    <3>1. PICK m \in Node : Lost(n, m)
        BY DEF SyncInv, DiesOfLoss
    <3>2. n \in Node
        OBVIOUS
    <3>. QED
        BY <3>1, <3>2 DEF LostStays
  <2>. QED
      BY <2>1 DEF DiesOfLoss
<1>5. PrevInv' /\ LinkedInv' /\ WireInv'
    BY <1>1 DEF SyncInv, PrevInv, LinkedInv, WiresOK
<1>. QED
    BY <1>2, <1>3, <1>4, <1>5 DEF SyncInv

(* No link that is lost comes up again.                                    *)
LEMMA LostForGood ==
    ASSUME \A e \in Links : link[e] = "lost" => link'[e] = "lost"
    PROVE  LostStays
BY DEF LostStays, Lost

-----------------------------------------------------------------------------
(* Turning generation on gives an empty node its first block.              *)
LEMMA GenerationKeeps ==
    ASSUME SyncInv, NEW n \in Node, NEW h \in BlockHash, ConfigureGeneration(n, h)
    PROVE  SyncInv'
<1>1. EnsureGenesis(n, h) /\ UNCHANGED <<known, wire, cons, failing, dead>>
    BY DEF ConfigureGeneration
<1>2. Grows /\ ChainsOK
    BY <1>1, EnsureGenesisIs
<1>3. WiresOK
    BY <1>1, <1>2, WiresStay
<1>4. FailsOK
    BY <1>1 DEF SyncInv, SyncTypeOK, FailInv, FailsOK, Lost, cons
<1>5. known' \in [Node -> SUBSET Trx]
    BY <1>1 DEF SyncInv, SyncTypeOK
<1>. QED
    BY <1>1, <1>2, <1>3, <1>4, <1>5, HandlerDone

(* A block that a node finds follows its chain, and everybody is told.     *)
LEMMA FoundKeeps ==
    ASSUME SyncInv, NEW n \in Node, NEW h \in BlockHash, Found(n, h)
    PROVE  SyncInv'
<1>. DEFINE s == chain[n]
            t == Append(s, h)
            msg == ReportFullBlock(h, HeadIndex(n) + 1, HeadIndex(n) + 1)
<1>1. /\ s # << >> /\ NewBlock(h, Last(s)) /\ chain' = [chain EXCEPT ![n] = t]
      /\ Emits(n, msg, Nobody, << >>) /\ UNCHANGED <<known, cons, dead>>
    BY DEF Found, SyncInv, SyncTypeOK
<1>2. Grows /\ h \in DOMAIN prev' /\ prev'[h] = Last(s)
    BY <1>1, NewBlockIs
<1>3. s \in Seq(DOMAIN prev') /\ Linked(prev', s)
  <2>1. s \in Seq(DOMAIN prev) /\ Linked(prev, s)
      BY DEF SyncInv, SyncTypeOK, LinkedInv
  <2>. QED
      BY <1>2, <2>1, LinkedGrows
<1>4. /\ t \in Seq(DOMAIN prev') /\ Linked(prev', t)
      /\ t[Len(s) + 1] = h /\ Len(t) = Len(s) + 1
    BY <1>1, <1>2, <1>3, AppendLinked
<1>5. Len(s) \in Nat /\ HeadIndex(n) + 1 = Len(s)
    BY <1>3 DEF HeadIndex
<1>6. ChainsOK
    BY <1>1, <1>2, <1>4, ChainSet
<1>7. Sendable(prev', <<msg>>)
  <2>1. DOMAIN prev' \subseteq BlockHash
      BY <1>2 DEF Grows
  <2>2. Sendable(prev', <<ReportFullBlock(t[Len(s) + 1], Len(s), Len(s))>>)
    <3>1. Len(s) < Len(t)
        BY <1>4, <1>5
    <3>. HIDE DEF s, t
    <3>. QED
        BY <2>1, <3>1, <1>4, <1>5, BlockReport
  <2>. QED
      BY <1>4, <1>5, <2>2
<1>8. Sendable(prev', << >>)
    BY Requests
<1>9. UNCHANGED link /\ Nobody \notin Node
    BY <1>1, LinkAssumption DEF cons
<1>10. WiresOK /\ FailsOK
  <2>. HIDE DEF msg
  <2>. QED
      BY <1>1, <1>2, <1>7, <1>8, <1>9, EmitsIs
<1>11. known' \in [Node -> SUBSET Trx]
    BY <1>1 DEF SyncInv, SyncTypeOK
<1>. QED
    BY <1>1, <1>2, <1>6, <1>10, <1>11, HandlerDone

(* A new transaction is passed on, and may give the node a first block.    *)
LEMMA TransactionKeeps ==
    ASSUME SyncInv, NEW n \in Node, NEW t \in Trx, NEW m, NEW h \in BlockHash,
           m \in Node => wire[<<m, n>>] # << >>, AddTransaction(n, t, m, h)
    PROVE  SyncInv'
<1>1. /\ known' = [known EXCEPT ![n] = @ \cup {t}]
      /\ Emits(n, ReportTransaction(t), m, << >>)
      /\ EnsureGenesis(n, h) /\ UNCHANGED <<cons, dead>>
    BY DEF AddTransaction
<1>2. Grows /\ ChainsOK
    BY <1>1, EnsureGenesisIs
<1>3. Sendable(prev', <<ReportTransaction(t)>>) /\ Sendable(prev', << >>)
    BY Requests, TransactionReport
<1>4. UNCHANGED link
    BY <1>1 DEF cons
<1>5. WiresOK /\ FailsOK
    BY <1>1, <1>2, <1>3, <1>4, EmitsIs
<1>6. known' \in [Node -> SUBSET Trx]
    BY <1>1 DEF SyncInv, SyncTypeOK
<1>. QED
    BY <1>1, <1>2, <1>5, <1>6, HandlerDone

(* The end that connects asks for its next block.                          *)
LEMMA ConnectKeeps ==
    ASSUME SyncInv, NEW n \in Node, NEW m \in Node, Connect(n, m)
    PROVE  SyncInv'
<1>. DEFINE e == <<n, m>>
            msg == GetFullBlock(HeadIndex(n) + 1)
<1>1. /\ e \in Links /\ link[e] = "none" /\ link' = [link EXCEPT ![e] = "up"]
      /\ listed' = [listed EXCEPT ![n] = @ \cup {m}]
      /\ signals' = [signals EXCEPT ![n] = @ \cup {m}]
      /\ reading' = [reading EXCEPT ![n] = @ \cup {m}]
      /\ wire' = [wire EXCEPT ![e] = Append(@, msg)]
      /\ UNCHANGED <<data, failing, dead>>
    BY DEF Connect
<1>2. Grows
    BY <1>1, SameBlocks DEF data
<1>3. Sendable(prev', <<msg>>)
  <2>1. HeadIndex(n) + 1 \in Nat
      BY DEF HeadIndex, SyncInv, SyncTypeOK
  <2>. QED
      BY <2>1, Requests
<1>4. e \in Node \X Node
    OBVIOUS
<1>5. WiresOK
  <2>. HIDE DEF msg, e
  <2>. QED
      BY <1>1, <1>2, <1>3, <1>4, WireSet
<1>6. link' \in [Links -> {"none", "up", "lost"}]
      /\ \A d \in Links : link[d] = "lost" => link'[d] = "lost"
    BY <1>1 DEF SyncInv, SyncTypeOK
<1>7. LostStays
    BY <1>6, LostForGood
<1>8. /\ listed' \in [Node -> SUBSET Node] /\ signals' \in [Node -> SUBSET Node]
      /\ reading' \in [Node -> SUBSET Node] /\ failing' \in [Node -> SUBSET Node]
      /\ \A k \in Node : reading'[k] \subseteq signals'[k]
      /\ dead' \subseteq Node
    BY <1>1 DEF SyncInv, SyncTypeOK
<1>9. /\ \A k \in Node : failing'[k] \subseteq failing[k]
      /\ \A k \in dead' : k \in dead
    BY <1>1
<1>. QED
    BY <1>1, <1>5, <1>6, <1>7, <1>8, <1>9, ConnDone

(* So does the end that accepts.                                           *)
LEMMA AcceptKeeps ==
    ASSUME SyncInv, NEW n \in Node, NEW m \in Node, Accept(m, n)
    PROVE  SyncInv'
<1>. DEFINE e == <<m, n>>
            msg == GetFullBlock(HeadIndex(m) + 1)
<1>1. /\ listed' = [listed EXCEPT ![m] = @ \cup {n}]
      /\ wire' = [wire EXCEPT ![e] = Append(@, msg)]
      /\ UNCHANGED <<data, link, signals, reading, failing, dead>>
    BY DEF Accept
<1>2. Grows
    BY <1>1, SameBlocks DEF data
<1>3. Sendable(prev', <<msg>>)
  <2>1. HeadIndex(m) + 1 \in Nat
      BY DEF HeadIndex, SyncInv, SyncTypeOK
  <2>. QED
      BY <2>1, Requests
<1>4. e \in Node \X Node
    OBVIOUS
<1>5. WiresOK
  <2>. HIDE DEF msg, e
  <2>. QED
      BY <1>1, <1>2, <1>3, <1>4, WireSet
<1>6. LostStays
    BY <1>1, LostForGood
<1>7. /\ link' \in [Links -> {"none", "up", "lost"}]
      /\ listed' \in [Node -> SUBSET Node] /\ signals' \in [Node -> SUBSET Node]
      /\ reading' \in [Node -> SUBSET Node] /\ failing' \in [Node -> SUBSET Node]
      /\ \A k \in Node : reading'[k] \subseteq signals'[k]
      /\ dead' \subseteq Node
    BY <1>1 DEF SyncInv, SyncTypeOK
<1>8. /\ \A k \in Node : failing'[k] \subseteq failing[k]
      /\ \A k \in dead' : k \in dead
    BY <1>1
<1>. QED
    BY <1>1, <1>5, <1>6, <1>7, <1>8, ConnDone

(* Then it has its signals, and reads.                                     *)
LEMMA ListenKeeps ==
    ASSUME SyncInv, NEW n \in Node, NEW m \in Node, Listen(m, n)
    PROVE  SyncInv'
<1>1. /\ signals' = [signals EXCEPT ![m] = @ \cup {n}]
      /\ reading' = [reading EXCEPT ![m] = @ \cup {n}]
      /\ UNCHANGED <<data, wire, link, listed, failing, dead>>
    BY DEF Listen
<1>2. Grows
    BY <1>1, SameBlocks DEF data
<1>3. WiresOK
    BY <1>1, <1>2, WiresStay
<1>4. LostStays
    BY <1>1, LostForGood
<1>5. /\ link' \in [Links -> {"none", "up", "lost"}]
      /\ listed' \in [Node -> SUBSET Node] /\ signals' \in [Node -> SUBSET Node]
      /\ reading' \in [Node -> SUBSET Node] /\ failing' \in [Node -> SUBSET Node]
      /\ \A k \in Node : reading'[k] \subseteq signals'[k]
      /\ dead' \subseteq Node
    BY <1>1 DEF SyncInv, SyncTypeOK
<1>6. /\ \A k \in Node : failing'[k] \subseteq failing[k]
      /\ \A k \in dead' : k \in dead
    BY <1>1
<1>. QED
    BY <1>1, <1>3, <1>4, <1>5, <1>6, ConnDone

(* A connection that is lost: of what was written a beginning arrives.     *)
LEMMA LoseKeeps ==
    ASSUME SyncInv, NEW e \in Links, Lose(e)
    PROVE  SyncInv'
<1>. DEFINE back == <<e[2], e[1]>>
<1>1. /\ link' = [link EXCEPT ![e] = "lost"]
      /\ UNCHANGED <<data, listed, signals, reading, failing, dead>>
    BY DEF Lose
<1>2. PICK sent \in Prefixes(wire[e]), answered \in Prefixes(wire[back]) :
          wire' = [wire EXCEPT ![e] = sent, ![back] = answered]
    BY DEF Lose
<1>3. e \in Node \X Node /\ back \in Node \X Node
    BY LinkAssumption
<1>4. wire \in [Node \X Node -> Seq(Message)]
    BY DEF SyncInv, SyncTypeOK
<1>5. Grows
    BY <1>1, SameBlocks DEF data
<1>6. Sendable(prev', sent) /\ Sendable(prev', answered)
  <2>1. PICK i \in 0 .. Len(wire[e]) : sent = SubSeq(wire[e], 1, i)
      BY DEF Prefixes
  <2>2. PICK j \in 0 .. Len(wire[back]) : answered = SubSeq(wire[back], 1, j)
      BY DEF Prefixes
  <2>3. Sendable(prev', wire[e]) /\ Sendable(prev', wire[back])
      BY <1>3, <1>5, WiresSendable
  <2>. QED
      BY <2>1, <2>2, <2>3, QueueMoves
<1>7. WiresOK
  <2>. HIDE DEF back
  <2>1. \A d \in Node \X Node :
            wire'[d] = IF d = back THEN answered ELSE IF d = e THEN sent ELSE wire[d]
      BY <1>2, <1>3, <1>4
  <2>2. \A d \in Node \X Node : Sendable(prev', wire'[d])
      BY <1>5, <1>6, <2>1, WiresSendable
  <2>3. DOMAIN wire' = Node \X Node /\ wire' = [d \in Node \X Node |-> wire'[d]]
      BY <1>2, <1>4
  <2>. QED
      BY <2>2, <2>3, WiresAre
<1>8. /\ link' \in [Links -> {"none", "up", "lost"}]
      /\ \A d \in Links : link[d] = "lost" => link'[d] = "lost"
    BY <1>1 DEF SyncInv, SyncTypeOK
<1>9. LostStays
    BY <1>8, LostForGood
<1>10. /\ listed' \in [Node -> SUBSET Node] /\ signals' \in [Node -> SUBSET Node]
       /\ reading' \in [Node -> SUBSET Node] /\ failing' \in [Node -> SUBSET Node]
       /\ \A k \in Node : reading'[k] \subseteq signals'[k]
       /\ dead' \subseteq Node
    BY <1>1 DEF SyncInv, SyncTypeOK
<1>11. /\ \A k \in Node : failing'[k] \subseteq failing[k]
       /\ \A k \in dead' : k \in dead
    BY <1>1
<1>. QED
    BY <1>1, <1>7, <1>8, <1>9, <1>10, <1>11, ConnDone

(* closed() takes the connection off the list once; only a lost one is     *)
(* closed twice.                                                           *)
LEMMA ClosedIs ==
    ASSUME SyncInv, NEW n \in Node, NEW m \in Node, Lost(n, m), ConnectionClosed(n, m)
    PROVE  /\ listed' \in [Node -> SUBSET Node] /\ dead' \subseteq Node
           /\ \A k \in dead' : k \in dead \/ \E p \in Node : Lost(k, p)
<1>1. listed \in [Node -> SUBSET Node] /\ dead \subseteq Node
    BY DEF SyncInv, SyncTypeOK
<1>2. CASE m \in listed[n]
    BY <1>1, <1>2 DEF ConnectionClosed
<1>3. CASE m \notin listed[n]
  <2>1. UNCHANGED listed /\ dead' \in {dead, dead \cup {n}}
      BY <1>3 DEF ConnectionClosed
  <2>2. \A k \in dead' : k \in dead \/ k = n
      BY <2>1
  <2>. QED
      BY <1>1, <2>1, <2>2
<1>. QED
    BY <1>2, <1>3

(* A connection closed by its read.                                        *)
LEMMA ReadFailsKeeps ==
    ASSUME SyncInv, NEW n \in Node, NEW m \in Node, ReadFails(n, m)
    PROVE  SyncInv'
<1>1. /\ Lost(n, m) /\ ConnectionClosed(n, m)
      /\ reading' = [reading EXCEPT ![n] = @ \ {m}]
      /\ UNCHANGED <<data, wire, link, signals, failing>>
    BY DEF ReadFails
<1>2. /\ listed' \in [Node -> SUBSET Node] /\ dead' \subseteq Node
      /\ \A k \in dead' : k \in dead \/ \E p \in Node : Lost(k, p)
    BY <1>1, ClosedIs
<1>3. Grows
    BY <1>1, SameBlocks DEF data
<1>4. WiresOK
    BY <1>1, <1>3, WiresStay
<1>5. LostStays
    BY <1>1, LostForGood
<1>6. /\ link' \in [Links -> {"none", "up", "lost"}]
      /\ signals' \in [Node -> SUBSET Node]
      /\ reading' \in [Node -> SUBSET Node] /\ failing' \in [Node -> SUBSET Node]
      /\ \A k \in Node : reading'[k] \subseteq signals'[k]
    BY <1>1 DEF SyncInv, SyncTypeOK
<1>7. \A k \in Node : failing'[k] \subseteq failing[k]
    BY <1>1
<1>. QED
    BY <1>1, <1>2, <1>4, <1>5, <1>6, <1>7, ConnDone

(* And by a write.                                                         *)
LEMMA WriteFailsKeeps ==
    ASSUME SyncInv, NEW n \in Node, NEW m \in Node, WriteFails(n, m)
    PROVE  SyncInv'
<1>1. /\ m \in failing[n] /\ ConnectionClosed(n, m)
      /\ failing' = [failing EXCEPT ![n] = @ \ {m}]
      /\ UNCHANGED <<data, wire, link, signals, reading>>
    BY DEF WriteFails
<1>2. Lost(n, m)
    BY <1>1 DEF SyncInv, FailInv
<1>3. /\ listed' \in [Node -> SUBSET Node] /\ dead' \subseteq Node
      /\ \A k \in dead' : k \in dead \/ \E p \in Node : Lost(k, p)
    BY <1>1, <1>2, ClosedIs
<1>4. Grows
    BY <1>1, SameBlocks DEF data
<1>5. WiresOK
    BY <1>1, <1>4, WiresStay
<1>6. LostStays
    BY <1>1, LostForGood
<1>7. /\ link' \in [Links -> {"none", "up", "lost"}]
      /\ signals' \in [Node -> SUBSET Node]
      /\ reading' \in [Node -> SUBSET Node] /\ failing' \in [Node -> SUBSET Node]
      /\ \A k \in Node : reading'[k] \subseteq signals'[k]
      /\ \A k \in Node : failing'[k] \subseteq failing[k]
    BY <1>1 DEF SyncInv, SyncTypeOK
<1>. QED
    BY <1>1, <1>3, <1>5, <1>6, <1>7, ConnDone

-----------------------------------------------------------------------------
(* The message that is taken is one that was reported truly.               *)
LEMMA TakenIs ==
    ASSUME SyncInv, NEW n \in Node, NEW m \in Node, wire[<<m, n>>] # << >>
    PROVE  Msg(m, n) \in Message /\ Reported(prev, Msg(m, n))
<1>1. wire[<<m, n>>] \in Seq(Message) /\ AllReported(prev, wire[<<m, n>>])
    BY DEF SyncInv, SyncTypeOK, WireInv
<1>2. 1 \in 1 .. Len(wire[<<m, n>>]) /\ Msg(m, n) = wire[<<m, n>>][1]
    BY <1>1 DEF Msg
<1>. QED
    BY <1>1, <1>2 DEF AllReported

(* The fields of each kind of message.                                     *)
LEMMA Fields ==
    ASSUME NEW msg \in Message
    PROVE  /\ msg.id = "get_full_block" => msg.index \in Nat
           /\ msg.id = "report_transaction" => msg.trx \in Trx
           /\ msg.id = "report_full_block" =>
                /\ msg.blk \in BlockHash \cup {NoBlock}
                /\ msg.index \in Nat \cup {-1} /\ msg.head_index \in Nat \cup {-1}
BY DEF Message

(* A transaction is new, or known already and then ignored.                *)
LEMMA OnTransactionKeeps ==
    ASSUME SyncInv, NEW n \in Node, NEW m \in Node, OnTransaction(n, m)
    PROVE  SyncInv'
<1>1. wire[<<m, n>>] # << >> /\ Msg(m, n).id = "report_transaction"
    BY DEF OnTransaction, Takes, Msg
<1>2. PICK t \in Trx : t = Msg(m, n).trx
    BY <1>1, TakenIs, Fields
<1>3. ASSUME NEW h \in BlockHash, AddTransaction(n, t, m, h) PROVE SyncInv'
    BY <1>1, <1>3, TransactionKeeps
<1>4. CASE Answers(n, m, << >>) /\ UNCHANGED <<data, cons, dead>>
  <2>1. UNCHANGED <<prev, chain, known, link>>
      BY <1>4 DEF data, cons
  <2>2. Grows /\ ChainsOK
      BY <2>1, SameBlocks, ChainsStay
  <2>3. WiresOK /\ FailsOK
      BY <1>1, <1>4, <2>1, <2>2, AnswersIs, Requests
  <2>4. known' \in [Node -> SUBSET Trx]
      BY <2>1 DEF SyncInv, SyncTypeOK
  <2>. QED
      BY <1>4, <2>2, <2>3, <2>4, HandlerDone
<1>. QED
    BY <1>2, <1>3, <1>4 DEF OnTransaction

(* A block is answered with what the chain has at its index.               *)
LEMMA OnGetFullBlockKeeps ==
    ASSUME SyncInv, NEW n \in Node, NEW m \in Node, OnGetFullBlock(n, m)
    PROVE  SyncInv'
<1>. DEFINE i == Msg(m, n).index
            answer == IF chain[n] = << >> THEN << >>
                      ELSE IF i > HeadIndex(n) THEN <<ReportFullBlock(NoBlock, -1, -1)>>
                      ELSE <<ReportFullBlock(chain[n][i + 1], i, HeadIndex(n))>>
<1>1. /\ wire[<<m, n>>] # << >> /\ Msg(m, n).id = "get_full_block"
      /\ Answers(n, m, answer) /\ UNCHANGED <<data, cons, dead>>
    BY DEF OnGetFullBlock, Takes, Msg
<1>2. i \in Nat
    BY <1>1, TakenIs, Fields
<1>3. UNCHANGED <<prev, chain, known, link>>
    BY <1>1 DEF data, cons
<1>4. Grows /\ ChainsOK
    BY <1>3, SameBlocks, ChainsStay
<1>5. Sendable(prev', answer)
  <2>. DEFINE s == chain[n]
  <2>1. s \in Seq(DOMAIN prev') /\ Linked(prev', s) /\ DOMAIN prev' \subseteq BlockHash
      BY <1>3 DEF SyncInv, SyncTypeOK, LinkedInv
  <2>2. CASE s = << >>
      BY <2>2, Requests
  <2>3. CASE s # << >> /\ i > HeadIndex(n)
      BY <2>3, NoReport
  <2>4. CASE s # << >> /\ ~(i > HeadIndex(n))
    <3>1. Len(s) - 1 \in Nat /\ HeadIndex(n) = Len(s) - 1
        BY <2>1, <2>4 DEF HeadIndex
    <3>2. i < Len(s)
        BY <1>2, <2>1, <2>4, <3>1
    <3>3. Sendable(prev', <<ReportFullBlock(s[i + 1], i, HeadIndex(n))>>)
      <4>. HIDE DEF s, i
      <4>. QED
          BY <1>2, <2>1, <3>1, <3>2, BlockReport
    <3>. QED
        BY <2>4, <3>3
  <2>. QED
      BY <2>2, <2>3, <2>4
<1>6. WiresOK /\ FailsOK
  <2>. HIDE DEF answer
  <2>. QED
      BY <1>1, <1>3, <1>4, <1>5, AnswersIs
<1>7. known' \in [Node -> SUBSET Trx]
    BY <1>3 DEF SyncInv, SyncTypeOK
<1>. QED
    BY <1>1, <1>4, <1>6, <1>7, HandlerDone

(* What is asked for next is a block, if anything.                         *)
LEMMA MoreIs ==
    ASSUME ChainsOK, NEW n \in Node, NEW m, NEW pr
    PROVE  Sendable(pr, More(m, n))
<1>1. HeadIndex(n)' + 1 \in Nat
    BY DEF ChainsOK, HeadIndex
<1>2. Sendable(pr, << >>) /\ Sendable(pr, <<GetFullBlock(HeadIndex(n)' + 1)>>)
    BY <1>1, Requests
<1>. QED
    BY <1>2 DEF More

(* A reported block is the first, is accepted, or is not.                  *)
LEMMA OnFullBlockKeeps ==
    ASSUME SyncInv, NEW n \in Node, NEW m \in Node, OnFullBlock(n, m)
    PROVE  SyncInv'
<1>. DEFINE h == Msg(m, n).blk
            s == chain[n]
<1>1. /\ wire[<<m, n>>] # << >> /\ Msg(m, n).id = "report_full_block"
      /\ UNCHANGED <<prev, known, cons, dead>>
    BY DEF OnFullBlock, Takes, Msg
<1>2. /\ h \in DOMAIN prev \cup {NoBlock}
      /\ Msg(m, n).index = 0 => h \in DOMAIN prev /\ prev[h] = NoBlock
    BY <1>1, TakenIs DEF Reported
<1>3. Grows /\ UNCHANGED link
    BY <1>1, SameBlocks DEF cons
<1>4. s \in Seq(DOMAIN prev) /\ Linked(prev, s) /\ DOMAIN prev \subseteq BlockHash
    BY DEF SyncInv, SyncTypeOK, LinkedInv
<1>5. known' \in [Node -> SUBSET Trx]
    BY <1>1 DEF SyncInv, SyncTypeOK
<1>6. CASE /\ s = << >> /\ Msg(m, n).index = 0
           /\ chain' = [chain EXCEPT ![n] = <<h>>] /\ Answers(n, m, More(m, n))
  <2>1. <<h>> \in Seq(DOMAIN prev') /\ Linked(prev', <<h>>)
      BY <1>1, <1>2, <1>6, FirstLinked
  <2>2. ChainsOK
      BY <1>3, <1>6, <2>1, ChainSet
  <2>3. WiresOK /\ FailsOK
      BY <1>1, <1>3, <1>6, <2>2, MoreIs, AnswersIs
  <2>. QED
      BY <1>1, <1>3, <1>5, <2>2, <2>3, HandlerDone
<1>7. CASE /\ Accepts(n, h) /\ chain' = [chain EXCEPT ![n] = WithHead(@, h)]
           /\ Emits(n, ReportFullBlock(h, HeadIndex(n)', HeadIndex(n)'), m, More(m, n))
  <2>1. /\ s # << >> /\ h \in DOMAIN prev
        /\ prev[h] = Last(s) \/ prev[h] = prev[Last(s)]
      BY <1>2, <1>7 DEF Accepts
  <2>2. PICK t : t = WithHead(s, h)
      OBVIOUS
  <2>3. /\ t \in Seq(DOMAIN prev) /\ Linked(prev, t)
        /\ Len(t) \in Nat \ {0} /\ t[Len(t)] = h
    <3>1. Len(s) \in Nat \ {0}
        BY <1>4, <2>1
    <3>2. CASE prev[h] = Last(s)
      <4>1. t = Append(s, h)
          BY <2>2, <3>2 DEF WithHead
      <4>2. /\ Append(s, h) \in Seq(DOMAIN prev) /\ Linked(prev, Append(s, h))
            /\ Append(s, h)[Len(s) + 1] = h /\ Len(Append(s, h)) = Len(s) + 1
          BY <1>4, <2>1, <3>2, AppendLinked
      <4>. QED
          BY <3>1, <4>1, <4>2
    <3>3. CASE prev[h] # Last(s)
      <4>1. t = Append(Front(s), h)
          BY <2>2, <3>3 DEF WithHead
      <4>2. /\ Append(Front(s), h) \in Seq(DOMAIN prev)
            /\ Linked(prev, Append(Front(s), h))
            /\ Append(Front(s), h)[Len(s)] = h /\ Len(Append(Front(s), h)) = Len(s)
          BY <1>4, <2>1, <3>3, SiblingLinked
      <4>. QED
          BY <3>1, <4>1, <4>2
    <3>. QED
        BY <3>2, <3>3
  <2>4. chain' = [chain EXCEPT ![n] = t]
      BY <1>7, <2>2 DEF SyncInv, SyncTypeOK
  <2>5. ChainsOK /\ chain'[n] = t
      BY <1>1, <1>3, <2>3, <2>4, ChainSet
  <2>6. PICK i \in Nat : i = Len(t) - 1 /\ i + 1 = Len(t) /\ i < Len(t)
      BY <2>3
  <2>7. HeadIndex(n)' = i
      BY <2>5, <2>6 DEF HeadIndex
  <2>8. Sendable(prev, <<ReportFullBlock(t[i + 1], i, i)>>)
      BY <1>4, <2>3, <2>6, BlockReport
  <2>9. Sendable(prev', <<ReportFullBlock(h, HeadIndex(n)', HeadIndex(n)')>>)
      BY <1>1, <2>3, <2>6, <2>7, <2>8
  <2>10. Sendable(prev', More(m, n))
      BY <2>5, MoreIs
  <2>11. WiresOK /\ FailsOK
    <3>. DEFINE msg == ReportFullBlock(h, HeadIndex(n)', HeadIndex(n)')
    <3>1. Emits(n, msg, m, More(m, n)) /\ Sendable(prev', <<msg>>)
        BY <1>7, <2>9
    <3>. HIDE DEF msg
    <3>. QED
        BY <1>1, <1>3, <2>10, <3>1, EmitsIs
  <2>. QED
      BY <1>1, <1>3, <1>5, <2>5, <2>11, HandlerDone
<1>8. CASE Answers(n, m, << >>) /\ UNCHANGED chain
  <2>1. ChainsOK
      BY <1>3, <1>8, ChainsStay
  <2>2. WiresOK /\ FailsOK
      BY <1>1, <1>3, <1>8, Requests, AnswersIs
  <2>. QED
      BY <1>1, <1>3, <1>5, <2>1, <2>2, HandlerDone
<1>. QED
    BY <1>6, <1>7, <1>8 DEF OnFullBlock

-----------------------------------------------------------------------------
(* Nobody has a block, a message or a connection.                          *)
LEMMA SyncStart == SyncInit => SyncInv
<1>. SUFFICES ASSUME SyncInit PROVE SyncInv
    OBVIOUS
<1>1. DOMAIN prev = {}
    BY DEF SyncInit
<1>2. PrevInv
    BY <1>1, FS_EmptySet DEF PrevInv
<1>3. SyncTypeOK
    BY <1>1 DEF SyncInit, SyncTypeOK
<1>4. WireInv
  <2>1. ASSUME NEW e \in Node \X Node PROVE AllReported(prev, wire[e])
    <3>1. wire[e] = << >>
        BY DEF SyncInit
    <3>. QED
        BY <3>1 DEF AllReported
  <2>. QED
      BY <2>1 DEF WireInv
<1>5. LinkedInv
  <2>1. ASSUME NEW n \in Node PROVE Linked(prev, chain[n])
    <3>1. chain[n] = << >>
        BY DEF SyncInit
    <3>. QED
        BY <3>1 DEF Linked
  <2>. QED
      BY <2>1 DEF LinkedInv
<1>6. FailInv /\ DiesOfLoss
    BY DEF SyncInit, FailInv, DiesOfLoss
<1>. QED
    BY <1>2, <1>3, <1>4, <1>5, <1>6 DEF SyncInv

(* Every step keeps the chains linked, and the messages true.              *)
LEMMA SyncStep == SyncInv /\ [SyncNext]_syncVars => SyncInv'
<1>. SUFFICES ASSUME SyncInv, [SyncNext]_syncVars PROVE SyncInv'
    OBVIOUS
<1>1. ASSUME NEW n \in Node, NEW h \in BlockHash, ConfigureGeneration(n, h)
      PROVE  SyncInv'
    BY <1>1, GenerationKeeps
<1>2. ASSUME NEW n \in Node, NEW h \in BlockHash, Found(n, h) PROVE SyncInv'
    BY <1>2, FoundKeeps
<1>3. ASSUME NEW n \in Node, NEW h \in BlockHash, NEW t \in Trx,
             AddTransaction(n, t, Nobody, h)
      PROVE  SyncInv'
  <2>1. Nobody \notin Node
      BY LinkAssumption
  <2>. QED
      BY <1>3, <2>1, TransactionKeeps
<1>4. ASSUME NEW n \in Node, NEW m \in Node, Connect(n, m) PROVE SyncInv'
    BY <1>4, ConnectKeeps
<1>5. ASSUME NEW n \in Node, NEW m \in Node, Accept(n, m) PROVE SyncInv'
    BY <1>5, AcceptKeeps
<1>6. ASSUME NEW n \in Node, NEW m \in Node, Listen(n, m) PROVE SyncInv'
    BY <1>6, ListenKeeps
<1>7. ASSUME NEW n \in Node, NEW m \in Node, ReadFails(n, m) PROVE SyncInv'
    BY <1>7, ReadFailsKeeps
<1>8. ASSUME NEW n \in Node, NEW m \in Node, WriteFails(n, m) PROVE SyncInv'
    BY <1>8, WriteFailsKeeps
<1>9. ASSUME NEW n \in Node, NEW m \in Node, Handle(n, m) PROVE SyncInv'
    BY <1>9, OnTransactionKeeps, OnGetFullBlockKeeps, OnFullBlockKeeps DEF Handle
<1>10. ASSUME NEW e \in Links, Lose(e) PROVE SyncInv'
    BY <1>10, LoseKeeps
<1>11. CASE UNCHANGED syncVars
  <2>1. UNCHANGED data /\ UNCHANGED <<link, listed, signals, reading, wire, failing, dead>>
      BY <1>11 DEF syncVars, cons
  <2>2. WiresOK
      BY <2>1, SameBlocks, WiresStay DEF data
  <2>3. LostStays
      BY <2>1, LostForGood
  <2>4. SyncTypeOK
      BY DEF SyncInv
  <2>. QED
      BY <2>1, <2>2, <2>3, <2>4, ConnDone DEF SyncTypeOK
<1>. QED
    BY <1>1, <1>2, <1>3, <1>4, <1>5, <1>6, <1>7, <1>8, <1>9, <1>10, <1>11 DEF SyncNext

(* However the nodes are linked, and whatever is lost between them: their  *)
(* chains are linked, block by block, what they are told of blocks is true,*)
(* and only a lost connection makes a write fail.                          *)
THEOREM SyncInvariant == SyncSpec => []SyncInv
    BY SyncStart, SyncStep, PTL DEF SyncSpec

(* The place of a block where two linked chains that share it first differ *)
(* below it.                                                               *)
LEMMA LinkedShare ==
    ASSUME NEW pr, DOMAIN pr \subseteq BlockHash,
           NEW s \in Seq(DOMAIN pr), Linked(pr, s), NEW t \in Seq(DOMAIN pr), Linked(pr, t)
    PROVE  \A i \in 1 .. Len(s) : \A j \in 1 .. Len(t) :
               s[i] = t[j] => i = j /\ \A k \in 1 .. i : s[k] = t[k]
<1>. DEFINE Shares(i) == \A j \in 1 .. Len(t) :
                             s[i] = t[j] => i = j /\ \A k \in 1 .. i : s[k] = t[k]
            Bad == {i \in 1 .. Len(s) : ~Shares(i)}
            less == OpToRel(<, Nat)
<1>1. Len(s) \in Nat /\ Len(t) \in Nat
    OBVIOUS
<1>2. SUFFICES ASSUME Bad # {} PROVE FALSE
    OBVIOUS
<1>3. Bad \subseteq Nat
    BY <1>1
<1>4. IsWellFoundedOn(less, Nat)
    BY NatLessThanWellFounded
<1>5. \A x, y \in Nat : x < y => <<x, y>> \in less
    BY DEF OpToRel
<1>. HIDE DEF less
<1>6. PICK i \in Bad : \A x \in Bad : <<x, i>> \notin less
  <2>. HIDE DEF Bad
  <2>. QED
      BY <1>2, <1>3, <1>4, WFMin
<1>7. i \in 1 .. Len(s) /\ i \in Nat
    BY <1>1
<1>8. \A x \in 1 .. Len(s) : x < i => Shares(x)
  <2>1. ASSUME NEW x \in 1 .. Len(s), x < i, ~Shares(x) PROVE FALSE
    <3>1. x \in Bad /\ x \in Nat
        BY <1>1, <2>1
    <3>. QED
        BY <1>5, <1>6, <1>7, <2>1, <3>1
  <2>. QED
      BY <2>1
<1>9. PICK j \in 1 .. Len(t) : s[i] = t[j] /\ ~(i = j /\ \A k \in 1 .. i : s[k] = t[k])
    OBVIOUS
<1>10. pr[s[i]] = (IF i = 1 THEN NoBlock ELSE s[i - 1])
       /\ pr[t[j]] = (IF j = 1 THEN NoBlock ELSE t[j - 1])
    BY <1>7 DEF Linked
<1>11. /\ i # 1 => i - 1 \in 1 .. Len(s) /\ s[i - 1] # NoBlock
       /\ j # 1 => j - 1 \in 1 .. Len(t) /\ t[j - 1] # NoBlock
  <2>1. /\ i # 1 => i - 1 \in 1 .. Len(s)
        /\ j # 1 => j - 1 \in 1 .. Len(t)
      BY <1>1, <1>7
  <2>2. \A x \in DOMAIN pr : x # NoBlock
      BY HashFacts
  <2>. QED
      BY <2>1, <2>2
<1>12. CASE i = 1
  <2>1. j = 1
      BY <1>9, <1>10, <1>11, <1>12
  <2>. QED
      BY <1>9, <1>12, <2>1
<1>13. CASE i # 1
  <2>1. j # 1 /\ s[i - 1] = t[j - 1]
      BY <1>9, <1>10, <1>11, <1>13
  <2>2. i - 1 \in 1 .. Len(s) /\ i - 1 < i /\ j - 1 \in 1 .. Len(t)
      BY <1>7, <1>11, <1>13, <2>1
  <2>3. Shares(i - 1)
      BY <1>8, <2>2
  <2>4. i - 1 = j - 1 /\ \A k \in 1 .. i - 1 : s[k] = t[k]
      BY <2>1, <2>2, <2>3
  <2>5. i = j /\ \A k \in 1 .. i : k \in 1 .. i - 1 \/ k = i
      BY <1>7, <2>4
  <2>. QED
      BY <1>9, <2>4, <2>5
<1>. QED
    BY <1>12, <1>13

(* Two nodes that have a block in common have it at the same place, behind *)
(* the same blocks.                                                        *)
LEMMA HistoryOfLinks == SyncInv => SharedHistory
<1>1. ASSUME SyncInv, NEW n \in Node, NEW m \in Node
      PROVE  \A i \in 1 .. Len(chain[n]) : \A j \in 1 .. Len(chain[m]) :
                 chain[n][i] = chain[m][j] =>
                     i = j /\ \A k \in 1 .. i : chain[n][k] = chain[m][k]
  <2>1. /\ chain[n] \in Seq(DOMAIN prev) /\ Linked(prev, chain[n])
        /\ chain[m] \in Seq(DOMAIN prev) /\ Linked(prev, chain[m])
        /\ DOMAIN prev \subseteq BlockHash
      BY <1>1 DEF SyncInv, SyncTypeOK, LinkedInv
  <2>. QED
      BY <2>1, LinkedShare
<1>2. ASSUME SyncInv, NEW n \in Node PROVE DOMAIN chain[n] = 1 .. Len(chain[n])
    BY <1>2 DEF SyncInv, SyncTypeOK
<1>. QED
    BY <1>1, <1>2 DEF SharedHistory

(* Nodes agree on what is below a block they share, whatever siblings      *)
(* replace heads and whatever is lost; connections are kept as they should *)
(* be, and a node only comes to its end after a connection of its was lost.*)
THEOREM NodesAreSound == SyncSpec => []NodesSound
<1>1. SyncInv => NodesSound
    BY HistoryOfLinks DEF SyncInv, NodesSound
<1>. QED
    BY <1>1, SyncInvariant, PTL

(* A node whose head is on a longer chain is answered, when it asks for    *)
(* the block after its own head, with one that it accepts.                 *)
NextIsAccepted ==
    \A n, m \in Node :
        /\ chain[n] # << >> /\ Len(chain[n]) < Len(chain[m])
        /\ Last(chain[n]) \in ToSet(chain[m])
        => Accepts(n, chain[m][HeadIndex(n) + 2])

(* A node that is behind another can catch up: the safety half of          *)
(* CatchesUp, for any links and losses.                                    *)
THEOREM BehindMayCatchUp == SyncSpec => []NextIsAccepted
<1>1. SyncInv /\ SharedHistory => NextIsAccepted
  <2>. SUFFICES ASSUME SyncInv, SharedHistory, NEW n \in Node, NEW m \in Node,
                       chain[n] # << >>, Len(chain[n]) < Len(chain[m]),
                       Last(chain[n]) \in ToSet(chain[m])
                PROVE  Accepts(n, chain[m][HeadIndex(n) + 2])
      BY DEF NextIsAccepted
  <2>1. /\ chain[n] \in Seq(DOMAIN prev)
        /\ chain[m] \in Seq(DOMAIN prev) /\ Linked(prev, chain[m])
        /\ DOMAIN prev \subseteq BlockHash
      BY DEF SyncInv, SyncTypeOK, LinkedInv
  <2>2. PICK i \in Nat \ {0} : i = Len(chain[n]) /\ HeadIndex(n) + 2 = i + 1
      BY <2>1 DEF HeadIndex
  <2>3. i \in DOMAIN chain[n] /\ Last(chain[n]) = chain[n][i]
      BY <2>1, <2>2 DEF Last
  <2>4. PICK j \in DOMAIN chain[m] : chain[m][j] = Last(chain[n])
      BY DEF ToSet
  <2>5. i = j
      BY <2>3, <2>4 DEF SharedHistory
  <2>6. i + 1 \in 1 .. Len(chain[m])
      BY <2>1, <2>2
  <2>7. prev[chain[m][i + 1]] = chain[m][i]
      BY <2>2, <2>6, <2>1 DEF Linked
  <2>8. chain[m][i + 1] # NoBlock
      BY <2>1, <2>6, HashFacts
  <2>. QED
      BY <2>2, <2>4, <2>5, <2>7, <2>8 DEF Accepts
<1>. QED
    BY <1>1, HistoryOfLinks, SyncInvariant, PTL
=============================================================================
