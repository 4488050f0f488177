----------------------------- MODULE NodeProofs -----------------------------
(***************************************************************************)
(* Whatever the number of blocks and of transactions, and in whatever      *)
(* order a node appends, replaces, refuses and reopens: its state follows  *)
(* its chain, and no transaction is applied twice.                         *)
(***************************************************************************)
EXTENDS Node, WellFoundedInduction, SequenceTheorems, TLAPS

(* What create_gen_block starts from.                                      *)
BaseOK ==
    /\ DOMAIN blocks \subseteq Hash
    /\ blocks \in [DOMAIN blocks -> Block]
    /\ chain \in Seq(DOMAIN blocks)
    /\ state_db \in Seq(DOMAIN blocks)
    /\ head_trx \in Seq(DOMAIN blocks)
    /\ trx_db \subseteq (0 .. 2) \X Trx

(* Types, with what makes create_gen_block safe to call: a node that       *)
(* generates or saves has a chain.                                         *)
TypeInv ==
    /\ TypeOK
    /\ generating => chain # << >>
    /\ saving # "done" => chain # << >>

(* The transactions selected for a block are among those offered.          *)
LEMMA SelectedSubset ==
    ASSUME NEW S, NEW ts
    PROVE  Selected(S, ts) \subseteq ts
BY DEF Selected

(* The candidate of create_gen_block is a block on the head.               *)
LEMMA CandidateType ==
    BaseOK /\ chain # << >> =>
        /\ Candidate \in Block
        /\ Candidate.prev_block \in Hash
        /\ Candidate.state \in BlockState
        /\ Candidate.state.signed_transactions \subseteq Trx
<1> SUFFICES ASSUME BaseOK, chain # << >>
             PROVE  /\ Candidate \in Block
                    /\ Candidate.prev_block \in Hash
                    /\ Candidate.state \in BlockState
                    /\ Candidate.state.signed_transactions \subseteq Trx
    OBVIOUS
<1>1. Last(chain) \in Hash
    BY DEF BaseOK, Last
<1>2. log \in Seq(Hash)
    BY DEF BaseOK, log
<1>3. Selected(AppliedIn(log), InGroup(trx_db, PENDING_TRX)) \subseteq Trx
    BY SelectedSubset DEF InGroup
<1>. QED
    BY <1>1, <1>2, <1>3 DEF Candidate, Block, BlockState

(* The groups are numbers of groups.                                       *)
LEMMA Groups == {PENDING_TRX, HEAD_TRX, APPLIED_TRX} \subseteq 0 .. 2
BY DEF PENDING_TRX, HEAD_TRX, APPLIED_TRX

(* move_transactions makes only pairs of a group and a transaction.        *)
LEMMA MoveType ==
    ASSUME NEW db \in SUBSET ((0 .. 2) \X Trx), NEW ts,
           NEW from \in 0 .. 2, NEW to \in 0 .. 2
    PROVE  Move(db, ts, from, to) \in SUBSET ((0 .. 2) \X Trx)
BY DEF Move, InGroup

(* What a handler makes dirty are such pairs.                              *)
LEMMA DirtyType ==
    ASSUME NEW db \in SUBSET ((0 .. 2) \X Trx),
           NEW mid \in SUBSET ((0 .. 2) \X Trx),
           trx_db \subseteq (0 .. 2) \X Trx, trx_db' \subseteq (0 .. 2) \X Trx,
           dirty \subseteq (0 .. 2) \X Trx, Dirties(db, mid)
    PROVE  dirty' \subseteq (0 .. 2) \X Trx
BY DEF Dirties, Changed

(* A new block leaves every sequence of blocks one.                        *)
LEMMA WithBlockType ==
    ASSUME NEW h \in Hash, NEW b \in Block, DOMAIN blocks \subseteq Hash,
           blocks \in [DOMAIN blocks -> Block], WithBlock(h, b)
    PROVE  /\ DOMAIN blocks' \subseteq Hash
           /\ blocks' \in [DOMAIN blocks' -> Block]
           /\ DOMAIN blocks \subseteq DOMAIN blocks'
           /\ Seq(DOMAIN blocks) \subseteq Seq(DOMAIN blocks')
           /\ h \in DOMAIN blocks'
           /\ blocks'[h] = b
           /\ \A x \in DOMAIN blocks : blocks'[x] = blocks[x] /\ x # h
<1>1. /\ DOMAIN blocks' = DOMAIN blocks \cup {h}
      /\ h \notin DOMAIN blocks
      /\ \A x \in DOMAIN blocks' : blocks'[x] = IF x = h THEN b ELSE blocks[x]
      /\ blocks' = [x \in DOMAIN blocks \cup {h} |-> blocks'[x]]
    BY DEF WithBlock
<1>2. DOMAIN blocks \subseteq DOMAIN blocks'
    BY <1>1
<1>3. Seq(DOMAIN blocks) \subseteq Seq(DOMAIN blocks')
    BY <1>2
<1>. QED
    BY <1>1, <1>2, <1>3

(* create_gen_block and start_block, once the rest of a step is typed.     *)
LEMMA StartBlockType ==
    ASSUME BaseOK', chain' # << >>, NEW known \in SUBSET BlockState,
           \/ StartBlock(known)
           \/ CreateGenBlock(known) /\ UNCHANGED work, TypeOK
    PROVE  /\ gen_trx' \subseteq Trx
           /\ block_states' \subseteq BlockState
           /\ work' \in Block \cup {NoWork}
<1>1. (BaseOK /\ chain # << >> =>
          /\ Candidate \in Block
          /\ Candidate.prev_block \in Hash
          /\ Candidate.state \in BlockState
          /\ Candidate.state.signed_transactions \subseteq Trx)'
    BY CandidateType, PTL
<1>. QED
    BY <1>1 DEF StartBlock, CreateGenBlock, TypeOK

(* An empty chain gets a genesis block, so it can be built upon.           *)
LEMMA EnsureGenesisType ==
    ASSUME TypeOK, NEW h \in Hash, EnsureGenesis(h)
    PROVE  /\ DOMAIN blocks' \subseteq Hash
           /\ blocks' \in [DOMAIN blocks' -> Block]
           /\ DOMAIN blocks \subseteq DOMAIN blocks'
           /\ Seq(DOMAIN blocks) \subseteq Seq(DOMAIN blocks')
           /\ chain' \in Seq(DOMAIN blocks')
           /\ chain' # << >>
           /\ head_trx' \in Seq(DOMAIN blocks')
           /\ StatesWithGenesis \in SUBSET BlockState
<1>1. GenesisState \in BlockState
    <2>1. state_db \in Seq(Hash)
        BY DEF TypeOK
    <2>. QED
        BY <2>1 DEF GenesisState, BlockState
<1>2. StatesWithGenesis \in SUBSET BlockState
    BY <1>1 DEF StatesWithGenesis, TypeOK
<1>3. CASE chain # << >>
    BY <1>2, <1>3 DEF EnsureGenesis, TypeOK
<1>4. CASE chain = << >>
    <2> DEFINE b == [prev_block |-> NoHash, state |-> GenesisState]
    <2>1. b \in Block /\ WithBlock(h, b)
        BY <1>1, <1>4 DEF Block, EnsureGenesis
    <2> HIDE DEF b
    <2>2. /\ DOMAIN blocks' \subseteq Hash
          /\ blocks' \in [DOMAIN blocks' -> Block]
          /\ DOMAIN blocks \subseteq DOMAIN blocks'
          /\ Seq(DOMAIN blocks) \subseteq Seq(DOMAIN blocks')
          /\ h \in DOMAIN blocks'
        BY <2>1, WithBlockType DEF TypeOK
    <2>3. <<h>> \in Seq(DOMAIN blocks') /\ <<h>> # << >>
        BY <2>2
    <2>. QED
        BY <1>2, <1>4, <2>2, <2>3 DEF EnsureGenesis, TypeOK
<1>. QED
    BY <1>3, <1>4

(* add_block keeps the types, whichever way it takes.                      *)
LEMMA AddBlockType ==
    ASSUME TypeInv, saving = "done", NEW h \in DOMAIN blocks,
           NEW db \in SUBSET ((0 .. 2) \X Trx),
           NEW known \in SUBSET BlockState, NEW restart,
           AddBlock(h, db, known, restart), posted' \subseteq posted
    PROVE  TypeInv'
<1> USE Groups DEF TypeInv
<1>1. CASE ExtendHead(h, db, known)
    <2>1. trx_db' \in SUBSET ((0 .. 2) \X Trx)
        <3>1. Move(db, Trx, HEAD_TRX, APPLIED_TRX) \in SUBSET ((0 .. 2) \X Trx)
            BY MoveType
        <3>. QED
            BY <1>1, <3>1, MoveType DEF ExtendHead
    <2>2. /\ chain' \in Seq(DOMAIN blocks) /\ chain' # << >>
          /\ state_db' \in Seq(DOMAIN blocks)
          /\ head_trx' \in Seq(DOMAIN blocks)
        <3>1. log \in Seq(DOMAIN blocks)
            BY DEF TypeOK, log
        <3>2. Append(chain, h) \in Seq(DOMAIN blocks) /\ Append(chain, h) # << >>
            <4>1. Len(Append(chain, h)) = Len(chain) + 1 /\ Len(chain) \in Nat
                BY DEF TypeOK
            <4>. QED
                BY <4>1 DEF TypeOK
        <3>3. <<h>> \in Seq(DOMAIN blocks)
            OBVIOUS
        <3>. QED
            BY <1>1, <3>1, <3>2, <3>3 DEF ExtendHead
    <2>3. dirty' \subseteq (0 .. 2) \X Trx
        <3>1. Move(db, Trx, HEAD_TRX, APPLIED_TRX) \in SUBSET ((0 .. 2) \X Trx)
            BY MoveType
        <3>. QED
            BY <1>1, <2>1, <3>1, DirtyType DEF ExtendHead, TypeOK
    <2>. QED
        BY <1>1, <2>1, <2>2, <2>3 DEF ExtendHead, TypeOK
<1>2. CASE ReplaceHead(h, db, known)
    <2>1. trx_db' \in SUBSET ((0 .. 2) \X Trx)
        <3>1. Reopened(h, db) \in SUBSET ((0 .. 2) \X Trx)
            BY MoveType DEF Reopened
        <3>. QED
            BY <1>2, <3>1, MoveType DEF ReplaceHead
    <2>2. Front(chain) \in Seq(DOMAIN blocks)
        BY <1>2 DEF ReplaceHead, Replaces, MayReplace, TypeOK, Front
    <2>3. /\ chain' \in Seq(DOMAIN blocks) /\ chain' # << >>
          /\ head_trx' \in Seq(DOMAIN blocks)
        BY <1>2, <2>2 DEF ReplaceHead
    <2>4. BaseOK' /\ DOMAIN blocks' = DOMAIN blocks
        BY <1>2, <2>1, <2>3 DEF ReplaceHead, TypeOK, BaseOK
    <2>5. /\ gen_trx' \subseteq Trx
          /\ block_states' \subseteq BlockState
          /\ work' \in Block \cup {NoWork}
        <3>1. CASE generating
            BY <1>2, <2>3, <2>4, <3>1, StartBlockType DEF ReplaceHead
        <3>2. CASE ~generating
            BY <1>2, <3>2 DEF ReplaceHead, TypeOK
        <3>. QED
            BY <3>1, <3>2
    <2>6. dirty' \subseteq (0 .. 2) \X Trx
        <3>1. Reopened(h, db) \in SUBSET ((0 .. 2) \X Trx)
            BY MoveType DEF Reopened
        <3>. QED
            BY <1>2, <2>1, <3>1, DirtyType DEF ReplaceHead, TypeOK
    <2>. QED
        BY <1>2, <2>3, <2>4, <2>5, <2>6 DEF ReplaceHead, TypeOK, BaseOK
<1>3. CASE Refuse(h, db, known, restart)
    <2>1. trx_db' \in SUBSET ((0 .. 2) \X Trx)
        <3>1. Reopened(h, db) \in SUBSET ((0 .. 2) \X Trx)
            BY MoveType DEF Reopened
        <3>2. Move(Reopened(h, db), TrxOf(h), PENDING_TRX, HEAD_TRX)
                  \in SUBSET ((0 .. 2) \X Trx)
            BY <3>1, MoveType
        <3>. QED
            BY <1>3, <3>2 DEF Refuse
    <2>2. BaseOK' /\ DOMAIN blocks' = DOMAIN blocks
        BY <1>3, <2>1 DEF Refuse, TypeOK, BaseOK
    <2>3. /\ gen_trx' \subseteq Trx
          /\ block_states' \subseteq BlockState
          /\ work' \in Block \cup {NoWork}
        <3>1. CASE restart /\ generating
            <4>1. chain' # << >>
                BY <1>3, <3>1 DEF Refuse
            <4>. QED
                BY <1>3, <2>2, <3>1, <4>1, StartBlockType DEF Refuse
        <3>2. CASE ~(restart /\ generating)
            BY <1>3, <3>2 DEF Refuse, TypeOK
        <3>. QED
            BY <3>1, <3>2
    <2>4. dirty' \subseteq (0 .. 2) \X Trx
        <3>1. Reopened(h, db) \in SUBSET ((0 .. 2) \X Trx)
            BY MoveType DEF Reopened
        <3>2. Dirties(db, db) \/ Dirties(db, Reopened(h, db))
            BY <1>3 DEF Refuse
        <3>. QED
            BY <2>1, <3>1, <3>2, DirtyType DEF TypeOK
    <2>. QED
        BY <1>3, <2>2, <2>3, <2>4 DEF Refuse, TypeOK, BaseOK
<1>. QED
    BY <1>1, <1>2, <1>3 DEF AddBlock

(* A nonempty set of positions of a sequence has a greatest one.           *)
LEMMA MaxOfPositions ==
    ASSUME NEW n \in Nat, NEW S \in SUBSET (1 .. n), S # {}
    PROVE  Max(S) \in S /\ \A i \in S : Max(S) >= i
<1> DEFINE R == {n - i : i \in S}
           less == OpToRel(<, Nat)
<1>1. R \subseteq Nat /\ R # {}
    <2>1. \A i \in S : i \in 1 .. n /\ n - i \in Nat
        OBVIOUS
    <2>. QED
        BY <2>1, Zenon
<1>2. IsWellFoundedOn(less, Nat)
    BY NatLessThanWellFounded
<1>3. \A x, y \in Nat : x < y => <<x, y>> \in less
    BY DEF OpToRel
<1> HIDE DEF R, less
<1>4. PICK r \in R : \A x \in R : <<x, r>> \notin less
    BY <1>1, <1>2, WFMin
<1>5. ASSUME NEW x \in R PROVE r <= x
    <2>1. x \in Nat /\ r \in Nat
        BY <1>1
    <2>2. ~(x < r)
        BY <1>3, <1>4, <2>1
    <2>. QED
        BY <2>1, <2>2
<1>6. PICK m \in S : r = n - m
    BY DEF R
<1>7. ASSUME NEW i \in S PROVE m >= i
    <2>1. n - i \in R
        BY DEF R
    <2>2. r <= n - i
        BY <1>5, <2>1
    <2>. QED
        BY <1>6, <2>2
<1>. QED
    BY <1>7 DEF Max

(* synchronize_state cuts the chain it loaded, never adds to it.           *)
LEMMA SynchronizedType ==
    ASSUME NEW S, NEW c \in Seq(S), NEW s
    PROVE  Synchronized(c, s) \in Seq(S)
<1> DEFINE b == IF s = << >> THEN NoHash ELSE blocks[Last(s)].prev_block
           same == {i \in 1 .. Len(c) : blocks[c[i]].prev_block = b}
<1>1. Len(c) \in Nat /\ same \in SUBSET (1 .. Len(c))
    OBVIOUS
<1>2. CASE same = {}
    BY <1>2 DEF Synchronized
<1>3. CASE same # {}
    <2>1. Max(same) \in 1 .. Len(c)
        BY <1>1, <1>3, MaxOfPositions
    <2>2. Synchronized(c, s) = SubSeq(c, 1, Max(same))
        BY <1>3 DEF Synchronized
    <2> HIDE DEF same
    <2>. QED
        BY <2>1, <2>2
<1>. QED
    BY <1>2, <1>3

(* Opening what is on disk gives a typed node, whatever the databases kept.*)
LEMMA OpenType ==
    ASSUME TypeInv, NEW db \in SUBSET ((0 .. 2) \X Trx),
           NEW states \in SUBSET BlockState, Open(db, states)
    PROVE  TypeInv'
<1>1. chain' \in Seq(DOMAIN blocks)
    BY SynchronizedType DEF TypeInv, TypeOK, Open
<1>2. disk' \in [chain : Seq(DOMAIN blocks), state_db : Seq(DOMAIN blocks),
                 block_states : SUBSET BlockState]
    BY DEF TypeInv, TypeOK, Open
<1>3. << >> \in Seq(DOMAIN blocks)
    OBVIOUS
<1>4. /\ DOMAIN blocks' = DOMAIN blocks /\ blocks' = blocks
      /\ state_db' = disk.state_db /\ head_trx' = << >> /\ gen_trx' = {}
      /\ trx_db' = db /\ block_states' = states
      /\ generating' = FALSE /\ work' = NoWork /\ posted' = {}
      /\ saving' = "done" /\ dirty' = {}
    BY DEF Open
<1>5. state_db' \in Seq(DOMAIN blocks)
    BY <1>4 DEF TypeInv, TypeOK
<1>. QED
    BY <1>1, <1>2, <1>3, <1>4, <1>5 DEF TypeInv, TypeOK

(* Every step keeps the types.                                             *)
LEMMA TypeStep == TypeInv /\ [Next]_vars => TypeInv'
<1> SUFFICES ASSUME TypeInv, [Next]_vars PROVE TypeInv'
    OBVIOUS
<1> USE Groups DEF TypeInv
<1>1. ASSUME NEW h \in Hash, NEW t \in Trx, AddTransaction(t, h)
      PROVE  TypeInv'
    <2>1. /\ DOMAIN blocks' \subseteq Hash
          /\ blocks' \in [DOMAIN blocks' -> Block]
          /\ DOMAIN blocks \subseteq DOMAIN blocks'
          /\ Seq(DOMAIN blocks) \subseteq Seq(DOMAIN blocks')
          /\ chain' \in Seq(DOMAIN blocks')
          /\ chain' # << >>
          /\ head_trx' \in Seq(DOMAIN blocks')
          /\ StatesWithGenesis \in SUBSET BlockState
        BY <1>1, EnsureGenesisType DEF AddTransaction
    <2>2. trx_db' \subseteq (0 .. 2) \X Trx
        BY <1>1 DEF AddTransaction, TypeOK
    <2>3. BaseOK'
        BY <1>1, <2>1, <2>2 DEF AddTransaction, TypeOK, BaseOK
    <2>4. /\ gen_trx' \subseteq Trx
          /\ block_states' \subseteq BlockState
          /\ work' \in Block \cup {NoWork}
        <3>1. \/ StartBlock(StatesWithGenesis)
              \/ CreateGenBlock(StatesWithGenesis) /\ UNCHANGED work
            BY <1>1 DEF AddTransaction
        <3>. QED
            BY <2>1, <2>3, <3>1, StartBlockType
    <2>5. dirty' \subseteq (0 .. 2) \X Trx
        BY <1>1, <2>2, DirtyType DEF AddTransaction, TypeOK
    <2>. QED
        BY <1>1, <2>1, <2>3, <2>4, <2>5 DEF AddTransaction, TypeOK, BaseOK
<1>2. ASSUME NEW h \in Hash, NEW on \in BOOLEAN, ConfigureGeneration(on, h)
      PROVE  TypeInv'
    <2>1. CASE ~on
        BY <1>2, <2>1 DEF ConfigureGeneration, TypeOK
    <2>2. CASE on
        <3>1. /\ DOMAIN blocks' \subseteq Hash
              /\ blocks' \in [DOMAIN blocks' -> Block]
              /\ DOMAIN blocks \subseteq DOMAIN blocks'
              /\ Seq(DOMAIN blocks) \subseteq Seq(DOMAIN blocks')
              /\ chain' \in Seq(DOMAIN blocks')
              /\ chain' # << >>
              /\ head_trx' \in Seq(DOMAIN blocks')
              /\ StatesWithGenesis \in SUBSET BlockState
            BY <1>2, <2>2, EnsureGenesisType DEF ConfigureGeneration
        <3>2. BaseOK'
            BY <1>2, <3>1 DEF ConfigureGeneration, TypeOK, BaseOK
        <3>3. /\ gen_trx' \subseteq Trx
              /\ block_states' \subseteq BlockState
              /\ work' \in Block \cup {NoWork}
            BY <1>2, <2>2, <3>1, <3>2, StartBlockType DEF ConfigureGeneration
        <3>. QED
            BY <1>2, <2>2, <3>1, <3>2, <3>3
            DEF ConfigureGeneration, TypeOK, BaseOK
    <2>. QED
        BY <2>1, <2>2
<1>3. ASSUME NEW h \in DOMAIN blocks, AddFullBlock(h)
      PROVE  TypeInv'
    <2> DEFINE new   == TrxOf(h) \ Known(trx_db)
               db    == trx_db \cup ({PENDING_TRX} \X new)
               known == block_states \cup {blocks[h].state}
    <2>1. blocks[h] \in Block
        BY DEF TypeOK
    <2>2. db \in SUBSET ((0 .. 2) \X Trx) /\ known \in SUBSET BlockState
        BY <2>1 DEF TypeOK, Block, BlockState, TrxOf
    <2>3. /\ saving = "done" /\ posted' = posted
          /\ \/ AdoptGenesis(h, db, known)
             \/ AddBlock(h, db, known, new # {})
        BY <1>3 DEF AddFullBlock
    <2> HIDE DEF new, db, known
    <2>4. CASE AdoptGenesis(h, db, known)
        <3>1. <<h>> \in Seq(DOMAIN blocks) /\ <<h>> # << >>
            OBVIOUS
        <3>2. Append(head_trx, h) \in Seq(DOMAIN blocks)
            BY DEF TypeOK
        <3>3. dirty' \subseteq (0 .. 2) \X Trx
            BY <2>2, <2>4, DirtyType DEF AdoptGenesis, TypeOK
        <3>. QED
            BY <2>2, <2>3, <2>4, <3>1, <3>2, <3>3 DEF AdoptGenesis, TypeOK
    <2>5. CASE AddBlock(h, db, known, new # {})
        BY <2>2, <2>3, <2>5, AddBlockType
    <2>. QED
        BY <2>3, <2>4, <2>5
<1>4. ASSUME NEW h \in DOMAIN blocks, GeneratedBlock(h)
      PROVE  TypeInv'
    BY <1>4, AddBlockType DEF GeneratedBlock, TypeOK
<1>5. CASE SaveChain
    <2>1. Front(chain) \in Seq(DOMAIN blocks)
        BY <1>5 DEF SaveChain, TypeOK, Front
    <2>. QED
        BY <1>5, <2>1 DEF SaveChain, memory, worker, TypeOK
<1>6. CASE CommitState
    BY <1>6 DEF CommitState, memory, worker, TypeOK
<1>7. CASE SyncDatabases
    <2>1. BaseOK' /\ chain' # << >>
        BY <1>7 DEF SyncDatabases, BaseOK, TypeOK
    <2>2. disk' \in [chain : Seq(DOMAIN blocks), state_db : Seq(DOMAIN blocks),
                     block_states : SUBSET BlockState]
        BY <1>7 DEF SyncDatabases, TypeOK
    <2>3. /\ gen_trx' \subseteq Trx
          /\ block_states' \subseteq BlockState
          /\ work' \in Block \cup {NoWork}
        <3>1. block_states \in SUBSET BlockState
            BY DEF TypeOK
        <3>2. CASE generating
            BY <1>7, <2>1, <3>1, <3>2, StartBlockType DEF SyncDatabases
        <3>3. CASE ~generating
            BY <1>7, <3>3 DEF SyncDatabases, TypeOK
        <3>. QED
            BY <3>2, <3>3
    <2>. QED
        BY <1>7, <2>1, <2>2, <2>3 DEF SyncDatabases, TypeOK, BaseOK
<1>8. ASSUME NEW h \in Hash, Found(h)
      PROVE  TypeInv'
    <2>1. work \in Block /\ WithBlock(h, work)
        BY <1>8 DEF Found, TypeOK
    <2>2. /\ DOMAIN blocks' \subseteq Hash
          /\ blocks' \in [DOMAIN blocks' -> Block]
          /\ DOMAIN blocks \subseteq DOMAIN blocks'
          /\ Seq(DOMAIN blocks) \subseteq Seq(DOMAIN blocks')
          /\ h \in DOMAIN blocks'
        BY <2>1, WithBlockType DEF TypeOK
    <2>. QED
        BY <1>8, <2>2 DEF Found, memory, TypeOK
<1>9. CASE GiveUp
    BY <1>9 DEF GiveUp, memory, TypeOK
<1>10. ASSUME NEW h \in Hash, NEW p \in DOMAIN blocks \cup {NoHash},
              NEW ts \in SUBSET Trx, Elsewhere(h, p, ts)
       PROVE  TypeInv'
    <2> DEFINE s == IF p = NoHash THEN << >>
                    ELSE Append(blocks[p].state.state_db, p)
               b == [prev_block |-> p,
                     state |-> [state_db |-> s, signed_transactions |-> ts]]
    <2>1. s \in Seq(Hash)
        <3>1. CASE p = NoHash
            BY <3>1
        <3>2. CASE p # NoHash
            <4>1. p \in Hash /\ blocks[p].state.state_db \in Seq(Hash)
                BY <3>2 DEF TypeOK, Block, BlockState
            <4>. QED
                BY <3>2, <4>1
        <3>. QED
            BY <3>1, <3>2
    <2>2. b \in Block
        BY <2>1 DEF Block, BlockState, TypeOK
    <2>3. WithBlock(h, b) /\ UNCHANGED <<memory, worker, saving, disk>>
        BY <1>10 DEF Elsewhere
    <2> HIDE DEF b, s
    <2>4. /\ DOMAIN blocks' \subseteq Hash
          /\ blocks' \in [DOMAIN blocks' -> Block]
          /\ DOMAIN blocks \subseteq DOMAIN blocks'
          /\ Seq(DOMAIN blocks) \subseteq Seq(DOMAIN blocks')
        BY <2>2, <2>3, WithBlockType DEF TypeOK
    <2>. QED
        BY <2>3, <2>4 DEF memory, worker, TypeOK
<1>11. CASE Restart
    <2>1. trx_db \in SUBSET ((0 .. 2) \X Trx) /\ block_states \in SUBSET BlockState
        BY DEF TypeOK
    <2>. QED
        BY <1>11, <2>1, OpenType DEF Restart
<1>12. CASE Crash
    <2>1. PICK written \in SUBSET dirty,
               lost \in SUBSET (block_states \ disk.block_states) :
              Open((trx_db \ dirty) \cup written, block_states \ lost)
        BY <1>12 DEF Crash
    <2>2. /\ (trx_db \ dirty) \cup written \in SUBSET ((0 .. 2) \X Trx)
          /\ block_states \ lost \in SUBSET BlockState
        BY DEF TypeOK
    <2>. QED
        BY <2>1, <2>2, OpenType
<1>13. CASE UNCHANGED vars
    BY <1>13 DEF vars, memory, worker, TypeOK
<1>. QED
    BY <1>1, <1>2, <1>3, <1>4, <1>5, <1>6, <1>7, <1>8, <1>9, <1>10, <1>11,
       <1>12, <1>13 DEF Next

(* A node that was never opened before is typed.                           *)
LEMMA TypeInit == Init => TypeInv
<1> SUFFICES ASSUME Init PROVE TypeInv
    OBVIOUS
<1>1. DOMAIN blocks = {} /\ blocks \in [DOMAIN blocks -> Block]
    BY DEF Init
<1>2. << >> \in Seq(DOMAIN blocks)
    OBVIOUS
<1>3. disk \in [chain : Seq(DOMAIN blocks), state_db : Seq(DOMAIN blocks),
                block_states : SUBSET BlockState]
    BY <1>2 DEF Init
<1>. QED
    BY <1>1, <1>2, <1>3 DEF Init, TypeInv, TypeOK

(* A node's variables have their types, even after a crash.                *)
THEOREM NodeTyped == Spec => []TypeOK
<1>1. TypeInv => TypeOK
    BY DEF TypeInv
<1>. QED
    BY <1>1, TypeInit, TypeStep, PTL DEF Spec

-----------------------------------------------------------------------------
(***************************************************************************)
(* Without crashes.  A transaction is in one group, of the database and of *)
(* what a handler makes of it.                                             *)
(***************************************************************************)
InOneGroup(db) == \A t \in Trx : \A g, k \in 0 .. 2 :
    <<g, t>> \in db /\ <<k, t>> \in db => g = k

(* move_transactions leaves a transaction in one group.                    *)
LEMMA MoveOneGroup ==
    ASSUME NEW db \in SUBSET ((0 .. 2) \X Trx), InOneGroup(db), NEW ts,
           NEW from \in 0 .. 2, NEW to \in 0 .. 2
    PROVE  InOneGroup(Move(db, ts, from, to))
<1> SUFFICES ASSUME NEW t \in Trx, NEW g \in 0 .. 2, NEW k \in 0 .. 2,
                    <<g, t>> \in Move(db, ts, from, to),
                    <<k, t>> \in Move(db, ts, from, to)
             PROVE  g = k
    BY DEF InOneGroup
<1> DEFINE m == ts \cap InGroup(db, from)
<1>1. CASE t \in m
    <2>1. \A i \in 0 .. 2 : <<i, t>> \in db => i = from
        BY <1>1 DEF InOneGroup, InGroup
    <2>. QED
        BY <1>1, <2>1 DEF Move
<1>2. CASE t \notin m
    BY <1>2 DEF Move, InOneGroup
<1>. QED
    BY <1>1, <1>2

(* A transaction no group has is added to PENDING.                         *)
LEMMA AddOneGroup ==
    ASSUME NEW db \in SUBSET ((0 .. 2) \X Trx), InOneGroup(db),
           NEW ts, ts \cap Known(db) = {}
    PROVE  InOneGroup(db \cup ({PENDING_TRX} \X ts))
BY DEF InOneGroup, Known

(* Whatever add_block does with a block, its transactions end up in one    *)
(* group if they were in one.                                              *)
LEMMA AddBlockOneGroup ==
    ASSUME NEW h, NEW db \in SUBSET ((0 .. 2) \X Trx), NEW known, NEW restart,
           InOneGroup(db), AddBlock(h, db, known, restart)
    PROVE  OneGroup'
<1> USE Groups
<1>1. /\ Move(db, Trx, HEAD_TRX, APPLIED_TRX) \in SUBSET ((0 .. 2) \X Trx)
      /\ InOneGroup(Move(db, Trx, HEAD_TRX, APPLIED_TRX))
    BY MoveType, MoveOneGroup
<1>2. Reopened(h, db) \in SUBSET ((0 .. 2) \X Trx) /\ InOneGroup(Reopened(h, db))
    BY MoveType, MoveOneGroup DEF Reopened
<1>3. /\ InOneGroup(Move(Move(db, Trx, HEAD_TRX, APPLIED_TRX),
                         TrxOf(h), PENDING_TRX, HEAD_TRX))
      /\ InOneGroup(Move(Reopened(h, db), TrxOf(h), PENDING_TRX, HEAD_TRX))
    BY <1>1, <1>2, MoveOneGroup
<1>4. InOneGroup(trx_db')
    BY <1>3 DEF AddBlock, ExtendHead, ReplaceHead, Refuse
<1>. QED
    BY <1>4 DEF OneGroup, InOneGroup

(* A transaction is in one group.                                          *)
GroupInv == TypeInv /\ OneGroup

(* Every step but a crash leaves a transaction in one group.               *)
LEMMA GroupStep ==
    ASSUME "crash" \notin Faults
    PROVE  GroupInv /\ [Next]_vars => GroupInv'
<1> SUFFICES ASSUME GroupInv, [Next]_vars PROVE GroupInv'
    OBVIOUS
<1>0. TypeInv'
    BY TypeStep DEF GroupInv
<1>1. trx_db \in SUBSET ((0 .. 2) \X Trx)
    BY DEF GroupInv, TypeInv, TypeOK
<1> SUFFICES InOneGroup(trx_db')
    BY <1>0 DEF GroupInv, OneGroup, InOneGroup
<1>2. InOneGroup(trx_db)
    BY DEF GroupInv, OneGroup, InOneGroup
<1>3. ASSUME NEW h \in Hash, NEW t \in Trx, AddTransaction(t, h)
      PROVE  InOneGroup(trx_db')
    <2>1. trx_db' = trx_db \cup ({PENDING_TRX} \X {t})
        BY <1>3 DEF AddTransaction
    <2>2. {t} \cap Known(trx_db) = {}
        BY <1>3 DEF AddTransaction
    <2>. QED
        BY <1>1, <1>2, <2>1, <2>2, AddOneGroup
<1>4. ASSUME NEW h \in DOMAIN blocks, AddFullBlock(h)
      PROVE  InOneGroup(trx_db')
    <2> DEFINE new   == TrxOf(h) \ Known(trx_db)
               db    == trx_db \cup ({PENDING_TRX} \X new)
               known == block_states \cup {blocks[h].state}
    <2>1. db \in SUBSET ((0 .. 2) \X Trx)
        BY Groups DEF GroupInv, TypeInv, TypeOK, Block, BlockState, TrxOf
    <2>2. InOneGroup(db)
        BY <1>1, <1>2, AddOneGroup
    <2>3. AdoptGenesis(h, db, known) \/ AddBlock(h, db, known, new # {})
        BY <1>4 DEF AddFullBlock
    <2> HIDE DEF new, db, known
    <2>4. CASE AdoptGenesis(h, db, known)
        BY <2>2, <2>4 DEF AdoptGenesis
    <2>5. CASE AddBlock(h, db, known, new # {})
        BY <2>1, <2>2, <2>5, AddBlockOneGroup DEF OneGroup, InOneGroup
    <2>. QED
        BY <2>3, <2>4, <2>5
<1>5. ASSUME NEW h \in DOMAIN blocks, GeneratedBlock(h)
      PROVE  InOneGroup(trx_db')
    <2>1. AddBlock(h, trx_db, block_states, FALSE)
        BY <1>5 DEF GeneratedBlock
    <2>. QED
        BY <1>1, <1>2, <2>1, AddBlockOneGroup DEF OneGroup, InOneGroup
<1>6. CASE \/ \E h \in Hash, on \in BOOLEAN : ConfigureGeneration(on, h)
           \/ SaveChain \/ CommitState \/ SyncDatabases
           \/ \E h \in Hash : Found(h)
           \/ GiveUp
           \/ \E h \in Hash, p \in DOMAIN blocks \cup {NoHash}, ts \in SUBSET Trx :
                  Elsewhere(h, p, ts)
           \/ Restart
           \/ UNCHANGED vars
    BY <1>2, <1>6 DEF ConfigureGeneration, SaveChain, CommitState,
        SyncDatabases, Found, GiveUp, Elsewhere, Restart, Open, memory, vars
<1>. QED
    BY <1>3, <1>4, <1>5, <1>6 DEF Next, Crash

(* Without a crash a transaction is never in two groups, whatever is       *)
(* appended, replaced or refused half way, and in whatever order.          *)
THEOREM AlwaysOneGroup ==
    ASSUME "crash" \notin Faults
    PROVE  Spec => []OneGroup
<1>1. Init => GroupInv
    BY TypeInit DEF Init, GroupInv, OneGroup
<1>2. GroupInv => OneGroup
    BY DEF GroupInv
<1>. QED
    BY <1>1, <1>2, GroupStep, PTL DEF Spec

-----------------------------------------------------------------------------
(***************************************************************************)
(* A block is built on the state it names, and a genesis block has no      *)
(* transactions.                                                           *)
(***************************************************************************)
BuildsOnState(b) ==
    /\ b.prev_block = IF b.state.state_db = << >> THEN NoHash
                      ELSE Last(b.state.state_db)
    /\ b.prev_block = NoHash => b.state.signed_transactions = {}

AllBuildOnState ==
    /\ \A h \in DOMAIN blocks : BuildsOnState(blocks[h])
    /\ BuildsOnState(work)

(* The head's layer is the head, or empty after a restart, which left the  *)
(* head's state in the file.                                               *)
ChainInv ==
    /\ TypeInv
    /\ StateFollowsChain
    /\ DiskFollows
    /\ Len(head_trx) <= 1
    /\ AllBuildOnState

(* A sequence with one element is the sequence of its last.                *)
LEMMA LastOfConcat ==
    ASSUME NEW S, NEW s \in Seq(S), NEW t \in Seq(S)
    PROVE  /\ t # << >> => Last(s \o t) = Last(t)
           /\ t = << >> => s \o t = s
           /\ t # << >> /\ Len(t) <= 1 => Front(s \o t) = s
<1>1. Len(s \o t) = Len(s) + Len(t) /\ Len(s) \in Nat /\ Len(t) \in Nat
    OBVIOUS
<1>2. t # << >> => Len(t) >= 1
    OBVIOUS
<1>3. t # << >> => Last(s \o t) = Last(t)
    BY <1>1, <1>2 DEF Last
<1>4. t = << >> => s \o t = s
    OBVIOUS
<1>5. t # << >> /\ Len(t) <= 1 => Front(s \o t) = s
    BY <1>1, <1>2 DEF Front
<1>. QED
    BY <1>3, <1>4, <1>5

(* The candidate of create_gen_block is built on the state it names.       *)
LEMMA CandidateBuilds ==
    StateFollowsChain /\ chain # << >> /\ BaseOK => BuildsOnState(Candidate)
<1> SUFFICES ASSUME StateFollowsChain, chain # << >>, BaseOK
             PROVE  BuildsOnState(Candidate)
    OBVIOUS
<1>1. log # << >> /\ Last(chain) = Last(log)
    BY DEF StateFollowsChain
<1>2. Candidate.prev_block # NoHash
    BY CandidateType DEF Hash, NoHash
<1>. QED
    BY <1>1, <1>2 DEF BuildsOnState, Candidate

(* start_block sets the worker on such a block.                            *)
LEMMA StartBlockBuilds ==
    ASSUME StateFollowsChain', chain' # << >>, BaseOK', NEW known,
           BuildsOnState(work),
           \/ StartBlock(known)
           \/ CreateGenBlock(known) /\ UNCHANGED work
    PROVE  BuildsOnState(work')
<1>1. (StateFollowsChain /\ chain # << >> /\ BaseOK
          => BuildsOnState(Candidate))'
    BY CandidateBuilds, PTL
<1>. QED
    BY <1>1 DEF StartBlock, BuildsOnState

(* A chain stays one as other blocks are generated.                        *)
LEMMA IsChainFrame ==
    ASSUME BaseOK, NEW h \in Hash, NEW b \in Block, WithBlock(h, b),
           NEW s \in Seq(DOMAIN blocks), IsChain(s)
    PROVE  IsChain(s)'
<1>1. \A i \in 1 .. Len(s) : s[i] \in DOMAIN blocks
    OBVIOUS
<1>2. \A x \in DOMAIN blocks : blocks'[x] = blocks[x]
    BY WithBlockType DEF BaseOK
<1>. QED
    BY <1>1, <1>2 DEF IsChain

(* A block on the last of a chain, or a genesis block, extends it.         *)
LEMMA IsChainAppend ==
    ASSUME NEW s \in Seq(DOMAIN blocks), IsChain(s), NEW h \in DOMAIN blocks,
           blocks[h].prev_block = IF s = << >> THEN NoHash ELSE Last(s)
    PROVE  IsChain(Append(s, h))
<1>1. Len(s) \in Nat /\ Len(Append(s, h)) = Len(s) + 1
    OBVIOUS
<1>2. ASSUME NEW i \in 1 .. Len(s) + 1
      PROVE  blocks[Append(s, h)[i]].prev_block
                 = IF i = 1 THEN NoHash ELSE Append(s, h)[i - 1]
    <2>1. CASE i \in 1 .. Len(s)
        <3>1. Append(s, h)[i] = s[i] /\ (i # 1 => Append(s, h)[i - 1] = s[i - 1])
            BY <2>1
        <3>. QED
            BY <2>1, <3>1 DEF IsChain
    <2>2. CASE i = Len(s) + 1
        <3>1. Append(s, h)[i] = h /\ (i # 1 => Append(s, h)[i - 1] = Last(s))
            BY <2>2 DEF Last
        <3>2. s = << >> <=> i = 1
            BY <2>2
        <3>. QED
            BY <3>1, <3>2
    <2>. QED
        BY <1>1, <2>1, <2>2
<1>. QED
    BY <1>1, <1>2 DEF IsChain

(* A chain without its head is a chain.                                    *)
LEMMA IsChainPrefix ==
    ASSUME NEW s \in Seq(DOMAIN blocks), NEW t \in Seq(DOMAIN blocks),
           IsChain(s \o t)
    PROVE  IsChain(s)
<1>1. \A i \in 1 .. Len(s) : i \in 1 .. Len(s \o t) /\ (s \o t)[i] = s[i]
    OBVIOUS
<1>2. \A i \in 1 .. Len(s) : i # 1 => (s \o t)[i - 1] = s[i - 1]
    OBVIOUS
<1>. QED
    BY <1>1, <1>2 DEF IsChain

(* Where the types hold, start_block may be called on the chain.           *)
LEMMA TypedBase == TypeInv => BaseOK
BY DEF TypeInv, TypeOK, BaseOK

(* add_block without a crash: what it makes the head is built on the state *)
(* that remains under it.                                                  *)
LEMMA AddBlockChain ==
    ASSUME ChainInv, TypeInv', saving = "done", NEW h \in DOMAIN blocks,
           NEW db, NEW known, NEW restart, AddBlock(h, db, known, restart)
    PROVE  ChainInv'
<1> USE DEF ChainInv
<1>t. /\ BaseOK'
      /\ chain \in Seq(DOMAIN blocks) /\ state_db \in Seq(DOMAIN blocks)
      /\ head_trx \in Seq(DOMAIN blocks) /\ log \in Seq(DOMAIN blocks)
      /\ log = chain /\ IsChain(chain)
      /\ disk.chain = state_db /\ disk.state_db = state_db
    <2>1. BaseOK'
        BY TypedBase, PTL
    <2>. QED
        BY <2>1 DEF TypeInv, TypeOK, log, StateFollowsChain, DiskFollows
<1>b. blocks' = blocks /\ disk' = disk /\ BuildsOnState(work)
    BY DEF AddBlock, ExtendHead, ReplaceHead, Refuse, AllBuildOnState
<1>1. CASE ExtendHead(h, db, known)
    <2>1. chain' = Append(chain, h) /\ state_db' = chain /\ head_trx' = <<h>>
        BY <1>1, <1>t DEF ExtendHead
    <2>2. chain' = state_db' \o head_trx'
        BY <1>t, <2>1
    <2>3. IsChain(Append(chain, h))
        BY <1>1, <1>t, IsChainAppend DEF ExtendHead, Appends, Extends
    <2>4. StateFollowsChain'
        BY <1>b, <2>1, <2>2, <2>3 DEF StateFollowsChain, log, IsChain
    <2>5. Front(chain') = state_db'
        <3>1. <<h>> \in Seq(DOMAIN blocks) /\ <<h>> # << >> /\ Len(<<h>>) <= 1
            OBVIOUS
        <3>2. Front(chain \o <<h>>) = chain
            BY <1>t, <3>1, LastOfConcat
        <3>. QED
            BY <2>1, <2>2, <3>2
    <2>6. DiskFollows'
        BY <1>1, <1>t, <1>b, <2>5 DEF ExtendHead, DiskFollows
    <2>7. AllBuildOnState'
        BY <1>1, <1>b DEF ExtendHead, AllBuildOnState, BuildsOnState
    <2>. QED
        BY <2>1, <2>4, <2>6, <2>7
<1>2. CASE ReplaceHead(h, db, known)
    <2>1. /\ chain # << >> /\ blocks[h].prev_block # Last(chain)
          /\ blocks[h].state.state_db = state_db
          /\ chain' = Append(Front(chain), h) /\ state_db' = state_db
          /\ head_trx' = <<h>> /\ saving' = "done"
        BY <1>2 DEF ReplaceHead, Replaces, MayReplace, BlockApplies
    <2>2. blocks[h].prev_block
              = IF state_db = << >> THEN NoHash ELSE Last(state_db)
        BY <2>1 DEF AllBuildOnState, BuildsOnState
    <2>3. head_trx # << >>
        BY <1>t, <2>1, <2>2, LastOfConcat DEF log
    <2>4. Front(chain) = state_db
        BY <1>t, <2>3, LastOfConcat DEF log
    <2>5. chain' = Append(state_db, h) /\ chain' = state_db' \o head_trx'
        BY <1>t, <2>1, <2>4
    <2>6. IsChain(state_db)
        BY <1>t, IsChainPrefix DEF log
    <2>7. IsChain(Append(state_db, h))
        BY <1>t, <2>2, <2>6, IsChainAppend
    <2>8. StateFollowsChain'
        BY <1>b, <2>1, <2>5, <2>7 DEF StateFollowsChain, log, IsChain
    <2>9. DiskFollows'
        BY <1>t, <1>b, <2>1 DEF DiskFollows
    <2>10. BuildsOnState(work')
        <3>1. CASE generating
            <4>1. StartBlock(known)
                BY <1>2, <3>1 DEF ReplaceHead
            <4>2. chain' # << >>
                BY <2>1, <1>t, <2>5
            <4>. QED
                BY <1>b, <1>t, <2>8, <4>1, <4>2, StartBlockBuilds
        <3>2. CASE ~generating
            BY <1>2, <1>b, <3>2 DEF ReplaceHead, BuildsOnState
        <3>. QED
            BY <3>1, <3>2
    <2>. QED
        BY <1>b, <2>1, <2>8, <2>9, <2>10 DEF AllBuildOnState, BuildsOnState
<1>3. CASE Refuse(h, db, known, restart)
    <2>1. /\ chain' = chain /\ state_db' = state_db /\ head_trx' = head_trx
          /\ saving' = saving
        BY <1>3 DEF Refuse
    <2>2. StateFollowsChain' /\ DiskFollows' /\ Len(head_trx') <= 1
        BY <1>b, <2>1 DEF StateFollowsChain, DiskFollows, log, IsChain
    <2>3. BuildsOnState(work')
        <3>1. CASE restart /\ generating
            <4>1. StartBlock(known) /\ chain' # << >>
                BY <1>3, <2>1, <3>1 DEF Refuse, TypeInv
            <4>. QED
                BY <1>b, <1>t, <2>2, <4>1, StartBlockBuilds
        <3>2. CASE ~(restart /\ generating)
            BY <1>3, <1>b, <3>2 DEF Refuse, BuildsOnState
        <3>. QED
            BY <3>1, <3>2
    <2>. QED
        BY <1>b, <2>2, <2>3 DEF AllBuildOnState, BuildsOnState
<1>. QED
    BY <1>1, <1>2, <1>3 DEF AddBlock

(* A block is the new one or was there before.                             *)
LEMMA WithBlockCases ==
    ASSUME NEW h, NEW b, WithBlock(h, b)
    PROVE  \A x \in DOMAIN blocks' :
               blocks'[x] = b \/ (x \in DOMAIN blocks /\ blocks'[x] = blocks[x])
<1>1. /\ DOMAIN blocks' = DOMAIN blocks \cup {h}
      /\ \A x \in DOMAIN blocks \cup {h} :
             blocks'[x] = IF x = h THEN b ELSE blocks[x]
    BY DEF WithBlock
<1>2. ASSUME NEW x \in DOMAIN blocks'
      PROVE  blocks'[x] = b \/ (x \in DOMAIN blocks /\ blocks'[x] = blocks[x])
    <2>1. x \in DOMAIN blocks \cup {h}
        BY <1>1
    <2>2. blocks'[x] = IF x = h THEN b ELSE blocks[x]
        BY <1>1, <2>1
    <2>. QED
        BY <2>1, <2>2
<1>. QED
    BY <1>2

(* The same for an empty chain, which takes over any genesis block.        *)
LEMMA GenesisChain ==
    ASSUME ChainInv, TypeInv', saving' = saving, chain = << >>,
           NEW h \in Hash, NEW b \in Block,
           b.prev_block = NoHash, BuildsOnState(b),
           \/ WithBlock(h, b)
           \/ blocks' = blocks /\ h \in DOMAIN blocks /\ blocks[h] = b,
           chain' = <<h>>, head_trx' = <<h>>,
           UNCHANGED <<state_db, disk>>, BuildsOnState(work')
    PROVE  ChainInv'
<1> USE DEF ChainInv
<1>1. state_db = << >> /\ saving = "done"
    BY LastOfConcat DEF StateFollowsChain, log, TypeInv, TypeOK
<1>2. blocks'[h].prev_block = NoHash
    BY WithBlockType DEF TypeInv, TypeOK
<1>3. StateFollowsChain'
    BY <1>1, <1>2 DEF StateFollowsChain, log, IsChain
<1>4. DiskFollows'
    BY <1>1 DEF DiskFollows
<1>5. AllBuildOnState'
    <2>1. ASSUME NEW x \in DOMAIN blocks'
          PROVE  blocks'[x] = b \/ (x \in DOMAIN blocks /\ blocks'[x] = blocks[x])
        <3>1. CASE WithBlock(h, b)
            BY <3>1, WithBlockCases
        <3>2. CASE blocks' = blocks
            BY <3>2
        <3>. QED
            BY <3>1, <3>2
    <2>. QED
        BY <2>1 DEF AllBuildOnState, BuildsOnState
<1>. QED
    BY <1>3, <1>4, <1>5

(* A genesis block made of the state of a node without blocks.             *)
LEMMA OwnGenesis ==
    ASSUME ChainInv, chain = << >>
    PROVE  /\ [prev_block |-> NoHash, state |-> GenesisState] \in Block
           /\ BuildsOnState([prev_block |-> NoHash, state |-> GenesisState])
           /\ head_trx = << >>
<1>1. state_db = << >> /\ head_trx = << >>
    BY LastOfConcat DEF ChainInv, StateFollowsChain, log, TypeInv, TypeOK
<1>. QED
    BY <1>1 DEF GenesisState, Block, BlockState, BuildsOnState

(* What was on disk when nothing is being written is a whole chain, which  *)
(* synchronize_state leaves as it is.                                      *)
LEMMA SynchronizedChain ==
    ASSUME NEW c \in Seq(DOMAIN blocks)
    PROVE  Synchronized(c, c) = c
<1> DEFINE b == IF c = << >> THEN NoHash ELSE blocks[Last(c)].prev_block
           same == {i \in 1 .. Len(c) : blocks[c[i]].prev_block = b}
<1>1. Len(c) \in Nat /\ same \in SUBSET (1 .. Len(c))
    OBVIOUS
<1>2. CASE same = {}
    BY <1>2 DEF Synchronized
<1>3. CASE same # {}
    <2>1. Len(c) \in same
        BY <1>1, <1>3 DEF Last
    <2>2. Max(same) \in same /\ Max(same) >= Len(c)
        BY <1>1, <2>1, MaxOfPositions
    <2>3. Max(same) = Len(c)
        BY <1>1, <2>2
    <2>4. Synchronized(c, c) = SubSeq(c, 1, Max(same))
        BY <1>3 DEF Synchronized
    <2> HIDE DEF same
    <2>. QED
        BY <2>3, <2>4
<1>. QED
    BY <1>2, <1>3

(* Without a crash every step leaves the state that of the chain.          *)
LEMMA ChainStep ==
    ASSUME "crash" \notin Faults
    PROVE  ChainInv /\ [Next]_vars => ChainInv'
<1> SUFFICES ASSUME ChainInv, [Next]_vars PROVE ChainInv'
    OBVIOUS
<1> USE DEF ChainInv
<1>t. TypeInv'
    BY TypeStep
<1>b. BaseOK /\ BaseOK'
    BY <1>t, TypedBase, PTL
<1>e. ASSUME NEW h \in Hash, EnsureGenesis(h), UNCHANGED <<state_db, disk>>,
             saving' = saving, BuildsOnState(work'), chain' # << >>
      PROVE  ChainInv'
    <2>1. CASE chain = << >>
        BY <1>e, <1>t, <2>1, OwnGenesis, GenesisChain DEF EnsureGenesis
    <2>2. CASE chain # << >>
        BY <1>e, <1>t, <2>2 DEF EnsureGenesis, StateFollowsChain, log, IsChain,
            DiskFollows, AllBuildOnState, BuildsOnState
    <2>. QED
        BY <2>1, <2>2
<1>s. ASSUME NEW h \in Hash, EnsureGenesis(h), UNCHANGED <<state_db, disk>>,
             chain' # << >>, saving' = saving, NEW known,
             \/ StartBlock(known)
             \/ CreateGenBlock(known) /\ UNCHANGED work
      PROVE  BuildsOnState(work')
    <2>1. StateFollowsChain'
        <3>1. CASE chain = << >>
            <4>1. state_db' = << >> /\ head_trx' = <<h>> /\ chain' = <<h>>
                BY <1>s, <3>1, OwnGenesis, LastOfConcat
                DEF EnsureGenesis, StateFollowsChain, log, TypeInv, TypeOK
            <4>2. blocks'[h].prev_block = NoHash
                BY <1>s, <3>1, OwnGenesis, WithBlockType
                DEF EnsureGenesis, TypeInv, TypeOK
            <4>. QED
                BY <4>1, <4>2 DEF StateFollowsChain, log, IsChain
        <3>2. CASE chain # << >>
            BY <1>s, <3>2 DEF EnsureGenesis, StateFollowsChain, log, IsChain
        <3>. QED
            BY <3>1, <3>2
    <2>. QED
        BY <1>s, <1>b, <2>1, StartBlockBuilds DEF AllBuildOnState
<1>1. ASSUME NEW h \in Hash, NEW t \in Trx, AddTransaction(t, h)
      PROVE  ChainInv'
    <2>1. /\ EnsureGenesis(h) /\ UNCHANGED <<state_db, disk>> /\ saving' = saving
          /\ \/ StartBlock(StatesWithGenesis)
             \/ CreateGenBlock(StatesWithGenesis) /\ UNCHANGED work
        BY <1>1 DEF AddTransaction
    <2>2. chain' # << >>
        BY <2>1, EnsureGenesisType DEF TypeInv
    <2>. QED
        BY <1>e, <1>s, <2>1, <2>2
<1>2. ASSUME NEW h \in Hash, NEW on \in BOOLEAN, ConfigureGeneration(on, h)
      PROVE  ChainInv'
    <2>1. CASE on
        <3>1. /\ EnsureGenesis(h) /\ UNCHANGED <<state_db, disk>>
              /\ saving' = saving /\ StartBlock(StatesWithGenesis)
            BY <1>2, <2>1 DEF ConfigureGeneration
        <3>2. chain' # << >>
            BY <3>1, EnsureGenesisType DEF TypeInv
        <3>. QED
            BY <1>e, <1>s, <3>1, <3>2
    <2>2. CASE ~on
        BY <1>2, <1>t, <2>2 DEF ConfigureGeneration, StateFollowsChain, log,
            IsChain, DiskFollows, AllBuildOnState, BuildsOnState
    <2>. QED
        BY <2>1, <2>2
<1>3. ASSUME NEW h \in DOMAIN blocks, AddFullBlock(h)
      PROVE  ChainInv'
    <2> DEFINE new   == TrxOf(h) \ Known(trx_db)
               db    == trx_db \cup ({PENDING_TRX} \X new)
               known == block_states \cup {blocks[h].state}
    <2>1. /\ saving = "done"
          /\ \/ AdoptGenesis(h, db, known)
             \/ AddBlock(h, db, known, new # {})
        BY <1>3 DEF AddFullBlock
    <2> HIDE DEF new, db, known
    <2>2. CASE AddBlock(h, db, known, new # {})
        BY <1>t, <2>1, <2>2, AddBlockChain
    <2>3. CASE AdoptGenesis(h, db, known)
        <3>1. /\ chain = << >> /\ blocks[h].prev_block = NoHash /\ chain' = <<h>>
              /\ UNCHANGED <<blocks, state_db, work, saving, disk>>
            BY <2>3 DEF AdoptGenesis
        <3>2. state_db = << >> /\ head_trx = << >> /\ log = << >>
            BY <3>1, OwnGenesis, LastOfConcat
            DEF StateFollowsChain, log, TypeInv, TypeOK
        <3>3. h \in Hash /\ blocks[h] \in Block /\ BuildsOnState(blocks[h])
            BY DEF TypeInv, TypeOK, AllBuildOnState
        <3>4. blocks[h].state.state_db = << >>
            <4>1. blocks[h].state.state_db \in Seq(Hash)
                BY <3>3 DEF Block, BlockState
            <4>2. blocks[h].state.state_db # << >>
                      => Last(blocks[h].state.state_db) \in Hash
                BY <4>1 DEF Last
            <4>3. NoHash \notin Hash
                BY DEF NoHash, Hash
            <4>. QED
                BY <3>1, <3>3, <4>2, <4>3 DEF BuildsOnState
        <3>5. head_trx' = <<h>>
            BY <2>3, <3>2, <3>4 DEF AdoptGenesis
        <3>. QED
            BY <1>t, <3>1, <3>3, <3>5, GenesisChain DEF AllBuildOnState, BuildsOnState
    <2>. QED
        BY <2>1, <2>2, <2>3
<1>4. ASSUME NEW h \in DOMAIN blocks, GeneratedBlock(h)
      PROVE  ChainInv'
    BY <1>4, <1>t, AddBlockChain DEF GeneratedBlock
<1>5. CASE SaveChain \/ CommitState \/ SyncDatabases
    <2>1. UNCHANGED <<blocks, chain, state_db, head_trx>>
        BY <1>5 DEF SaveChain, CommitState, SyncDatabases, memory
    <2>2. StateFollowsChain' /\ Len(head_trx') <= 1
        BY <2>1 DEF StateFollowsChain, log, IsChain
    <2>3. disk = [chain |-> disk.chain, state_db |-> disk.state_db,
                  block_states |-> disk.block_states]
        BY DEF TypeInv, TypeOK
    <2>4. DiskFollows'
        BY <1>5, <2>1, <2>3 DEF SaveChain, CommitState, SyncDatabases, DiskFollows
    <2>5. BuildsOnState(work')
        <3>1. CASE SyncDatabases /\ generating
            <4>1. StartBlock(block_states) /\ chain' # << >>
                BY <2>1, <3>1 DEF SyncDatabases, TypeInv
            <4>. QED
                BY <1>b, <2>2, <4>1, StartBlockBuilds DEF AllBuildOnState
        <3>2. CASE ~(SyncDatabases /\ generating)
            BY <1>5, <3>2 DEF SaveChain, CommitState, SyncDatabases, worker,
                AllBuildOnState, BuildsOnState
        <3>. QED
            BY <3>1, <3>2
    <2>. QED
        BY <1>t, <2>1, <2>2, <2>4, <2>5 DEF AllBuildOnState, BuildsOnState
<1>6. ASSUME NEW h \in Hash, NEW b \in Block, BuildsOnState(b), WithBlock(h, b),
             UNCHANGED <<memory, saving, disk>>, BuildsOnState(work')
      PROVE  ChainInv'
    <2>1. IsChain(chain)'
        <3>1. IsChain(chain) /\ chain \in Seq(DOMAIN blocks) /\ chain' = chain
            BY <1>6 DEF StateFollowsChain, TypeInv, TypeOK, memory
        <3>. QED
            BY <1>b, <1>6, <3>1, IsChainFrame DEF IsChain
    <2>2. StateFollowsChain' /\ DiskFollows' /\ Len(head_trx') <= 1
        BY <1>6, <2>1 DEF StateFollowsChain, DiskFollows, log, memory
    <2>3. \A x \in DOMAIN blocks' :
              blocks'[x] = b \/ (x \in DOMAIN blocks /\ blocks'[x] = blocks[x])
        BY <1>6, WithBlockCases
    <2>. QED
        BY <1>t, <1>6, <2>2, <2>3 DEF AllBuildOnState, BuildsOnState
<1>7. ASSUME NEW h \in Hash, Found(h)
      PROVE  ChainInv'
    <2>1. work \in Block /\ BuildsOnState(work) /\ WithBlock(h, work)
        BY <1>7 DEF Found, TypeInv, TypeOK, AllBuildOnState
    <2>2. BuildsOnState(work')
        BY <1>7 DEF Found, BuildsOnState, NoWork, NoHash
    <2>. QED
        BY <1>6, <1>7, <2>1, <2>2 DEF Found
<1>8. CASE GiveUp
    BY <1>t, <1>8 DEF GiveUp, memory, StateFollowsChain, log, IsChain, DiskFollows,
        AllBuildOnState, BuildsOnState, NoWork, NoHash
<1>9. ASSUME NEW h \in Hash, NEW p \in DOMAIN blocks \cup {NoHash},
             NEW ts \in SUBSET Trx, Elsewhere(h, p, ts)
      PROVE  ChainInv'
    <2> DEFINE s == IF p = NoHash THEN << >>
                    ELSE Append(blocks[p].state.state_db, p)
               b == [prev_block |-> p,
                     state |-> [state_db |-> s, signed_transactions |-> ts]]
    <2>1. s \in Seq(Hash) /\ p = IF s = << >> THEN NoHash ELSE Last(s)
        <3>1. CASE p = NoHash
            BY <3>1
        <3>2. CASE p # NoHash
            <4>1. p \in Hash /\ blocks[p].state.state_db \in Seq(Hash)
                BY <3>2 DEF TypeInv, TypeOK, Block, BlockState
            <4>2. /\ Len(s) = Len(blocks[p].state.state_db) + 1
                  /\ s[Len(s)] = p /\ s \in Seq(Hash)
                BY <3>2, <4>1
            <4>3. s # << >> /\ Last(s) = p
                BY <4>1, <4>2 DEF Last
            <4>. QED
                BY <4>2, <4>3
        <3>. QED
            BY <3>1, <3>2
    <2>2. b \in Block
        BY <2>1 DEF Block, BlockState, TypeInv, TypeOK
    <2>3. /\ WithBlock(h, b) /\ UNCHANGED <<memory, worker, saving, disk>>
          /\ p = NoHash => ts = {}
        BY <1>9 DEF Elsewhere
    <2>4. BuildsOnState(b)
        BY <2>1, <2>3 DEF BuildsOnState
    <2>5. BuildsOnState(work')
        BY <2>3 DEF worker, AllBuildOnState, BuildsOnState
    <2> HIDE DEF b, s
    <2>. QED
        BY <1>6, <2>2, <2>3, <2>4, <2>5
<1>10. CASE Restart
    <2>1. /\ saving = "done" /\ saving' = "done" /\ blocks' = blocks
          /\ chain' = Synchronized(disk.chain, disk.state_db)
          /\ state_db' = disk.state_db /\ head_trx' = << >> /\ work' = NoWork
          /\ disk'.chain = disk.chain /\ disk'.state_db = disk.state_db
        BY <1>10 DEF Restart, Open, TypeInv, TypeOK
    <2>2. state_db \in Seq(DOMAIN blocks) /\ head_trx \in Seq(DOMAIN blocks)
        BY DEF TypeInv, TypeOK
    <2>3. disk.chain = state_db /\ disk.state_db = state_db /\ IsChain(state_db)
        BY <2>1, <2>2, IsChainPrefix DEF DiskFollows, StateFollowsChain, log
    <2>4. chain' = state_db /\ state_db' = state_db
        BY <2>1, <2>2, <2>3, SynchronizedChain
    <2>5. StateFollowsChain'
        BY <2>1, <2>2, <2>3, <2>4 DEF StateFollowsChain, log, IsChain
    <2>6. DiskFollows' /\ Len(head_trx') <= 1
        BY <2>1, <2>3, <2>4 DEF DiskFollows
    <2>7. AllBuildOnState'
        BY <2>1 DEF AllBuildOnState, BuildsOnState, NoWork, NoHash
    <2>. QED
        BY <1>t, <2>5, <2>6, <2>7
<1>11. CASE UNCHANGED vars
    BY <1>t, <1>11 DEF vars, memory, worker, StateFollowsChain, log, IsChain,
        DiskFollows, AllBuildOnState, BuildsOnState
<1>. QED
    BY <1>1, <1>2, <1>3, <1>4, <1>5, <1>7, <1>8, <1>9, <1>10, <1>11
    DEF Next, Crash

(* Without a crash the state of the head is always what its chain's blocks *)
(* lead to, and what is on disk is the chain and the state under the head: *)
(* add_block's rollbacks and synchronize_state undo all they have to.      *)
THEOREM StateOfChain ==
    ASSUME "crash" \notin Faults
    PROVE  Spec => [](StateFollowsChain /\ DiskFollows)
<1>1. Init => ChainInv
    BY TypeInit DEF Init, ChainInv, StateFollowsChain, log, IsChain,
        DiskFollows, AllBuildOnState, BuildsOnState, NoWork, NoHash
<1>2. ChainInv => StateFollowsChain /\ DiskFollows
    BY DEF ChainInv
<1>. QED
    BY <1>1, <1>2, ChainStep, PTL DEF Spec

-----------------------------------------------------------------------------
(***************************************************************************)
(* No transaction is applied twice: the blocks on the chain have theirs    *)
(* filed in HEAD or APPLIED, and a block is only accepted with PENDING     *)
(* ones.                                                                   *)
(***************************************************************************)
(* No transaction is in two blocks of s.                                   *)
Once(s) == \A i, j \in 1 .. Len(s) : i # j => TrxOf(s[i]) \cap TrxOf(s[j]) = {}

(* What keeps a block with an applied transaction out.                     *)
FiledInv == ChainInv /\ GroupInv /\ AppliedIsFiled /\ AppliedOnce

(* The transactions of a sequence of blocks are those of its parts.        *)
LEMMA AppliedInParts ==
    ASSUME NEW S, NEW s \in Seq(S), NEW t \in Seq(S)
    PROVE  AppliedIn(s \o t) \subseteq AppliedIn(s) \cup AppliedIn(t)
<1> SUFFICES ASSUME NEW i \in 1 .. Len(s \o t)
             PROVE  TrxOf((s \o t)[i]) \subseteq AppliedIn(s) \cup AppliedIn(t)
    BY DEF AppliedIn, ToSet
<1>1. CASE i \in 1 .. Len(s)
    <2>1. (s \o t)[i] = s[i] /\ s[i] \in ToSet(s)
        BY <1>1 DEF ToSet
    <2>. QED
        BY <2>1 DEF AppliedIn
<1>2. CASE i \notin 1 .. Len(s)
    <2>1. i - Len(s) \in 1 .. Len(t) /\ (s \o t)[i] = t[i - Len(s)]
        BY <1>2
    <2>2. t[i - Len(s)] \in ToSet(t)
        BY <2>1 DEF ToSet
    <2>. QED
        BY <2>1, <2>2 DEF AppliedIn
<1>. QED
    BY <1>1, <1>2

(* A block whose transactions were not applied can follow.                 *)
LEMMA OnceAppend ==
    ASSUME NEW S, NEW s \in Seq(S), Once(s), NEW h \in S,
           TrxOf(h) \cap AppliedIn(s) = {}
    PROVE  Once(s \o <<h>>)
<1>1. Len(s) \in Nat /\ Len(s \o <<h>>) = Len(s) + 1
    OBVIOUS
<1>2. \A i \in 1 .. Len(s) : /\ (s \o <<h>>)[i] = s[i]
                             /\ TrxOf(s[i]) \subseteq AppliedIn(s)
    BY DEF AppliedIn, ToSet
<1>3. (s \o <<h>>)[Len(s) + 1] = h
    OBVIOUS
<1> SUFFICES ASSUME NEW i \in 1 .. Len(s) + 1, NEW j \in 1 .. Len(s) + 1, i # j
             PROVE  TrxOf((s \o <<h>>)[i]) \cap TrxOf((s \o <<h>>)[j]) = {}
    BY <1>1 DEF Once
<1>4. CASE i \in 1 .. Len(s) /\ j \in 1 .. Len(s)
    BY <1>2, <1>4 DEF Once
<1>5. CASE i = Len(s) + 1
    <2>1. j \in 1 .. Len(s)
        BY <1>1, <1>5
    <2>. QED
        BY <1>2, <1>3, <1>5, <2>1
<1>6. CASE j = Len(s) + 1
    <2>1. i \in 1 .. Len(s)
        BY <1>1, <1>6
    <2>. QED
        BY <1>2, <1>3, <1>6, <2>1
<1>7. /\ i \in 1 .. Len(s) \/ i = Len(s) + 1
      /\ j \in 1 .. Len(s) \/ j = Len(s) + 1
    BY <1>1
<1>. QED
    BY <1>4, <1>5, <1>6, <1>7

(* Undoing the head's layer undoes no other block.                         *)
LEMMA OncePrefix ==
    ASSUME NEW S, NEW s \in Seq(S), NEW t \in Seq(S), Once(s \o t)
    PROVE  Once(s)
<1>1. \A i \in 1 .. Len(s) : i \in 1 .. Len(s \o t) /\ (s \o t)[i] = s[i]
    OBVIOUS
<1>. QED
    BY <1>1 DEF Once

(* move_transactions adds to one group what it takes from another.         *)
LEMMA MoveGroups ==
    ASSUME NEW db \in SUBSET ((0 .. 2) \X Trx), NEW ts,
           NEW from \in 0 .. 2, NEW to \in 0 .. 2, from # to
    PROVE  /\ InGroup(Move(db, ts, from, to), to)
                  = InGroup(db, to) \cup (ts \cap InGroup(db, from))
           /\ InGroup(Move(db, ts, from, to), from) = InGroup(db, from) \ ts
BY DEF Move, InGroup

(* The third group stays as it is.                                         *)
LEMMA MoveOther ==
    ASSUME NEW db \in SUBSET ((0 .. 2) \X Trx), NEW ts,
           NEW from \in 0 .. 2, NEW to \in 0 .. 2, NEW g \in 0 .. 2,
           g # from, g # to
    PROVE  InGroup(Move(db, ts, from, to), g) = InGroup(db, g)
BY DEF Move, InGroup

(* The three groups differ.                                               *)
LEMMA GroupsDiffer ==
    /\ PENDING_TRX \in 0 .. 2 /\ HEAD_TRX \in 0 .. 2 /\ APPLIED_TRX \in 0 .. 2
    /\ PENDING_TRX # HEAD_TRX /\ PENDING_TRX # APPLIED_TRX
    /\ HEAD_TRX # APPLIED_TRX
BY DEF PENDING_TRX, HEAD_TRX, APPLIED_TRX

(* Groups apart have no transaction in common.                             *)
LEMMA OneGroupApart ==
    ASSUME NEW db \in SUBSET ((0 .. 2) \X Trx), InOneGroup(db),
           NEW g \in 0 .. 2, NEW k \in 0 .. 2, g # k
    PROVE  InGroup(db, g) \cap InGroup(db, k) = {}
BY DEF InOneGroup, InGroup

(* A step that only adds blocks and files nothing elsewhere keeps it so.   *)
LEMMA FiledFrame ==
    ASSUME TypeInv, AppliedIsFiled, AppliedOnce,
           \A x \in DOMAIN blocks : blocks'[x] = blocks[x],
           UNCHANGED <<state_db, head_trx>>,
           InGroup(trx_db, HEAD_TRX) \subseteq InGroup(trx_db', HEAD_TRX),
           InGroup(trx_db, APPLIED_TRX) \subseteq InGroup(trx_db', APPLIED_TRX)
    PROVE  AppliedIsFiled' /\ AppliedOnce'
<1>1. /\ state_db \in Seq(DOMAIN blocks) /\ head_trx \in Seq(DOMAIN blocks)
      /\ log \in Seq(DOMAIN blocks)
    BY DEF TypeInv, TypeOK, log
<1>2. /\ AppliedIn(state_db') = AppliedIn(state_db)
      /\ AppliedIn(head_trx') = AppliedIn(head_trx)
    OBVIOUS
<1>3. AppliedIn(state_db)' = AppliedIn(state_db)
    <2>1. ToSet(state_db) \subseteq DOMAIN blocks
        BY <1>1 DEF ToSet
    <2>. QED
        BY <2>1 DEF AppliedIn, TrxOf, ToSet
<1>4. AppliedIn(head_trx)' = AppliedIn(head_trx)
    <2>1. ToSet(head_trx) \subseteq DOMAIN blocks
        BY <1>1 DEF ToSet
    <2>. QED
        BY <2>1 DEF AppliedIn, TrxOf, ToSet
<1>5. AppliedIsFiled'
    BY <1>3, <1>4 DEF AppliedIsFiled, InGroup
<1>6. AppliedOnce'
    <2>1. log' = log
        BY DEF log
    <2>2. \A i \in 1 .. Len(log) : log[i] \in DOMAIN blocks
        BY <1>1
    <2>3. \A i \in 1 .. Len(log) : TrxOf(log[i])' = TrxOf(log[i])
        BY <2>1, <2>2 DEF TrxOf
    <2>. QED
        BY <2>1, <2>3 DEF AppliedOnce
<1>. QED
    BY <1>5, <1>6

(* add_block files the transactions of the block it makes the head, which  *)
(* no block under it has applied.                                          *)
LEMMA AddBlockFiled ==
    ASSUME TypeInv, AppliedIsFiled, AppliedOnce, NEW h \in DOMAIN blocks,
           NEW db \in SUBSET ((0 .. 2) \X Trx), InOneGroup(db),
           InGroup(trx_db, HEAD_TRX) \subseteq InGroup(db, HEAD_TRX),
           InGroup(trx_db, APPLIED_TRX) \subseteq InGroup(db, APPLIED_TRX),
           NEW known, NEW restart, AddBlock(h, db, known, restart)
    PROVE  AppliedIsFiled' /\ AppliedOnce'
<1> DEFINE T == TrxOf(h)
<1>g. /\ PENDING_TRX \in 0 .. 2 /\ HEAD_TRX \in 0 .. 2 /\ APPLIED_TRX \in 0 .. 2
      /\ PENDING_TRX # HEAD_TRX /\ PENDING_TRX # APPLIED_TRX
      /\ HEAD_TRX # APPLIED_TRX
    BY GroupsDiffer
<1>t. /\ state_db \in Seq(DOMAIN blocks) /\ head_trx \in Seq(DOMAIN blocks)
      /\ log \in Seq(DOMAIN blocks)
      /\ \A g : InGroup(db, g) \subseteq Trx
    BY DEF TypeInv, TypeOK, log, InGroup
<1>b. blocks' = blocks
    BY DEF AddBlock, ExtendHead, ReplaceHead, Refuse
<1>h. AppliedIn(<<h>>) = T
    <2>1. ToSet(<<h>>) = {h}
        BY DEF ToSet
    <2>. QED
        BY <2>1 DEF AppliedIn
<1>o. Once(log)
    BY DEF AppliedOnce, Once
<1> SUFFICES \/ AppliedIsFiled' /\ AppliedOnce'
             \/ /\ head_trx' = <<h>>
                /\ AppliedIn(state_db') \subseteq InGroup(trx_db', APPLIED_TRX)
                /\ T \subseteq InGroup(trx_db', HEAD_TRX)
                /\ Once(log')
    BY <1>b, <1>h DEF AppliedIsFiled, AppliedOnce, Once, AppliedIn, TrxOf, InGroup
<1>1. CASE ExtendHead(h, db, known)
    <2> DEFINE first == Move(db, Trx, HEAD_TRX, APPLIED_TRX)
    <2>1. /\ trx_db' = Move(first, T, PENDING_TRX, HEAD_TRX)
          /\ T \subseteq InGroup(db, PENDING_TRX)
          /\ state_db' = log /\ head_trx' = <<h>>
        BY <1>1 DEF ExtendHead, Appends
    <2>2. /\ first \in SUBSET ((0 .. 2) \X Trx)
          /\ InGroup(first, APPLIED_TRX)
                 = InGroup(db, APPLIED_TRX) \cup (Trx \cap InGroup(db, HEAD_TRX))
          /\ InGroup(first, PENDING_TRX) = InGroup(db, PENDING_TRX)
        <3>1. Trx \subseteq Trx /\ first \in SUBSET ((0 .. 2) \X Trx)
            BY <1>g, MoveType
        <3>2. InGroup(first, APPLIED_TRX)
                  = InGroup(db, APPLIED_TRX) \cup (Trx \cap InGroup(db, HEAD_TRX))
            BY <1>g, MoveGroups
        <3>3. InGroup(first, PENDING_TRX) = InGroup(db, PENDING_TRX)
            BY <1>g, MoveOther
        <3>. QED
            BY <3>1, <3>2, <3>3
    <2> HIDE DEF first, T
    <2>3. /\ InGroup(trx_db', HEAD_TRX)
                 = InGroup(first, HEAD_TRX) \cup (T \cap InGroup(first, PENDING_TRX))
          /\ InGroup(trx_db', APPLIED_TRX) = InGroup(first, APPLIED_TRX)
        BY <1>g, <2>1, <2>2, MoveGroups, MoveOther
    <2>4. AppliedIn(log) \subseteq InGroup(db, HEAD_TRX) \cup InGroup(db, APPLIED_TRX)
        <3>1. AppliedIn(log) \subseteq AppliedIn(state_db) \cup AppliedIn(head_trx)
            BY <1>t, AppliedInParts DEF log
        <3>. QED
            BY <3>1 DEF AppliedIsFiled
    <2>5. AppliedIn(state_db') \subseteq InGroup(trx_db', APPLIED_TRX)
        BY <1>t, <2>1, <2>2, <2>3, <2>4
    <2>6. T \cap AppliedIn(log) = {}
        BY <1>g, <2>1, <2>4, OneGroupApart
    <2>7. Once(log \o <<h>>)
        BY <1>o, <1>t, <2>6, OnceAppend DEF T
    <2>8. log' = log \o <<h>>
        BY <2>1 DEF log
    <2>. QED
        BY <2>1, <2>2, <2>3, <2>5, <2>7, <2>8
<1>2. CASE ReplaceHead(h, db, known)
    <2>1. /\ trx_db' = Move(Reopened(h, db), T, PENDING_TRX, HEAD_TRX)
          /\ T \subseteq InGroup(Reopened(h, db), PENDING_TRX)
          /\ state_db' = state_db /\ head_trx' = <<h>>
        BY <1>2 DEF ReplaceHead, Replaces
    <2>2. /\ Reopened(h, db) \in SUBSET ((0 .. 2) \X Trx)
          /\ InOneGroup(Reopened(h, db))
          /\ InGroup(Reopened(h, db), APPLIED_TRX) = InGroup(db, APPLIED_TRX)
        <3>1. /\ Reopened(h, db) \in SUBSET ((0 .. 2) \X Trx)
              /\ InOneGroup(Reopened(h, db))
            BY <1>g, MoveType, MoveOneGroup DEF Reopened
        <3>2. InGroup(Reopened(h, db), APPLIED_TRX) = InGroup(db, APPLIED_TRX)
            BY <1>g, MoveOther DEF Reopened
        <3>. QED
            BY <3>1, <3>2
    <2> HIDE DEF T
    <2>3. /\ InGroup(trx_db', HEAD_TRX) = InGroup(Reopened(h, db), HEAD_TRX)
                 \cup (T \cap InGroup(Reopened(h, db), PENDING_TRX))
          /\ InGroup(trx_db', APPLIED_TRX) = InGroup(db, APPLIED_TRX)
        BY <1>g, <2>1, <2>2, MoveGroups, MoveOther
    <2>4. AppliedIn(state_db) \subseteq InGroup(db, APPLIED_TRX)
        BY DEF AppliedIsFiled
    <2>5. T \cap AppliedIn(state_db) = {}
        BY <1>g, <2>1, <2>2, <2>4, OneGroupApart
    <2>6. Once(state_db)
        BY <1>o, <1>t, OncePrefix DEF log
    <2>7. Once(state_db \o <<h>>)
        BY <1>t, <2>5, <2>6, OnceAppend DEF T
    <2>8. log' = state_db \o <<h>>
        BY <2>1 DEF log
    <2>. QED
        BY <2>1, <2>3, <2>4, <2>7, <2>8
<1>3. CASE Refuse(h, db, known, restart)
    <2>1. /\ InGroup(db, HEAD_TRX) \subseteq InGroup(trx_db', HEAD_TRX)
          /\ InGroup(db, APPLIED_TRX) \subseteq InGroup(trx_db', APPLIED_TRX)
        <3>1. CASE trx_db' = Move(Reopened(h, db), T, PENDING_TRX, HEAD_TRX)
            <4>1. /\ Reopened(h, db) \in SUBSET ((0 .. 2) \X Trx)
                  /\ InGroup(Reopened(h, db), HEAD_TRX) = InGroup(db, HEAD_TRX) \ T
                  /\ InGroup(Reopened(h, db), PENDING_TRX)
                         = InGroup(db, PENDING_TRX) \cup (T \cap InGroup(db, HEAD_TRX))
                  /\ InGroup(Reopened(h, db), APPLIED_TRX) = InGroup(db, APPLIED_TRX)
                <5>1. Reopened(h, db) \in SUBSET ((0 .. 2) \X Trx)
                    BY <1>g, MoveType DEF Reopened
                <5>2. /\ InGroup(Reopened(h, db), HEAD_TRX)
                             = InGroup(db, HEAD_TRX) \ T
                      /\ InGroup(Reopened(h, db), PENDING_TRX)
                             = InGroup(db, PENDING_TRX) \cup (T \cap InGroup(db, HEAD_TRX))
                    BY <1>g, MoveGroups DEF Reopened
                <5>3. InGroup(Reopened(h, db), APPLIED_TRX) = InGroup(db, APPLIED_TRX)
                    BY <1>g, MoveOther DEF Reopened
                <5>. QED
                    BY <5>1, <5>2, <5>3
            <4> HIDE DEF T
            <4>2. /\ InGroup(trx_db', HEAD_TRX) = InGroup(Reopened(h, db), HEAD_TRX)
                         \cup (T \cap InGroup(Reopened(h, db), PENDING_TRX))
                  /\ InGroup(trx_db', APPLIED_TRX)
                         = InGroup(Reopened(h, db), APPLIED_TRX)
                BY <1>g, <3>1, <4>1, MoveGroups, MoveOther
            <4>. QED
                BY <4>1, <4>2
        <3>2. CASE trx_db' = db
            BY <3>2
        <3>. QED
            BY <1>3, <3>1, <3>2 DEF Refuse
    <2>. QED
        BY <1>3, <1>b, <2>1, FiledFrame DEF Refuse
<1>. QED
    BY <1>1, <1>2, <1>3 DEF AddBlock

(* Without a crash every step keeps the transactions of the chain filed.   *)
LEMMA FiledStep ==
    ASSUME "crash" \notin Faults
    PROVE  FiledInv /\ [Next]_vars => FiledInv'
<1> SUFFICES ASSUME FiledInv, [Next]_vars PROVE FiledInv'
    OBVIOUS
<1>i. ChainInv /\ GroupInv /\ TypeInv /\ AppliedIsFiled /\ AppliedOnce
    BY DEF FiledInv, GroupInv
<1>n. ChainInv' /\ GroupInv'
    BY <1>i, ChainStep, GroupStep
<1> SUFFICES AppliedIsFiled' /\ AppliedOnce'
    BY <1>n DEF FiledInv
<1>d. trx_db \in SUBSET ((0 .. 2) \X Trx) /\ InOneGroup(trx_db)
    BY <1>i DEF GroupInv, OneGroup, InOneGroup, TypeInv, TypeOK
<1>e. ASSUME NEW h \in Hash, EnsureGenesis(h), UNCHANGED state_db,
             trx_db \subseteq trx_db'
      PROVE  AppliedIsFiled' /\ AppliedOnce'
    <2>1. /\ InGroup(trx_db, HEAD_TRX) \subseteq InGroup(trx_db', HEAD_TRX)
          /\ InGroup(trx_db, APPLIED_TRX) \subseteq InGroup(trx_db', APPLIED_TRX)
        BY <1>e DEF InGroup
    <2>2. CASE chain # << >>
        BY <1>e, <1>i, <2>1, <2>2, FiledFrame DEF EnsureGenesis
    <2>3. CASE chain = << >>
        <3>1. state_db' = << >> /\ head_trx' = <<h>> /\ log' = <<h>>
            <4>1. state_db = << >> /\ head_trx = << >>
                BY <1>i, <2>3, OwnGenesis, LastOfConcat
                DEF ChainInv, StateFollowsChain, log, TypeInv, TypeOK
            <4>. QED
                BY <1>e, <2>3, <4>1 DEF EnsureGenesis, log
        <3>2. blocks'[h].state.signed_transactions = {}
            BY <1>e, <1>i, <2>3, OwnGenesis, WithBlockType
            DEF EnsureGenesis, GenesisState, TypeInv, TypeOK
        <3>. QED
            BY <3>1, <3>2 DEF AppliedIsFiled, AppliedOnce, AppliedIn, TrxOf, ToSet
    <2>. QED
        BY <2>2, <2>3
<1>1. ASSUME NEW h \in Hash, NEW t \in Trx, AddTransaction(t, h)
      PROVE  AppliedIsFiled' /\ AppliedOnce'
    BY <1>1, <1>e DEF AddTransaction
<1>2. ASSUME NEW h \in Hash, NEW on \in BOOLEAN, ConfigureGeneration(on, h)
      PROVE  AppliedIsFiled' /\ AppliedOnce'
    <2>1. CASE on
        BY <1>2, <1>e, <2>1 DEF ConfigureGeneration
    <2>2. CASE ~on
        BY <1>2, <1>i, <2>2, FiledFrame DEF ConfigureGeneration
    <2>. QED
        BY <2>1, <2>2
<1>3. ASSUME NEW h \in DOMAIN blocks, AddFullBlock(h)
      PROVE  AppliedIsFiled' /\ AppliedOnce'
    <2> DEFINE new   == TrxOf(h) \ Known(trx_db)
               db    == trx_db \cup ({PENDING_TRX} \X new)
               known == block_states \cup {blocks[h].state}
    <2>1. db \in SUBSET ((0 .. 2) \X Trx)
        BY Groups, <1>i DEF TypeInv, TypeOK, Block, BlockState, TrxOf
    <2>2. InOneGroup(db)
        BY <1>d, AddOneGroup
    <2>3. AdoptGenesis(h, db, known) \/ AddBlock(h, db, known, new # {})
        BY <1>3 DEF AddFullBlock
    <2>4. /\ InGroup(trx_db, HEAD_TRX) \subseteq InGroup(db, HEAD_TRX)
          /\ InGroup(trx_db, APPLIED_TRX) \subseteq InGroup(db, APPLIED_TRX)
        BY DEF InGroup
    <2> HIDE DEF new, db, known
    <2>5. CASE AdoptGenesis(h, db, known)
        <3>1. /\ chain = << >> /\ blocks[h].prev_block = NoHash
              /\ blocks' = blocks /\ state_db' = state_db /\ trx_db' = db
              /\ head_trx' \in {head_trx, Append(head_trx, h)}
            BY <2>5 DEF AdoptGenesis
        <3>2. state_db = << >> /\ head_trx = << >>
            BY <1>i, <3>1, OwnGenesis, LastOfConcat
            DEF ChainInv, StateFollowsChain, log, TypeInv, TypeOK
        <3>3. TrxOf(h) = {}
            BY <1>i, <3>1 DEF ChainInv, AllBuildOnState, BuildsOnState, TrxOf
        <3>4. CASE head_trx' = head_trx
            BY <1>i, <2>4, <3>1, <3>4, FiledFrame
        <3>5. CASE head_trx' = Append(head_trx, h)
            <4>1. head_trx' = <<h>> /\ log' = <<h>> /\ state_db' = << >>
                BY <3>1, <3>2, <3>5 DEF log
            <4>. QED
                BY <3>1, <3>3, <4>1
                DEF AppliedIsFiled, AppliedOnce, AppliedIn, TrxOf, ToSet
        <3>. QED
            BY <3>1, <3>4, <3>5
    <2>6. CASE AddBlock(h, db, known, new # {})
        BY <1>i, <2>1, <2>2, <2>4, <2>6, AddBlockFiled
    <2>. QED
        BY <2>3, <2>5, <2>6
<1>4. ASSUME NEW h \in DOMAIN blocks, GeneratedBlock(h)
      PROVE  AppliedIsFiled' /\ AppliedOnce'
    BY <1>4, <1>i, <1>d, AddBlockFiled DEF GeneratedBlock
<1>5. CASE SaveChain \/ CommitState \/ SyncDatabases \/ GiveUp \/ UNCHANGED vars
    BY <1>5, <1>i, FiledFrame DEF SaveChain, CommitState, SyncDatabases, GiveUp,
        memory, vars
<1>6. CASE \/ \E h \in Hash : Found(h)
           \/ \E h \in Hash, p \in DOMAIN blocks \cup {NoHash}, ts \in SUBSET Trx :
                  Elsewhere(h, p, ts)
    <2>1. UNCHANGED memory
        BY <1>6 DEF Found, Elsewhere
    <2>2. \A x \in DOMAIN blocks : blocks'[x] = blocks[x]
        BY <1>6 DEF Found, Elsewhere, WithBlock
    <2>. QED
        BY <1>i, <2>1, <2>2, FiledFrame DEF memory
<1>7. CASE Restart
    <2>1. /\ blocks' = blocks /\ state_db' = state_db /\ head_trx' = << >>
          /\ trx_db' = trx_db
        BY <1>7, <1>i DEF Restart, Open, ChainInv, DiskFollows
    <2>2. state_db \in Seq(DOMAIN blocks) /\ head_trx \in Seq(DOMAIN blocks)
        BY <1>i DEF TypeInv, TypeOK
    <2>3. Once(state_db)
        BY <1>i, <2>2, OncePrefix DEF AppliedOnce, Once, log
    <2>4. log' = state_db
        BY <2>1, <2>2 DEF log
    <2>5. AppliedIsFiled'
        <3>1. AppliedIn(head_trx)' = {} /\ AppliedIn(state_db)' = AppliedIn(state_db)
            BY <2>1 DEF AppliedIn, TrxOf, ToSet
        <3>. QED
            BY <1>i, <2>1, <3>1 DEF AppliedIsFiled, InGroup
    <2>6. AppliedOnce'
        BY <2>1, <2>3, <2>4 DEF AppliedOnce, Once, TrxOf
    <2>. QED
        BY <2>5, <2>6
<1>. QED
    BY <1>1, <1>2, <1>3, <1>4, <1>5, <1>6, <1>7 DEF Next, Crash

(* Without a crash no transaction is ever applied by two blocks of the     *)
(* chain, however often blocks that have it arrive or are generated.       *)
THEOREM NeverTwice ==
    ASSUME "crash" \notin Faults
    PROVE  Spec => [](AppliedIsFiled /\ AppliedOnce)
<1>1. Init => FiledInv
    <2> SUFFICES ASSUME Init PROVE FiledInv
        OBVIOUS
    <2>1. TypeInv
        BY TypeInit
    <2>2. ChainInv
        BY <2>1 DEF Init, ChainInv, StateFollowsChain, log, IsChain, DiskFollows,
            AllBuildOnState, BuildsOnState, NoWork, NoHash
    <2>3. GroupInv
        BY <2>1 DEF Init, GroupInv, OneGroup, InOneGroup
    <2>4. AppliedIsFiled /\ AppliedOnce
        BY DEF Init, AppliedIsFiled, AppliedOnce, AppliedIn, ToSet, log
    <2>. QED
        BY <2>2, <2>3, <2>4 DEF FiledInv
<1>2. FiledInv => AppliedIsFiled /\ AppliedOnce
    BY DEF FiledInv
<1>. QED
    BY <1>1, <1>2, FiledStep, PTL DEF Spec

-----------------------------------------------------------------------------
(* A chain that grows at its end keeps its blocks.                         *)
LEMMA PrefixOfLonger ==
    ASSUME NEW S, NEW s \in Seq(S), NEW t \in Seq(S)
    PROVE  IsPrefix(s, s \o t)
<1>1. Len(s \o t) >= Len(s)
    OBVIOUS
<1>2. SubSeq(s, 1, Len(s)) = SubSeq(s \o t, 1, Len(s))
    OBVIOUS
<1>. QED
    BY <1>1, <1>2 DEF IsPrefix

(* Every way add_block takes keeps the blocks under the head.              *)
LEMMA AddBlockConfirmed ==
    ASSUME TypeInv, NEW h \in DOMAIN blocks, NEW db, NEW known, NEW restart,
           AddBlock(h, db, known, restart)
    PROVE  ConfirmedStep
<1>t. chain \in Seq(DOMAIN blocks) /\ <<h>> \in Seq(DOMAIN blocks)
    BY DEF TypeInv, TypeOK
<1>1. CASE ExtendHead(h, db, known)
    <2>1. chain' = chain \o <<h>>
        BY <1>1, <1>t DEF ExtendHead
    <2>. QED
        BY <1>t, <2>1, PrefixOfLonger DEF ConfirmedStep
<1>2. CASE ReplaceHead(h, db, known)
    <2>1. chain # << >> /\ h < Last(chain) /\ chain' = Append(Front(chain), h)
        BY <1>2 DEF ReplaceHead, Replaces, MayReplace
    <2>2. /\ Front(chain) \in Seq(DOMAIN blocks)
          /\ Len(Front(chain)) = Len(chain) - 1
        <3>1. Len(chain) \in Nat /\ Len(chain) >= 1
            BY <1>t, <2>1
        <3>2. Front(chain) = SubSeq(chain, 1, Len(chain) - 1)
            BY DEF Front
        <3>3. Front(chain) \in Seq(DOMAIN blocks)
            BY <1>t, <3>1 DEF Front
        <3>4. Len(SubSeq(chain, 1, Len(chain) - 1)) = Len(chain) - 1
            <4>1. \A i \in 1 .. Len(chain) - 1 : chain[i] \in DOMAIN blocks
                BY <1>t, <3>1
            <4>2. 1 \in Int /\ Len(chain) - 1 \in Int
                BY <3>1
            <4> DEFINE n == Len(chain) - 1
                       len == Len(SubSeq(chain, 1, n))
            <4>3. len = IF 1 <= n THEN n - 1 + 1 ELSE 0
                BY <4>1, <4>2, SubSeqProperties
            <4>4. n \in Nat
                BY <3>1
            <4> HIDE DEF n, len
            <4>5. len = n
                BY <4>3, <4>4
            <4>. QED
                BY <4>5 DEF n, len
        <3>. QED
            BY <3>2, <3>3, <3>4
    <2>3. Len(chain') = Len(chain) /\ chain'[Len(chain)] = h
        BY <2>1, <2>2, <1>t
    <2>4. Front(chain') = Front(chain)
        <3>1. <<h>> # << >> /\ Len(<<h>>) <= 1
            OBVIOUS
        <3>2. Front(Front(chain) \o <<h>>) = Front(chain)
            BY <1>t, <2>2, <3>1, LastOfConcat
        <3>3. chain' = Front(chain) \o <<h>>
            BY <2>1, <2>2
        <3>. QED
            BY <3>2, <3>3
    <2>. QED
        BY <2>1, <2>3, <2>4 DEF ConfirmedStep, Last
<1>3. CASE Refuse(h, db, known, restart)
    <2>1. chain' = chain
        BY <1>3 DEF Refuse
    <2>2. << >> \in Seq(DOMAIN blocks) /\ chain \o << >> = chain
        BY <1>t
    <2>3. IsPrefix(chain, chain)
        BY <1>t, <2>2, PrefixOfLonger
    <2>. QED
        BY <2>1, <2>3 DEF ConfirmedStep
<1>. QED
    BY <1>1, <1>2, <1>3 DEF AddBlock

(* Without a crash a block under the head is never given up, by no block   *)
(* that arrives and by no restart.                                         *)
THEOREM ConfirmedForever ==
    ASSUME "crash" \notin Faults
    PROVE  Spec => ConfirmedStays
<1>1. ChainInv /\ [Next]_vars => [ConfirmedStep]_vars
    <2> SUFFICES ASSUME ChainInv, [Next]_vars
                 PROVE  ConfirmedStep \/ UNCHANGED vars
        OBVIOUS
    <2>t. /\ TypeInv /\ chain \in Seq(DOMAIN blocks)
          /\ state_db \in Seq(DOMAIN blocks) /\ head_trx \in Seq(DOMAIN blocks)
        BY DEF ChainInv, TypeInv, TypeOK
    <2>u. chain' = chain => ConfirmedStep
        <3>1. << >> \in Seq(DOMAIN blocks) /\ chain \o << >> = chain
            BY <2>t
        <3>2. IsPrefix(chain, chain)
            BY <2>t, <3>1, PrefixOfLonger
        <3>. QED
            BY <3>2 DEF ConfirmedStep
    <2>g. ASSUME NEW h, chain = << >>, chain' = <<h>> PROVE ConfirmedStep
        <3>1. IsPrefix(<< >>, <<h>>)
            <4>1. << >> \in Seq({h}) /\ <<h>> \in Seq({h})
                OBVIOUS
            <4>2. << >> \o <<h>> = <<h>>
                BY <4>1
            <4>. QED
                BY <4>1, <4>2, PrefixOfLonger
        <3>. QED
            BY <2>g, <3>1 DEF ConfirmedStep
    <2>1. CASE \/ \E h \in Hash, t \in Trx : AddTransaction(t, h)
               \/ \E h \in Hash, on \in BOOLEAN : ConfigureGeneration(on, h)
        BY <2>1, <2>u, <2>g DEF AddTransaction, ConfigureGeneration, EnsureGenesis
    <2>2. ASSUME NEW h \in DOMAIN blocks, AddFullBlock(h)
          PROVE  ConfirmedStep
        BY <2>2, <2>t, <2>g, AddBlockConfirmed DEF AddFullBlock, AdoptGenesis
    <2>3. ASSUME NEW h \in DOMAIN blocks, GeneratedBlock(h)
          PROVE  ConfirmedStep
        BY <2>3, <2>t, AddBlockConfirmed DEF GeneratedBlock
    <2>4. CASE \/ SaveChain \/ CommitState \/ SyncDatabases
               \/ \E h \in Hash : Found(h)
               \/ GiveUp
               \/ \E h \in Hash, p \in DOMAIN blocks \cup {NoHash},
                     ts \in SUBSET Trx : Elsewhere(h, p, ts)
        BY <2>4, <2>u DEF SaveChain, CommitState, SyncDatabases, Found, GiveUp,
            Elsewhere, memory
    <2>5. CASE Restart
        <3>1. /\ chain' = Synchronized(state_db, state_db) /\ generating' = FALSE
              /\ chain = state_db \o head_trx /\ Len(head_trx) <= 1
            BY <2>5 DEF Restart, Open, ChainInv, DiskFollows, StateFollowsChain, log
        <3>2. chain' = state_db
            BY <2>t, <3>1, SynchronizedChain
        <3>3. IsPrefix(state_db, chain)
            BY <2>t, <3>1, PrefixOfLonger
        <3>4. Len(state_db) >= Len(chain) - 1
            BY <2>t, <3>1
        <3>. QED
            BY <3>1, <3>2, <3>3, <3>4 DEF ConfirmedStep
    <2>. QED
        BY <2>1, <2>2, <2>3, <2>4, <2>5 DEF Next, Crash
<1>2. Init => ChainInv
    BY TypeInit DEF Init, ChainInv, StateFollowsChain, log, IsChain,
        DiskFollows, AllBuildOnState, BuildsOnState, NoWork, NoHash
<1>. QED
    BY <1>1, <1>2, ChainStep, PTL DEF Spec, ConfirmedStays

-----------------------------------------------------------------------------
(***************************************************************************)
(* The worker hashes a block on the head, also across a crash.             *)
(***************************************************************************)
CurrentInv == TypeInv /\ WorkIsCurrent

(* start_block makes the worker's block one on the head.                   *)
LEMMA StartIsCurrent ==
    ASSUME NEW known, StartBlock(known)
    PROVE  WorkIsCurrent'
<1>1. work' = Candidate'
    BY DEF StartBlock
<1>2. work'.prev_block = Last(chain') /\ work'.state.state_db = log'
    BY <1>1 DEF Candidate
<1>. QED
    BY <1>2 DEF WorkIsCurrent

(* Without start_block the chain and the worker's block stay, or there is  *)
(* nothing to hash.                                                        *)
LEMMA SameIsCurrent ==
    ASSUME WorkIsCurrent, UNCHANGED <<chain, state_db, head_trx, generating, saving>>,
           work' = work \/ work' = NoWork
    PROVE  WorkIsCurrent'
BY DEF WorkIsCurrent, log

(* When handle_add_block moves the head, a generator at work is given the  *)
(* new head to work on.                                                    *)
LEMMA AddBlockCurrent ==
    ASSUME CurrentInv, NEW h, NEW db, NEW known, NEW restart,
           AddBlock(h, db, known, restart)
    PROVE  WorkIsCurrent'
<1>1. CASE ExtendHead(h, db, known)
    BY <1>1 DEF ExtendHead, WorkIsCurrent
<1>2. CASE ReplaceHead(h, db, known)
    <2>1. generating => StartBlock(known)
        BY <1>2 DEF ReplaceHead
    <2>2. ~generating => WorkIsCurrent'
        BY <1>2 DEF ReplaceHead, WorkIsCurrent
    <2>. QED
        BY <2>1, <2>2, StartIsCurrent
<1>3. CASE Refuse(h, db, known, restart)
    <2>1. restart /\ generating => StartBlock(known)
        BY <1>3 DEF Refuse
    <2>2. ~(restart /\ generating) => WorkIsCurrent'
        BY <1>3, SameIsCurrent DEF Refuse, CurrentInv
    <2>. QED
        BY <2>1, <2>2, StartIsCurrent
<1>. QED
    BY <1>1, <1>2, <1>3 DEF AddBlock

(* Every handler of the node leaves the generator at work on the head,     *)
(* whatever fails.                                                         *)
LEMMA CurrentStep == CurrentInv /\ [Next]_vars => CurrentInv'
<1>. SUFFICES ASSUME CurrentInv, [Next]_vars PROVE CurrentInv'
    OBVIOUS
<1>t. TypeInv'
    BY TypeStep DEF CurrentInv
<1>. SUFFICES WorkIsCurrent'
    BY <1>t DEF CurrentInv
<1>1. ASSUME NEW h \in Hash, NEW t \in Trx, AddTransaction(t, h)
      PROVE  WorkIsCurrent'
    <2>1. generating => StartBlock(StatesWithGenesis)
        BY <1>1 DEF AddTransaction
    <2>2. ~generating => WorkIsCurrent'
        BY <1>1 DEF AddTransaction, WorkIsCurrent
    <2>. QED
        BY <2>1, <2>2, StartIsCurrent
<1>2. ASSUME NEW h \in Hash, NEW on \in BOOLEAN, ConfigureGeneration(on, h)
      PROVE  WorkIsCurrent'
    <2>1. on => StartBlock(StatesWithGenesis)
        BY <1>2 DEF ConfigureGeneration
    <2>2. ~on => WorkIsCurrent'
        BY <1>2 DEF ConfigureGeneration, WorkIsCurrent
    <2>. QED
        BY <2>1, <2>2, StartIsCurrent
<1>3. ASSUME NEW h \in DOMAIN blocks, AddFullBlock(h)
      PROVE  WorkIsCurrent'
    <2>. DEFINE new   == TrxOf(h) \ Known(trx_db)
                db    == trx_db \cup ({PENDING_TRX} \X new)
                known == block_states \cup {blocks[h].state}
    <2>1. AdoptGenesis(h, db, known) \/ AddBlock(h, db, known, new # {})
        BY <1>3 DEF AddFullBlock
    <2>. HIDE DEF new, db, known
    <2>2. CASE AdoptGenesis(h, db, known)
        BY <2>2 DEF AdoptGenesis, CurrentInv, TypeInv, WorkIsCurrent
    <2>. QED
        BY <2>1, <2>2, AddBlockCurrent
<1>4. ASSUME NEW h \in DOMAIN blocks, GeneratedBlock(h)
      PROVE  WorkIsCurrent'
    BY <1>4, AddBlockCurrent DEF GeneratedBlock
<1>5. CASE SaveChain \/ CommitState
    BY <1>5 DEF SaveChain, CommitState, WorkIsCurrent
<1>6. CASE SyncDatabases
    <2>1. generating => StartBlock(block_states)
        BY <1>6 DEF SyncDatabases
    <2>2. ~generating => WorkIsCurrent'
        BY <1>6 DEF SyncDatabases, WorkIsCurrent
    <2>. QED
        BY <2>1, <2>2, StartIsCurrent
<1>7. CASE \/ \E h \in Hash : Found(h)
           \/ GiveUp
           \/ \E h \in Hash, p \in DOMAIN blocks \cup {NoHash}, ts \in SUBSET Trx :
                  Elsewhere(h, p, ts)
           \/ UNCHANGED vars
    BY <1>7, SameIsCurrent
    DEF Found, GiveUp, Elsewhere, memory, worker, vars, CurrentInv
<1>8. CASE Restart \/ Crash
    BY <1>8 DEF Restart, Crash, Open, WorkIsCurrent
<1>. QED
    BY <1>1, <1>2, <1>3, <1>4, <1>5, <1>6, <1>7, <1>8 DEF Next

(* Once add_block is through, a node that generates never hashes a block   *)
(* on an old head, whatever it was sent and however it was started.        *)
THEOREM WorkerIsCurrent == Spec => []WorkIsCurrent
<1>1. Init => CurrentInv
    BY TypeInit DEF Init, CurrentInv, WorkIsCurrent
<1>2. CurrentInv => WorkIsCurrent
    BY DEF CurrentInv
<1>. QED
    BY <1>1, <1>2, CurrentStep, PTL DEF Spec

-----------------------------------------------------------------------------
(***************************************************************************)
(* What get_full_block needs: the state of every block of the chain, and   *)
(* of those that may become its head, is filed, and its transactions.      *)
(***************************************************************************)
StateKept(h) == blocks[h].state \in block_states
TrxKept(h) == TrxOf(h) \subseteq Known(trx_db)

KeptInv ==
    /\ \A h \in ToSet(chain) : StateKept(h) /\ TrxKept(h)
    /\ \A h \in posted : StateKept(h)
    /\ work # NoWork => work.state \in block_states

(* move_transactions forgets no transaction.                               *)
LEMMA MoveKnown ==
    ASSUME NEW db \in SUBSET ((0 .. 2) \X Trx), NEW ts,
           NEW from \in 0 .. 2, NEW to \in 0 .. 2
    PROVE  Known(Move(db, ts, from, to)) = Known(db)
BY DEF Known, Move, InGroup

(* Nothing is removed from the stores: what a step adds to the chain, the  *)
(* queue or the worker is what must have been filed.                       *)
LEMMA KeptFrame ==
    ASSUME TypeInv, KeptInv, \A x \in DOMAIN blocks : blocks'[x] = blocks[x],
           block_states \subseteq block_states', Known(trx_db) \subseteq Known(trx_db'),
           \A x \in ToSet(chain') \ ToSet(chain) :
               blocks'[x].state \in block_states'
               /\ blocks'[x].state.signed_transactions \subseteq Known(trx_db'),
           \A x \in posted' \ posted : blocks'[x].state \in block_states',
           work' \in {work, NoWork} \/ work'.state \in block_states'
    PROVE  KeptInv'
<1>1. ToSet(chain) \subseteq DOMAIN blocks /\ posted \subseteq DOMAIN blocks
    BY DEF TypeInv, TypeOK, ToSet
<1>2. ASSUME NEW x \in ToSet(chain)' PROVE StateKept(x)' /\ TrxKept(x)'
    <2>1. CASE x \in ToSet(chain)
        BY <1>1, <2>1 DEF KeptInv, StateKept, TrxKept, TrxOf, Known
    <2>2. CASE x \notin ToSet(chain)
        BY <1>2, <2>2 DEF StateKept, TrxKept, TrxOf, Known, ToSet
    <2>. QED
        BY <2>1, <2>2
<1>3. ASSUME NEW x \in posted' PROVE StateKept(x)'
    BY <1>1 DEF KeptInv, StateKept
<1>4. (work # NoWork => work.state \in block_states)'
    BY DEF KeptInv
<1>. QED
    BY <1>2, <1>3, <1>4 DEF KeptInv

(* create_gen_block files the state of its candidate.                      *)
LEMMA StartBlockKept ==
    ASSUME NEW known, StartBlock(known) \/ (CreateGenBlock(known) /\ UNCHANGED work)
    PROVE  known \subseteq block_states' /\ (work' = work \/ work'.state \in block_states')
BY DEF StartBlock, CreateGenBlock

(* The elements of the chain that gets a block more, or another head.      *)
LEMMA AppendedTo ==
    ASSUME NEW S, NEW s \in Seq(S), NEW h \in S
    PROVE  /\ ToSet(Append(s, h)) \subseteq ToSet(s) \cup {h}
           /\ s # << >> => ToSet(Append(Front(s), h)) \subseteq ToSet(s) \cup {h}
<1>1. ToSet(Append(s, h)) \subseteq ToSet(s) \cup {h}
    BY DEF ToSet
<1>2. ASSUME s # << >>
      PROVE  ToSet(Append(Front(s), h)) \subseteq ToSet(s) \cup {h}
    <2>1. Len(s) - 1 \in Nat
        BY <1>2
    <2>2. Front(s) \in Seq(S) /\ \A i \in DOMAIN Front(s) : Front(s)[i] \in ToSet(s)
        BY <2>1 DEF Front, ToSet
    <2>3. \A i \in DOMAIN Append(Front(s), h) :
              Append(Front(s), h)[i] \in ToSet(s) \cup {h}
        BY <2>2
    <2>. QED
        BY <2>3 DEF ToSet
<1>. QED
    BY <1>1, <1>2

(* add_block files nothing away: the new head's transactions were pending. *)
LEMMA AddBlockKept ==
    ASSUME TypeInv, KeptInv, NEW h \in DOMAIN blocks,
           NEW db \in SUBSET ((0 .. 2) \X Trx), Known(trx_db) \subseteq Known(db),
           NEW known, block_states \subseteq known, blocks[h].state \in known,
           posted' \subseteq posted, NEW restart, AddBlock(h, db, known, restart)
    PROVE  KeptInv'
<1>. DEFINE T == TrxOf(h)
<1>g. PENDING_TRX \in 0 .. 2 /\ HEAD_TRX \in 0 .. 2 /\ APPLIED_TRX \in 0 .. 2
    BY GroupsDiffer
<1>t. chain \in Seq(DOMAIN blocks) /\ Trx \subseteq Trx
    BY DEF TypeInv, TypeOK
<1>b. blocks' = blocks
    BY DEF AddBlock, ExtendHead, ReplaceHead, Refuse
<1>r. /\ Reopened(h, db) \in SUBSET ((0 .. 2) \X Trx)
      /\ Known(Reopened(h, db)) = Known(db)
    BY <1>g, MoveType, MoveKnown DEF Reopened
<1>m. Known(Move(Reopened(h, db), T, PENDING_TRX, HEAD_TRX)) = Known(db)
    <2>. HIDE DEF T
    <2>. QED
        BY <1>g, <1>r, MoveKnown
<1>k. \A d : InGroup(d, PENDING_TRX) \subseteq Known(d)
    BY <1>g DEF InGroup, Known
<1>1. CASE ExtendHead(h, db, known)
    <2>. DEFINE first == Move(db, Trx, HEAD_TRX, APPLIED_TRX)
    <2>1. /\ trx_db' = Move(first, T, PENDING_TRX, HEAD_TRX)
          /\ T \subseteq InGroup(db, PENDING_TRX)
          /\ chain' = Append(chain, h) /\ block_states' = known /\ work' = work
        BY <1>1 DEF ExtendHead, Appends
    <2>2. first \in SUBSET ((0 .. 2) \X Trx) /\ Known(first) = Known(db)
        BY <1>g, <1>t, MoveType, MoveKnown
    <2>. HIDE DEF first, T
    <2>3. Known(trx_db') = Known(db)
        BY <1>g, <2>1, <2>2, MoveKnown
    <2>4. ToSet(chain') \subseteq ToSet(chain) \cup {h}
        BY <1>t, <2>1, AppendedTo
    <2>5. T \subseteq Known(trx_db')
        BY <1>k, <2>1, <2>3
    <2>6. blocks'[h].state.signed_transactions \subseteq Known(trx_db')
        BY <1>b, <2>5 DEF T, TrxOf
    <2>. QED
        BY <1>b, <2>1, <2>3, <2>4, <2>6, KeptFrame
<1>2. CASE ReplaceHead(h, db, known)
    <2>1. /\ trx_db' = Move(Reopened(h, db), T, PENDING_TRX, HEAD_TRX)
          /\ T \subseteq InGroup(Reopened(h, db), PENDING_TRX)
          /\ chain # << >> /\ chain' = Append(Front(chain), h)
        BY <1>2 DEF ReplaceHead, Replaces, MayReplace
    <2>. HIDE DEF T
    <2>2. T \subseteq Known(trx_db') /\ Known(trx_db') = Known(db)
        BY <1>k, <1>m, <1>r, <2>1
    <2>3. ToSet(chain') \subseteq ToSet(chain) \cup {h}
        BY <1>t, <2>1, AppendedTo
    <2>4. block_states \subseteq block_states' /\ blocks[h].state \in block_states'
          /\ (work' = work \/ work'.state \in block_states')
        BY <1>2, StartBlockKept DEF ReplaceHead
    <2>5. blocks'[h].state.signed_transactions \subseteq Known(trx_db')
        BY <1>b, <2>2 DEF T, TrxOf
    <2>. QED
        BY <1>b, <2>2, <2>3, <2>4, <2>5, KeptFrame
<1>3. CASE Refuse(h, db, known, restart)
    <2>1. Known(trx_db') = Known(db) /\ chain' = chain
        BY <1>3, <1>m DEF Refuse
    <2>2. block_states \subseteq block_states'
          /\ (work' = work \/ work'.state \in block_states')
        BY <1>3, StartBlockKept DEF Refuse
    <2>. QED
        BY <1>b, <2>1, <2>2, KeptFrame
<1>. QED
    BY <1>1, <1>2, <1>3 DEF AddBlock

(* Every step but a crash keeps what get_full_block needs.                 *)
LEMMA KeptStep ==
    ASSUME "crash" \notin Faults
    PROVE  FiledInv /\ KeptInv /\ [Next]_vars => KeptInv'
<1>. SUFFICES ASSUME FiledInv, KeptInv, [Next]_vars PROVE KeptInv'
    OBVIOUS
<1>i. TypeInv /\ ChainInv /\ trx_db \in SUBSET ((0 .. 2) \X Trx)
    BY DEF FiledInv, ChainInv, TypeInv, TypeOK
<1>e. ASSUME NEW h \in Hash, EnsureGenesis(h), trx_db \subseteq trx_db', posted' = posted,
             \/ StartBlock(StatesWithGenesis)
             \/ CreateGenBlock(StatesWithGenesis) /\ UNCHANGED work
      PROVE  KeptInv'
    <2>1. /\ StatesWithGenesis \subseteq block_states'
          /\ (work' = work \/ work'.state \in block_states')
          /\ Known(trx_db) \subseteq Known(trx_db')
        BY <1>e, StartBlockKept DEF Known
    <2>2. block_states \subseteq block_states'
        BY <2>1 DEF StatesWithGenesis
    <2>3. CASE chain # << >>
        BY <1>e, <1>i, <2>1, <2>2, <2>3, KeptFrame DEF EnsureGenesis
    <2>4. CASE chain = << >>
        <3>1. /\ chain' = <<h>> /\ GenesisState \in block_states'
              /\ WithBlock(h, [prev_block |-> NoHash, state |-> GenesisState])
            BY <1>e, <2>1, <2>4 DEF EnsureGenesis, StatesWithGenesis
        <3>2. /\ blocks'[h].state = GenesisState
              /\ \A x \in DOMAIN blocks : blocks'[x] = blocks[x]
            <4>. DEFINE b == [prev_block |-> NoHash, state |-> GenesisState]
            <4>1. b \in Block /\ b.state = GenesisState
                BY <1>i, <2>4, OwnGenesis
            <4>2. WithBlock(h, b)
                BY <3>1
            <4>3. DOMAIN blocks \subseteq Hash /\ blocks \in [DOMAIN blocks -> Block]
                BY <1>i DEF TypeInv, TypeOK
            <4>. HIDE DEF b
            <4>4. /\ blocks'[h] = b
                  /\ \A x \in DOMAIN blocks : blocks'[x] = blocks[x]
                BY <4>1, <4>2, <4>3, WithBlockType
            <4>. QED
                BY <4>1, <4>4
        <3>3. GenesisState.signed_transactions = {} /\ ToSet(chain') = {h}
            BY <3>1 DEF GenesisState, ToSet
        <3>. QED
            BY <1>e, <1>i, <2>1, <2>2, <3>1, <3>2, <3>3, KeptFrame
    <2>. QED
        BY <2>3, <2>4
<1>1. ASSUME NEW h \in Hash, NEW t \in Trx, AddTransaction(t, h)
      PROVE  KeptInv'
    BY <1>1, <1>e DEF AddTransaction
<1>2. ASSUME NEW h \in Hash, NEW on \in BOOLEAN, ConfigureGeneration(on, h)
      PROVE  KeptInv'
    <2>1. CASE on
        BY <1>2, <1>e, <2>1 DEF ConfigureGeneration
    <2>2. CASE ~on
        BY <1>2, <1>i, <2>2, KeptFrame DEF ConfigureGeneration
    <2>. QED
        BY <2>1, <2>2
<1>3. ASSUME NEW h \in DOMAIN blocks, AddFullBlock(h)
      PROVE  KeptInv'
    <2>. DEFINE new   == TrxOf(h) \ Known(trx_db)
                db    == trx_db \cup ({PENDING_TRX} \X new)
                known == block_states \cup {blocks[h].state}
    <2>1. db \in SUBSET ((0 .. 2) \X Trx)
        BY Groups, <1>i DEF TypeInv, TypeOK, Block, BlockState, TrxOf
    <2>2. AdoptGenesis(h, db, known) \/ AddBlock(h, db, known, new # {})
        BY <1>3 DEF AddFullBlock
    <2>3. posted' = posted
        BY <1>3 DEF AddFullBlock
    <2>4. /\ Known(trx_db) \subseteq Known(db) /\ block_states \subseteq known
          /\ blocks[h].state \in known
        BY DEF Known
    <2>5. CASE AdoptGenesis(h, db, known)
        <3>1. /\ blocks[h].prev_block = NoHash /\ chain' = <<h>> /\ trx_db' = db
              /\ block_states' = known /\ UNCHANGED <<blocks, work>>
            BY <2>5 DEF AdoptGenesis
        <3>2. TrxOf(h) = {} /\ ToSet(chain') = {h}
            BY <1>i, <3>1 DEF ChainInv, AllBuildOnState, BuildsOnState, TrxOf, ToSet
        <3>. HIDE DEF db, known
        <3>. QED
            BY <1>i, <2>3, <2>4, <3>1, <3>2, KeptFrame DEF TrxOf
    <2>. HIDE DEF new, db, known
    <2>6. CASE AddBlock(h, db, known, new # {})
        BY <1>i, <2>1, <2>3, <2>4, <2>6, AddBlockKept
    <2>. QED
        BY <2>2, <2>5, <2>6
<1>4. ASSUME NEW h \in DOMAIN blocks, GeneratedBlock(h)
      PROVE  KeptInv'
    <2>1. /\ AddBlock(h, trx_db, block_states, FALSE) /\ posted' \subseteq posted
          /\ h \in posted
        BY <1>4 DEF GeneratedBlock
    <2>2. blocks[h].state \in block_states
        BY <2>1 DEF KeptInv, StateKept
    <2>. QED
        BY <1>i, <2>1, <2>2, AddBlockKept
<1>5. CASE SaveChain \/ CommitState
    BY <1>5, <1>i, KeptFrame DEF SaveChain, CommitState, memory, worker
<1>6. CASE SyncDatabases
    <2>1. \/ StartBlock(block_states)
          \/ UNCHANGED <<block_states, work>>
        BY <1>6 DEF SyncDatabases
    <2>2. block_states \subseteq block_states'
          /\ (work' = work \/ work'.state \in block_states')
        BY <2>1, StartBlockKept
    <2>. QED
        BY <1>6, <1>i, <2>2, KeptFrame DEF SyncDatabases
<1>7. ASSUME NEW h \in Hash, Found(h)
      PROVE  KeptInv'
    <2>1. /\ WithBlock(h, work) /\ work \in Block /\ work' = NoWork /\ UNCHANGED memory
          /\ posted' = posted \cup {h} /\ work.state \in block_states
        BY <1>7, <1>i DEF Found, KeptInv, TypeInv, TypeOK
    <2>2. blocks'[h] = work /\ \A x \in DOMAIN blocks : blocks'[x] = blocks[x]
        BY <1>i, <2>1, WithBlockType DEF TypeInv, TypeOK
    <2>. QED
        BY <1>i, <2>1, <2>2, KeptFrame DEF memory
<1>8. CASE GiveUp \/ UNCHANGED vars
    BY <1>8, <1>i, KeptFrame DEF GiveUp, memory, worker, vars
<1>9. ASSUME NEW h \in Hash, NEW p \in DOMAIN blocks \cup {NoHash},
             NEW ts \in SUBSET Trx, Elsewhere(h, p, ts)
      PROVE  KeptInv'
    <2>1. UNCHANGED <<memory, worker>> /\ \A x \in DOMAIN blocks : blocks'[x] = blocks[x]
        BY <1>9 DEF Elsewhere, WithBlock
    <2>. QED
        BY <1>i, <2>1, KeptFrame DEF memory, worker
<1>10. CASE Restart
    <2>1. /\ blocks' = blocks /\ chain' = Synchronized(state_db, state_db)
          /\ posted' = {} /\ work' = NoWork /\ trx_db' = trx_db
          /\ block_states' = block_states
        BY <1>10, <1>i DEF Restart, Open, ChainInv, DiskFollows
    <2>2. state_db \in Seq(DOMAIN blocks) /\ head_trx \in Seq(DOMAIN blocks)
        BY <1>i DEF TypeInv, TypeOK
    <2>3. chain' = state_db /\ chain = state_db \o head_trx
        BY <1>i, <2>1, <2>2, SynchronizedChain DEF ChainInv, StateFollowsChain, log
    <2>4. \A i \in DOMAIN state_db :
              i \in DOMAIN (state_db \o head_trx) /\ (state_db \o head_trx)[i] = state_db[i]
        BY <2>2
    <2>5. ToSet(chain') \subseteq ToSet(chain)
        BY <2>3, <2>4 DEF ToSet
    <2>. QED
        BY <1>i, <2>1, <2>5, KeptFrame
<1>. QED
    BY <1>1, <1>2, <1>3, <1>4, <1>5, <1>6, <1>7, <1>8, <1>9, <1>10 DEF Next, Crash

(* A node that was never opened before has nothing to answer for.          *)
LEMMA KeptInit == Init => FiledInv /\ KeptInv
<1> SUFFICES ASSUME Init PROVE FiledInv /\ KeptInv
    OBVIOUS
<1>1. TypeInv
    BY TypeInit
<1>2. ChainInv
    BY <1>1 DEF Init, ChainInv, StateFollowsChain, log, IsChain, DiskFollows,
        AllBuildOnState, BuildsOnState, NoWork, NoHash
<1>3. GroupInv
    BY <1>1 DEF Init, GroupInv, OneGroup, InOneGroup
<1>4. AppliedIsFiled /\ AppliedOnce
    BY DEF Init, AppliedIsFiled, AppliedOnce, AppliedIn, ToSet, log
<1>5. KeptInv
    BY DEF Init, KeptInv, ToSet
<1>. QED
    BY <1>2, <1>3, <1>4, <1>5 DEF FiledInv

(* The stores that a block is written to one after the other never         *)
(* disagree, and the node can answer for every block of its chain: add_block *)
(* writes each of them before it leaves the block in the next.             *)
THEOREM StoresStayInStep ==
    ASSUME "crash" \notin Faults
    PROVE  Spec => []StoresAgree
<1>1. Init => FiledInv /\ KeptInv
    BY KeptInit
<1>2. FiledInv /\ KeptInv /\ [Next]_vars => (FiledInv /\ KeptInv)'
    BY FiledStep, KeptStep
<1>3. FiledInv /\ KeptInv => StoresAgree
    <2>. SUFFICES ASSUME FiledInv, KeptInv PROVE StoresAgree
        OBVIOUS
    <2>1. TypeOK /\ DiskFollows /\ AppliedIsFiled
        BY DEF FiledInv, ChainInv, TypeInv
    <2>2. Servable
        BY <2>1 DEF KeptInv, StateKept, TrxKept, Servable, ToSet, TypeOK
    <2>. QED
        BY <2>1, <2>2 DEF StoresAgree
<1>. QED
    BY <1>1, <1>2, <1>3, PTL DEF Spec

-----------------------------------------------------------------------------
(***************************************************************************)
(* What a crash would find of the blocks under the head.                   *)
(***************************************************************************)
SyncedInv ==
    saving = "done" =>
        \A x \in ToSet(state_db) :
            /\ blocks[x].state \in disk.block_states
            /\ \A t \in TrxOf(x) : <<APPLIED_TRX, t>> \notin dirty

(* The pairs of the blocks under the head are not written to.              *)
ConfirmedClean == \A t \in Trx : <<APPLIED_TRX, t>> \in dirty' => <<APPLIED_TRX, t>> \in dirty

(* move_transactions writes to the two groups it is given.                 *)
LEMMA ChangedByMove ==
    ASSUME NEW db \in SUBSET ((0 .. 2) \X Trx), NEW ts,
           NEW from \in 0 .. 2, NEW to \in 0 .. 2
    PROVE  Changed(db, Move(db, ts, from, to)) \subseteq {from, to} \X Trx
BY DEF Changed, Move, InGroup

(* A transaction that comes in is written to PENDING.                      *)
LEMMA ChangedByAdding ==
    ASSUME NEW db, NEW ts \in SUBSET Trx
    PROVE  Changed(db, db \cup ({PENDING_TRX} \X ts)) \subseteq {PENDING_TRX} \X Trx
BY DEF Changed

(* So handlers that do not append leave the confirmed transactions alone.  *)
LEMMA DirtiesPending ==
    ASSUME NEW db, NEW mid, Dirties(db, mid),
           Changed(trx_db, db) \subseteq {PENDING_TRX, HEAD_TRX} \X Trx,
           Changed(db, mid) \subseteq {PENDING_TRX, HEAD_TRX} \X Trx,
           Changed(mid, trx_db') \subseteq {PENDING_TRX, HEAD_TRX} \X Trx
    PROVE  ConfirmedClean
<1>1. \A t \in Trx : <<APPLIED_TRX, t>> \notin {PENDING_TRX, HEAD_TRX} \X Trx
    BY GroupsDiffer
<1>. QED
    BY <1>1 DEF Dirties, ConfirmedClean

(* A step that leaves the blocks under the head alone.                     *)
LEMMA SyncedFrame ==
    ASSUME TypeInv, SyncedInv, saving' = "done" => saving = "done",
           \A x \in DOMAIN blocks : blocks'[x] = blocks[x],
           UNCHANGED <<state_db, disk>>, ConfirmedClean
    PROVE  SyncedInv'
<1> SUFFICES ASSUME saving = "done", NEW x \in ToSet(state_db)
             PROVE  /\ blocks'[x].state \in disk.block_states
                    /\ \A t \in blocks'[x].state.signed_transactions :
                           <<APPLIED_TRX, t>> \notin dirty'
    BY DEF SyncedInv, TrxOf, ToSet
<1>1. x \in DOMAIN blocks /\ blocks[x] \in Block
    BY DEF TypeInv, TypeOK, ToSet
<1>2. blocks[x].state.signed_transactions \subseteq Trx
    BY <1>1 DEF Block, BlockState
<1>. QED
    BY <1>1, <1>2 DEF SyncedInv, ConfirmedClean, TrxOf

(* add_block appends and goes on to write, or leaves the confirmed alone.  *)
LEMMA AddBlockSynced ==
    ASSUME TypeInv, SyncedInv, saving = "done", NEW h \in DOMAIN blocks,
           NEW db \in SUBSET ((0 .. 2) \X Trx),
           Changed(trx_db, db) \subseteq {PENDING_TRX} \X Trx,
           NEW known, NEW restart, AddBlock(h, db, known, restart)
    PROVE  SyncedInv'
<1>. DEFINE T == TrxOf(h)
<1>g. PENDING_TRX \in 0 .. 2 /\ HEAD_TRX \in 0 .. 2
    BY GroupsDiffer
<1>1. CASE ExtendHead(h, db, known)
    BY <1>1 DEF ExtendHead, SyncedInv
<1>r. /\ Reopened(h, db) \in SUBSET ((0 .. 2) \X Trx)
      /\ Changed(db, Reopened(h, db)) \subseteq {PENDING_TRX, HEAD_TRX} \X Trx
    <2>. DEFINE back == Move(db, T, HEAD_TRX, PENDING_TRX)
    <2>. HIDE DEF T
    <2>1. back \in SUBSET ((0 .. 2) \X Trx)
        BY <1>g, MoveType
    <2>2. Changed(db, back) \subseteq {HEAD_TRX, PENDING_TRX} \X Trx
        BY <1>g, ChangedByMove
    <2>3. {HEAD_TRX, PENDING_TRX} = {PENDING_TRX, HEAD_TRX}
        OBVIOUS
    <2>4. Reopened(h, db) = back
        BY DEF Reopened, T
    <2>. HIDE DEF back
    <2>. QED
        BY <2>1, <2>2, <2>3, <2>4
<1>m. Changed(Reopened(h, db), Move(Reopened(h, db), T, PENDING_TRX, HEAD_TRX))
          \subseteq {PENDING_TRX, HEAD_TRX} \X Trx
    <2>. HIDE DEF T
    <2>. QED
        BY <1>g, <1>r, ChangedByMove
<1>d. /\ Changed(trx_db, db) \subseteq {PENDING_TRX, HEAD_TRX} \X Trx
      /\ Changed(db, db) \subseteq {PENDING_TRX, HEAD_TRX} \X Trx
    BY DEF Changed
<1>2. CASE ReplaceHead(h, db, known)
    <2>1. /\ trx_db' = Move(Reopened(h, db), T, PENDING_TRX, HEAD_TRX)
          /\ Dirties(db, Reopened(h, db))
          /\ UNCHANGED <<blocks, state_db, disk>>
        BY <1>2 DEF ReplaceHead
    <2>2. ConfirmedClean
        BY <1>d, <1>m, <1>r, <2>1, DirtiesPending
    <2>. QED
        BY <2>1, <2>2, SyncedFrame
<1>3. CASE Refuse(h, db, known, restart)
    <2>1. /\ UNCHANGED <<blocks, state_db, disk>>
          /\ \/ trx_db' = db /\ Dirties(db, db)
             \/ /\ trx_db' = Move(Reopened(h, db), T, PENDING_TRX, HEAD_TRX)
                /\ Dirties(db, Reopened(h, db))
        BY <1>3 DEF Refuse
    <2>2. ConfirmedClean
        BY <1>d, <1>m, <1>r, <2>1, DirtiesPending
    <2>. QED
        BY <2>1, <2>2, SyncedFrame
<1>. QED
    BY <1>1, <1>2, <1>3 DEF AddBlock

(* Every step but a crash keeps what a crash would find.                   *)
LEMMA SyncedStep ==
    ASSUME "crash" \notin Faults
    PROVE  FiledInv /\ KeptInv /\ SyncedInv /\ [Next]_vars => SyncedInv'
<1>. SUFFICES ASSUME FiledInv, KeptInv, SyncedInv, [Next]_vars PROVE SyncedInv'
    OBVIOUS
<1>i. /\ TypeInv /\ ChainInv /\ trx_db \in SUBSET ((0 .. 2) \X Trx)
      /\ state_db \in Seq(DOMAIN blocks) /\ head_trx \in Seq(DOMAIN blocks)
    BY DEF FiledInv, ChainInv, TypeInv, TypeOK
<1>e. ASSUME NEW h \in Hash, EnsureGenesis(h)
      PROVE  \A x \in DOMAIN blocks : blocks'[x] = blocks[x]
    BY <1>e DEF EnsureGenesis, WithBlock
<1>k. \A x \in ToSet(state_db) : blocks[x].state \in block_states
    <2>1. \A i \in DOMAIN state_db : /\ i \in DOMAIN (state_db \o head_trx)
                                    /\ (state_db \o head_trx)[i] = state_db[i]
        BY <1>i
    <2>2. chain = state_db \o head_trx
        BY <1>i DEF ChainInv, StateFollowsChain, log
    <2>3. ToSet(state_db) \subseteq ToSet(chain)
        BY <2>1, <2>2 DEF ToSet
    <2>. QED
        BY <2>3 DEF KeptInv, StateKept
<1>1. ASSUME NEW h \in Hash, NEW t \in Trx, AddTransaction(t, h)
      PROVE  SyncedInv'
    <2>1. /\ trx_db' = trx_db \cup ({PENDING_TRX} \X {t})
          /\ Dirties(trx_db, trx_db) /\ saving = "done"
          /\ UNCHANGED <<state_db, disk>> /\ EnsureGenesis(h)
        BY <1>1 DEF AddTransaction
    <2>2. /\ Changed(trx_db, trx_db) \subseteq {PENDING_TRX, HEAD_TRX} \X Trx
          /\ Changed(trx_db, trx_db') \subseteq {PENDING_TRX, HEAD_TRX} \X Trx
        BY <2>1, ChangedByAdding DEF Changed
    <2>3. ConfirmedClean
        BY <2>1, <2>2, DirtiesPending
    <2>. QED
        BY <1>e, <1>i, <2>1, <2>3, SyncedFrame
<1>2. ASSUME NEW h \in Hash, NEW on \in BOOLEAN, ConfigureGeneration(on, h)
      PROVE  SyncedInv'
    <2>1. \A x \in DOMAIN blocks : blocks'[x] = blocks[x]
        BY <1>2, <1>e DEF ConfigureGeneration
    <2>. QED
        BY <1>2, <1>i, <2>1, SyncedFrame DEF ConfigureGeneration, ConfirmedClean
<1>3. ASSUME NEW h \in DOMAIN blocks, AddFullBlock(h)
      PROVE  SyncedInv'
    <2>. DEFINE new   == TrxOf(h) \ Known(trx_db)
                db    == trx_db \cup ({PENDING_TRX} \X new)
                known == block_states \cup {blocks[h].state}
    <2>0. new \in SUBSET Trx
        BY <1>i DEF TypeInv, TypeOK, Block, BlockState, TrxOf
    <2>1. db \in SUBSET ((0 .. 2) \X Trx)
        BY Groups, <1>i, <2>0
    <2>2. /\ AdoptGenesis(h, db, known) \/ AddBlock(h, db, known, new # {})
          /\ saving = "done"
        BY <1>3 DEF AddFullBlock
    <2>3. Changed(trx_db, db) \subseteq {PENDING_TRX} \X Trx
        <3>. HIDE DEF new
        <3>. QED
            BY <2>0, ChangedByAdding
    <2>. HIDE DEF new, db, known
    <2>4. CASE AdoptGenesis(h, db, known)
        <3>1. /\ UNCHANGED <<blocks, state_db, disk>>
              /\ trx_db' = db /\ Dirties(db, db)
            BY <2>4 DEF AdoptGenesis
        <3>2. /\ Changed(trx_db, db) \subseteq {PENDING_TRX, HEAD_TRX} \X Trx
              /\ Changed(db, db) \subseteq {PENDING_TRX, HEAD_TRX} \X Trx
            BY <2>3 DEF Changed
        <3>3. ConfirmedClean
            BY <3>1, <3>2, DirtiesPending
        <3>. QED
            BY <1>i, <2>2, <3>1, <3>3, SyncedFrame
    <2>5. CASE AddBlock(h, db, known, new # {})
        BY <1>i, <2>1, <2>2, <2>3, <2>5, AddBlockSynced
    <2>. QED
        BY <2>2, <2>4, <2>5
<1>4. ASSUME NEW h \in DOMAIN blocks, GeneratedBlock(h)
      PROVE  SyncedInv'
    <2>1. AddBlock(h, trx_db, block_states, FALSE) /\ saving = "done"
        BY <1>4 DEF GeneratedBlock
    <2>2. Changed(trx_db, trx_db) \subseteq {PENDING_TRX} \X Trx
        BY DEF Changed
    <2>. QED
        BY <1>i, <2>1, <2>2, AddBlockSynced
<1>5. CASE SaveChain \/ CommitState
    BY <1>5 DEF SaveChain, CommitState, SyncedInv
<1>6. CASE SyncDatabases
    <2>1. /\ UNCHANGED <<blocks, state_db>> /\ dirty' = {}
          /\ disk'.block_states = block_states
        BY <1>6, <1>i DEF SyncDatabases, TypeInv, TypeOK
    <2>. QED
        BY <1>k, <2>1 DEF SyncedInv, TrxOf, ToSet
<1>7. CASE \/ \E h \in Hash : Found(h)
           \/ GiveUp
           \/ \E h \in Hash, p \in DOMAIN blocks \cup {NoHash}, ts \in SUBSET Trx :
                  Elsewhere(h, p, ts)
           \/ UNCHANGED vars
    <2>1. \A x \in DOMAIN blocks : blocks'[x] = blocks[x]
        BY <1>7 DEF Found, GiveUp, Elsewhere, WithBlock, vars
    <2>2. UNCHANGED <<state_db, disk, saving, dirty>>
        BY <1>7 DEF Found, GiveUp, Elsewhere, memory, vars
    <2>. QED
        BY <1>i, <2>1, <2>2, SyncedFrame DEF ConfirmedClean
<1>8. CASE Restart
    <2>1. /\ UNCHANGED <<blocks, state_db>> /\ dirty' = {}
          /\ disk'.block_states = block_states
        BY <1>8, <1>i DEF Restart, Open, ChainInv, DiskFollows, TypeInv, TypeOK
    <2>. QED
        BY <1>k, <2>1 DEF SyncedInv, TrxOf, ToSet
<1>. QED
    BY <1>1, <1>2, <1>3, <1>4, <1>5, <1>6, <1>7, <1>8 DEF Next, Crash

(* Without a crash so far, a crash that comes while no block is being      *)
(* written finds the confirmed transactions filed and the states of their  *)
(* blocks: nothing a replacement or a refusal moves is one of them.        *)
THEOREM CrashFindsConfirmed ==
    ASSUME "crash" \notin Faults
    PROVE  Spec => []ConfirmedIsSynced
<1>1. Init => FiledInv /\ KeptInv /\ SyncedInv
    BY KeptInit DEF Init, SyncedInv, ToSet
<1>2. FiledInv /\ KeptInv /\ SyncedInv /\ [Next]_vars
          => (FiledInv /\ KeptInv /\ SyncedInv)'
    BY FiledStep, KeptStep, SyncedStep
<1>3. FiledInv /\ SyncedInv => ConfirmedIsSynced
    <2>. SUFFICES ASSUME FiledInv, SyncedInv, saving = "done"
                  PROVE  /\ {APPLIED_TRX} \X AppliedIn(state_db) \subseteq trx_db \ dirty
                         /\ \A i \in 1 .. Len(state_db) :
                                blocks[state_db[i]].state \in disk.block_states
        BY DEF ConfirmedIsSynced
    <2>1. \A i \in 1 .. Len(state_db) : state_db[i] \in ToSet(state_db)
        BY DEF ToSet
    <2>2. \A t \in AppliedIn(state_db) : <<APPLIED_TRX, t>> \in trx_db \ dirty
        BY DEF FiledInv, AppliedIsFiled, InGroup, SyncedInv, AppliedIn
    <2>. QED
        BY <2>1, <2>2 DEF SyncedInv
<1>. QED
    BY <1>1, <1>2, <1>3, PTL DEF Spec
=============================================================================
