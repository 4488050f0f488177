-------------------------------- MODULE Node --------------------------------
(***************************************************************************)
(* A node (libs/gpm/node): its block chain, the groups of its transaction  *)
(* database, the layers of its state database, the block it is generating  *)
(* and what of all that is on disk.  The main thread runs one handler at a *)
(* time; a worker thread hashes the candidate block and posts the one it   *)
(* finds to the main thread; other nodes build blocks and send them.       *)
(*                                                                         *)
(* A block is named by its hash, a number, so hashes compare as numbers.   *)
(* A state is the sequence of blocks its log was built from: the log is a  *)
(* function of them, and calculate_state_hash stands for it.               *)
(***************************************************************************)
EXTENDS Integers, FiniteSets, SequencesExt

CONSTANTS
    NumTrx,    \* transactions are 1 .. NumTrx in the order of utc_time
    Needs,     \* those a transaction can only be applied after
    Clashes,   \* those a transaction cannot be applied after
    MaxBlock,  \* bound: the blocks anybody ever generates
    Faults     \* which of "restart", "crash" and "late" may happen

Trx == 1 .. NumTrx
Hash == 1 .. MaxBlock
NoHash == 0

ASSUME TrxAssumption ==
    /\ NumTrx \in Nat /\ MaxBlock \in Nat
    /\ Needs \in [Trx -> SUBSET Trx]
    /\ Clashes \in [Trx -> SUBSET Trx]
    /\ Faults \subseteq {"restart", "crash", "late"}

PENDING_TRX == 0
HEAD_TRX    == 1
APPLIED_TRX == 2

VARIABLES
    blocks,        \* every block generated so far, by hash
    chain,         \* m_block_chain
    state_db,      \* m_state_db: file and file cache
    head_trx,      \* m_head_trx: the layer of the head block
    gen_trx,       \* m_gen_trx: the pending transactions it has applied
    trx_db,        \* m_trx_db: its keys, pairs of a group and a transaction
    dirty,         \* those set or removed since m_trx_db was synchronised
    block_states,  \* m_block_state_db
    generating,    \* m_gen_enabled
    work,          \* what the worker thread is hashing
    posted,        \* generated_block events in the main thread's queue
    saving,        \* how far add_block is in writing to disk
    disk           \* what is written of the other stores

memory == <<chain, state_db, head_trx, gen_trx, trx_db, dirty, block_states>>
worker == <<generating, work, posted>>
vars == <<blocks, memory, worker, saving, disk>>

BlockState == [state_db : Seq(Hash), signed_transactions : SUBSET Trx]
Block == [prev_block : Hash \cup {NoHash}, state : BlockState]
NoWork == [prev_block |-> NoHash,
           state |-> [state_db |-> << >>, signed_transactions |-> {}]]

-----------------------------------------------------------------------------
TrxOf(h) == blocks[h].state.signed_transactions

(* The state of the head, and the transactions applied in a state.         *)
log == state_db \o head_trx
AppliedIn(s) == UNION {TrxOf(h) : h \in ToSet(s)}

(* apply(signed_transaction), on a state where S has been applied.         *)
Applies(t, S) == Needs[t] \subseteq S /\ Clashes[t] \cap S = {}

(* Of ts, those that apply one after the other by utc_time, each after the *)
(* earlier ones that did.  (Exactly one set c is so.)                      *)
Selected(S, ts) ==
    UNION {c \in SUBSET ts :
               \A t \in ts : t \in c <=> Applies(t, S \cup {u \in c : u < t})}

(* apply(block), on state s: every transaction applies and the state has   *)
(* the hash the block promises.                                            *)
BlockApplies(h, s) ==
    /\ blocks[h].state.state_db = s
    /\ Selected(AppliedIn(s), TrxOf(h)) = TrxOf(h)

InGroup(db, g) == {t \in Trx : <<g, t>> \in db}
Known(db) == {t \in Trx : \E g \in 0 .. 2 : <<g, t>> \in db}

(* (A slip for the checks to catch: the old group keeps them.)             *)
CopyToGroup(db, ts, from, to) ==
    db \cup ({to} \X (ts \cap InGroup(db, from)))

(* move_transactions: those of ts that are in one group go to another,     *)
(* each by a set and a remove.                                             *)
Move(db, ts, from, to) ==
    LET m == ts \cap InGroup(db, from)
    IN  (db \ ({from} \X m)) \cup ({to} \X m)

(* The pairs that differ, and what becomes dirty as m_trx_db goes from     *)
(* what it was to db, to mid and to what it is then.                       *)
Changed(a, b) == (a \ b) \cup (b \ a)

Dirties(db, mid) ==
    dirty' = dirty \cup Changed(trx_db, db) \cup Changed(db, mid)
                   \cup Changed(mid, trx_db')

WithBlock(h, b) ==
    /\ h \notin DOMAIN blocks
    /\ blocks' = [x \in DOMAIN blocks \cup {h} |->
                      IF x = h THEN b ELSE blocks[x]]

-----------------------------------------------------------------------------
Init ==
    /\ blocks = [h \in {} |-> NoWork]
    /\ chain = << >> /\ state_db = << >> /\ head_trx = << >> /\ gen_trx = {}
    /\ trx_db = {} /\ dirty = {} /\ block_states = {}
    /\ generating = FALSE /\ work = NoWork /\ posted = {}
    /\ saving = "done"
    /\ disk = [chain |-> << >>, state_db |-> << >>, block_states |-> {}]

(* create_gen_block, after its caller fixed the chain, the state and the   *)
(* transactions: every pending transaction that applies goes in a block on *)
(* the head.                                                               *)
Candidate ==
    [prev_block |-> Last(chain),
     state |-> [state_db |-> log,
                signed_transactions |->
                    Selected(AppliedIn(log), InGroup(trx_db, PENDING_TRX))]]

CreateGenBlock(known) ==
    /\ gen_trx' = Candidate'.state.signed_transactions
    /\ block_states' = known \cup {Candidate'.state}

(* start_block: the worker drops the last candidate for the new one.       *)
StartBlock(known) == CreateGenBlock(known) /\ work' = Candidate'

(* An empty chain first gets a genesis block of the node's own.            *)
GenesisState == [state_db |-> state_db, signed_transactions |-> {}]

StatesWithGenesis ==
    IF chain = << >> THEN block_states \cup {GenesisState} ELSE block_states

EnsureGenesis(h) ==
    IF chain # << >> THEN UNCHANGED <<blocks, chain, head_trx>>
    ELSE /\ WithBlock(h, [prev_block |-> NoHash, state |-> GenesisState])
         /\ chain' = <<h>>
         /\ head_trx' = IF head_trx = << >> THEN <<h>> ELSE head_trx

AddTransaction(t, h) ==
    /\ saving = "done"
    /\ t \notin Known(trx_db)
    /\ trx_db' = trx_db \cup {<<PENDING_TRX, t>>}
    /\ Dirties(trx_db, trx_db)
    /\ EnsureGenesis(h)
    /\ UNCHANGED <<state_db, generating, posted, saving, disk>>
    /\ IF generating THEN StartBlock(StatesWithGenesis)
       ELSE CreateGenBlock(StatesWithGenesis) /\ UNCHANGED work

ConfigureGeneration(on, h) ==
    /\ saving = "done"
    /\ generating' = on
    /\ UNCHANGED <<state_db, trx_db, dirty, posted, saving, disk>>
    /\ IF on THEN EnsureGenesis(h) /\ StartBlock(StatesWithGenesis)
       ELSE UNCHANGED <<blocks, chain, head_trx, gen_trx, block_states, work>>

-----------------------------------------------------------------------------
(***************************************************************************)
(* add_block of block h, for a transaction database db and known states:   *)
(* the chain grows, the head gives way to a sibling with a lower hash, or  *)
(* the block is refused.                                                   *)
(***************************************************************************)
Extends(h) == chain # << >> /\ blocks[h].prev_block = Last(chain)

Appends(h, db) ==
    /\ Extends(h)
    /\ TrxOf(h) \subseteq InGroup(db, PENDING_TRX)
    /\ BlockApplies(h, log)

ExtendHeadPending(h, db, known) ==
    /\ Appends(h, db)
    /\ trx_db' = Move(db, Trx, HEAD_TRX, APPLIED_TRX)
    /\ Dirties(db, db)
    /\ chain' = Append(chain, h) /\ state_db' = log /\ head_trx' = <<h>>
    /\ gen_trx' = {} /\ block_states' = known /\ saving' = "chain"
    /\ UNCHANGED <<blocks, generating, work, disk>>

(* HEAD's transactions become confirmed and the block's become HEAD's.     *)
(* Writing to disk, and then start_block, are the steps of `saving'.       *)
ExtendHead(h, db, known) ==
    /\ Appends(h, db)
    /\ trx_db' = Move(Move(db, Trx, HEAD_TRX, APPLIED_TRX),
                      TrxOf(h), PENDING_TRX, HEAD_TRX)
    /\ Dirties(db, Move(db, Trx, HEAD_TRX, APPLIED_TRX))
    /\ chain' = Append(chain, h)
    /\ state_db' = log
    /\ head_trx' = <<h>>
    /\ gen_trx' = {}
    /\ block_states' = known
    /\ saving' = "chain"
    /\ UNCHANGED <<blocks, generating, work, disk>>

(* (A slip: a sibling with any hash wins.)                                 *)
MayReplaceAny(h) ==
    /\ chain # << >>
    /\ blocks[h].prev_block # Last(chain)
    /\ blocks[h].prev_block = blocks[Last(chain)].prev_block
    /\ h # Last(chain)

MayReplace(h) ==
    /\ chain # << >>
    /\ blocks[h].prev_block # Last(chain)
    /\ blocks[h].prev_block = blocks[Last(chain)].prev_block
    /\ h < Last(chain)

(* get_head_transactions already sees the new head, so it is the new       *)
(* block's transactions that go back from HEAD to PENDING.                 *)
Reopened(h, db) == Move(db, TrxOf(h), HEAD_TRX, PENDING_TRX)

Replaces(h, db) ==
    /\ MayReplace(h)
    /\ TrxOf(h) \subseteq InGroup(Reopened(h, db), PENDING_TRX)
    /\ BlockApplies(h, state_db)

(* (Slips: the old head's layer is not undone; the worker goes on with a   *)
(* block on the old head.)                                                 *)
ReplaceHeadOnTop(h, db, known) ==
    /\ Replaces(h, db)
    /\ trx_db' = Move(Reopened(h, db), TrxOf(h), PENDING_TRX, HEAD_TRX)
    /\ Dirties(db, Reopened(h, db))
    /\ chain' = Append(Front(chain), h)
    /\ head_trx' = Append(head_trx, h)
    /\ UNCHANGED <<blocks, state_db, generating, saving, disk>>
    /\ gen_trx' = {} /\ block_states' = known /\ UNCHANGED work

ReplaceHead(h, db, known) ==
    /\ Replaces(h, db)
    /\ trx_db' = Move(Reopened(h, db), TrxOf(h), PENDING_TRX, HEAD_TRX)
    /\ Dirties(db, Reopened(h, db))
    /\ chain' = Append(Front(chain), h)
    /\ head_trx' = <<h>>
    /\ UNCHANGED <<blocks, state_db, generating, saving, disk>>
    /\ IF generating THEN StartBlock(known)
       ELSE gen_trx' = {} /\ block_states' = known /\ UNCHANGED work

(* A sibling refused after validate leaves those of its transactions that  *)
(* are pending in the HEAD group; one from the future is refused before.   *)
Refuse(h, db, known, restart) ==
    /\ \/ /\ ~Appends(h, db) /\ ~Replaces(h, db)
          /\ \/ ~MayReplace(h) /\ trx_db' = db /\ Dirties(db, db)
             \/ /\ MayReplace(h)
                /\ trx_db' = Move(Reopened(h, db), TrxOf(h), PENDING_TRX, HEAD_TRX)
                /\ Dirties(db, Reopened(h, db))
       \/ "late" \in Faults /\ trx_db' = db /\ Dirties(db, db)
    /\ UNCHANGED <<blocks, chain, state_db, head_trx, generating, saving, disk>>
    /\ IF restart /\ generating THEN StartBlock(known)
       ELSE block_states' = known /\ UNCHANGED <<gen_trx, work>>

AddBlock(h, db, known, restart) ==
    \/ ExtendHead(h, db, known)
    \/ ReplaceHead(h, db, known)
    \/ Refuse(h, db, known, restart)

(* (A slip: the block_state that came with a genesis block is dropped.)    *)
AdoptGenesisStateless(h, db, known) ==
    /\ chain = << >>
    /\ blocks[h].prev_block = NoHash
    /\ chain' = <<h>>
    /\ head_trx' = IF log = blocks[h].state.state_db THEN Append(head_trx, h)
                   ELSE head_trx
    /\ trx_db' = db /\ Dirties(db, db)
    /\ UNCHANGED <<blocks, state_db, gen_trx, block_states, generating, work,
                   saving, disk>>

(* The first block of another node's chain, taken over by an empty one.    *)
AdoptGenesis(h, db, known) ==
    /\ chain = << >>
    /\ blocks[h].prev_block = NoHash
    /\ chain' = <<h>>
    /\ head_trx' = IF log = blocks[h].state.state_db THEN Append(head_trx, h)
                   ELSE head_trx
    /\ trx_db' = db /\ Dirties(db, db)
    /\ block_states' = known
    /\ UNCHANGED <<blocks, state_db, gen_trx, generating, work, saving, disk>>

(* A block another node sends, with its transactions and its block_state.  *)
AddFullBlock(h) ==
    LET new   == TrxOf(h) \ Known(trx_db)
        db    == trx_db \cup ({PENDING_TRX} \X new)
        known == block_states \cup {blocks[h].state}
    IN  /\ saving = "done"
        /\ UNCHANGED posted
        /\ \/ AdoptGenesis(h, db, known)
           \/ /\ ~(chain = << >> /\ blocks[h].prev_block = NoHash)
              /\ AddBlock(h, db, known, new # {})

GeneratedBlock(h) ==
    /\ saving = "done"
    /\ h \in posted
    /\ posted' = posted \ {h}
    /\ AddBlock(h, trx_db, block_states, FALSE)

-----------------------------------------------------------------------------
(* The rest of appending a block: the chain without its head, the state    *)
(* without the head's layer, and the databases, in this order.             *)
SaveChain ==
    /\ saving = "chain"
    /\ saving' = "state"
    /\ disk' = [disk EXCEPT !.chain = Front(chain)]
    /\ UNCHANGED <<blocks, memory, worker>>

CommitState ==
    /\ saving = "state"
    /\ saving' = "databases"
    /\ disk' = [disk EXCEPT !.state_db = state_db]
    /\ UNCHANGED <<blocks, memory, worker>>

(* (Slips: the worker is not told of the new head; m_trx_db is not         *)
(* synchronised.)                                                          *)
SyncDatabasesOldWork ==
    /\ saving = "databases"
    /\ saving' = "done"
    /\ disk' = [disk EXCEPT !.block_states = block_states] /\ dirty' = {}
    /\ UNCHANGED <<blocks, chain, state_db, head_trx, trx_db, generating, posted>>
    /\ UNCHANGED <<gen_trx, block_states, work>>

SyncDatabasesOfStates ==
    /\ saving = "databases"
    /\ saving' = "done"
    /\ disk' = [disk EXCEPT !.block_states = block_states] /\ UNCHANGED dirty
    /\ UNCHANGED <<blocks, chain, state_db, head_trx, trx_db, generating, posted>>
    /\ IF generating THEN StartBlock(block_states)
       ELSE UNCHANGED <<gen_trx, block_states, work>>

(* A crash within or between the two calls of sync leaves what one before  *)
(* them may leave: any part of what is to be written.                      *)
SyncDatabases ==
    /\ saving = "databases"
    /\ saving' = "done"
    /\ disk' = [disk EXCEPT !.block_states = block_states] /\ dirty' = {}
    /\ UNCHANGED <<blocks, chain, state_db, head_trx, trx_db, generating, posted>>
    /\ IF generating THEN StartBlock(block_states)
       ELSE UNCHANGED <<gen_trx, block_states, work>>

-----------------------------------------------------------------------------
(* The worker finds a nonce, or gives up once it is told to stop.          *)
Found(h) ==
    /\ work # NoWork
    /\ WithBlock(h, work)
    /\ posted' = posted \cup {h}
    /\ work' = NoWork
    /\ UNCHANGED <<memory, generating, saving, disk>>

GiveUp ==
    /\ work # NoWork /\ ~generating
    /\ work' = NoWork
    /\ UNCHANGED <<blocks, memory, generating, posted, saving, disk>>

(* Another node generates a block, on a chain any node would accept.       *)
IsChain(s) ==
    \A i \in 1 .. Len(s) :
        blocks[s[i]].prev_block = IF i = 1 THEN NoHash ELSE s[i - 1]

Elsewhere(h, p, ts) ==
    LET s == IF p = NoHash THEN << >> ELSE Append(blocks[p].state.state_db, p)
    IN  /\ h \notin DOMAIN blocks
        /\ IsChain(s)
        /\ p = NoHash => ts = {}
        /\ ts \cap AppliedIn(s) = {}
        /\ Selected(AppliedIn(s), ts) = ts
        /\ WithBlock(h, [prev_block |-> p,
                         state |-> [state_db |-> s, signed_transactions |-> ts]])
        /\ UNCHANGED <<memory, worker, saving, disk>>

-----------------------------------------------------------------------------
(***************************************************************************)
(* open, on what is on disk.  synchronize_state cuts the chain after the   *)
(* last block built on the same block as the last of the state, if any.    *)
(***************************************************************************)
Synchronized(c, s) ==
    LET b == IF s = << >> THEN NoHash ELSE blocks[Last(s)].prev_block
        same == {i \in 1 .. Len(c) : blocks[c[i]].prev_block = b}
    IN  IF same = {} THEN c ELSE SubSeq(c, 1, Max(same))

Open(db, states) ==
    /\ chain' = Synchronized(disk.chain, disk.state_db)
    /\ state_db' = disk.state_db
    /\ head_trx' = << >>
    /\ gen_trx' = {}
    /\ trx_db' = db
    /\ block_states' = states
    /\ generating' = FALSE
    /\ work' = NoWork
    /\ posted' = {}
    /\ saving' = "done"
    /\ dirty' = {}
    /\ disk' = [disk EXCEPT !.block_states = states]
    /\ UNCHANGED blocks

(* A clean exit closes the databases; the head stays behind in memory.     *)
Restart ==
    /\ "restart" \in Faults
    /\ saving = "done"
    /\ Open(trx_db, block_states)

(* The databases have no log and no transactions, and their pages may      *)
(* reach the disk at any time: after a crash, also one amid a handler,     *)
(* each dirty pair is there or not, and each new state.                    *)
Crash ==
    /\ "crash" \in Faults
    /\ \E written \in SUBSET dirty,
          lost \in SUBSET (block_states \ disk.block_states) :
        Open((trx_db \ dirty) \cup written, block_states \ lost)

Next ==
    \/ \E h \in Hash, t \in Trx : AddTransaction(t, h)
    \/ \E h \in Hash, on \in BOOLEAN : ConfigureGeneration(on, h)
    \/ \E h \in DOMAIN blocks : AddFullBlock(h) \/ GeneratedBlock(h)
    \/ SaveChain
    \/ CommitState
    \/ SyncDatabases
    \/ \E h \in Hash : Found(h)
    \/ GiveUp
    \/ \E h \in Hash, p \in DOMAIN blocks \cup {NoHash}, ts \in SUBSET Trx :
           Elsewhere(h, p, ts)
    \/ Restart
    \/ Crash

Spec == Init /\ [][Next]_vars

-----------------------------------------------------------------------------
TypeOK ==
    /\ DOMAIN blocks \subseteq Hash
    /\ blocks \in [DOMAIN blocks -> Block]
    /\ chain \in Seq(DOMAIN blocks)
    /\ state_db \in Seq(DOMAIN blocks)
    /\ head_trx \in Seq(DOMAIN blocks)
    /\ gen_trx \subseteq Trx
    /\ trx_db \subseteq (0 .. 2) \X Trx
    /\ dirty \subseteq (0 .. 2) \X Trx
    /\ block_states \subseteq BlockState
    /\ generating \in BOOLEAN
    /\ work \in Block \cup {NoWork}
    /\ posted \subseteq DOMAIN blocks
    /\ saving \in {"done", "chain", "state", "databases"}
    /\ disk \in [chain : Seq(DOMAIN blocks), state_db : Seq(DOMAIN blocks),
                block_states : SUBSET BlockState]

(* The state is the one the chain's blocks lead to, whatever was appended, *)
(* replaced, refused or reopened.                                          *)
StateFollowsChain == log = chain /\ IsChain(chain)

(* The blocks and the state a restart would read from disk agree with each *)
(* other, and with the memory once add_block has written them.             *)
DiskFollows ==
    /\ saving # "done" => state_db = Front(chain)
    /\ saving # "chain" => disk.chain = state_db
    /\ saving \in {"done", "databases"} => disk.state_db = state_db

(* "Transactions are sorted by state: 0) Not yet applied in any generated  *)
(* block 1) Applied in the head 2) Applied and confirmed": each has one.   *)
OneGroup == \A t \in Trx : \A g, k \in 0 .. 2 :
    <<g, t>> \in trx_db /\ <<k, t>> \in trx_db => g = k

(* The transactions of the head are filed as such, and those of the blocks *)
(* under it as confirmed, so that no block is accepted that has them too.  *)
AppliedIsFiled ==
    /\ AppliedIn(head_trx) \subseteq InGroup(trx_db, HEAD_TRX)
    /\ AppliedIn(state_db) \subseteq InGroup(trx_db, APPLIED_TRX)

(* No transaction is applied by two blocks, though apply itself never      *)
(* looks for one it has applied before.                                    *)
AppliedOnce ==
    \A i, j \in 1 .. Len(log) :
        i # j => TrxOf(log[i]) \cap TrxOf(log[j]) = {}

(* A generating node works on a child of its head, on its head's state.    *)
WorkIsCurrent ==
    generating /\ saving = "done" /\ work # NoWork =>
        work.prev_block = Last(chain) /\ work.state.state_db = log

(* Everything get_full_block needs to answer for a block of the chain.     *)
Servable ==
    \A i \in 1 .. Len(chain) :
        /\ blocks[chain[i]].state \in block_states
        /\ TrxOf(chain[i]) \subseteq Known(trx_db)

(* The stores a block is written to one after the other agree: chain and   *)
(* state, with the transactions' groups and with the block states.         *)
StoresAgree == TypeOK /\ DiskFollows /\ AppliedIsFiled /\ Servable

(* When no block is being written, a crash would find every transaction of *)
(* the blocks under the head filed as confirmed, and the states of those   *)
(* blocks: whatever replacements and refusals have moved since is not      *)
(* theirs.                                                                 *)
ConfirmedIsSynced ==
    saving = "done" =>
        /\ {APPLIED_TRX} \X AppliedIn(state_db) \subseteq trx_db \ dirty
        /\ \A i \in 1 .. Len(state_db) :
               blocks[state_db[i]].state \in disk.block_states

(* Only the head is ever given up, for a block with a lower hash, or in a  *)
(* restart.                                                                *)
ConfirmedStep ==
    LET n == Len(chain') IN
    \/ IsPrefix(chain, chain')
    \/ /\ n = Len(chain) /\ Front(chain') = Front(chain)
       /\ chain'[n] < chain[n]
    \/ IsPrefix(chain', chain) /\ n >= Len(chain) - 1 /\ generating' = FALSE

ConfirmedStays == [][ConfirmedStep]_vars
=============================================================================
