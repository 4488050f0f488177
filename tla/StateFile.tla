------------------------------ MODULE StateFile ------------------------------
(***************************************************************************)
(* The state database's log on disk (libs/gpm/statedb): the file the       *)
(* records are in and its position, the two index databases, the layers of *)
(* the file cache, of the head and of the block that is being applied, and *)
(* the hash of all that every block has to match.                          *)
(*                                                                         *)
(* Modules StateDatabase and Node say which records and blocks there are;  *)
(* here a block is any records, its hash matches or not, and what counts   *)
(* is where they are written and found again.  A record is one cell of the *)
(* file; its position is its ordinal, from 1; the file's position is the   *)
(* number of records before it.  (Position 0 of the real file is never a   *)
(* name's: a block's or a transaction's own record comes first.)           *)
(***************************************************************************)
EXTENDS Integers, FiniteSets, SequencesExt, FiniteSetsExt

CONSTANTS
    Name,
    Account,   \* pairs of a name and a stock
    Chunk,     \* records a chunk of the hash holds (1 MB)
    MaxLog,    \* bound: the records of the log
    MayCrash

ASSUME BoundAssumption ==
    /\ Account \subseteq Name \X Name
    /\ Chunk \in Nat \ {0} /\ MaxLog \in Nat /\ MayCrash \in BOOLEAN

ASSUME KeyAssumption == Name \cap Account = {}

VARIABLES
    file,   \* what the process reads in the file
    pos,    \* the FILE's position
    db,     \* m_name_db and m_transfer_db
    disk,   \* what is synchronised of them
    state,  \* m_state_db's local changes
    head,   \* m_head_trx
    trx,    \* the layer of the block that is being applied
    over,   \* what that is on: the head, or the state if it replaces the head
    step,   \* what the main thread is at
    again,  \* whether add_block is at its second commit of m_state_db
    at,     \* calculate_state_hash: pos
    got,    \* and r
    harmed  \* history: a crash lost what had been committed

disks == <<file, pos, db, disk>>
layers == <<state, head, trx, over>>
hashing == <<at, got>>
vars == <<disks, layers, step, again, hashing, harmed>>

Key == Name \cup Account
None == 0

Records == [id : {"define_name"}, edits : {{n} : n \in Name}]
           \cup [id : {"transfer_log"}, edits : {{a} : a \in Account}]
EndBlock == [id |-> "end_block", edits |-> {}]

NoIndex == [k \in {} |-> None]
EmptyLayer == [log |-> << >>, last |-> NoIndex]

(* The layers below the block's.                                           *)
StateLog == file \o state.log
Below == IF over = "head" THEN StateLog \o head.log ELSE StateLog
Log == Below \o trx.log
Size == Len(Log)

(* An index over another one: what it does not have is looked up below.    *)
Above(f, g) ==
    [k \in DOMAIN f \cup DOMAIN g |-> IF k \in DOMAIN f THEN f[k] ELSE g[k]]

StateIndex == Above(state.last, db)
BelowIndex == IF over = "head" THEN Above(head.last, StateIndex) ELSE StateIndex
Index == Above(trx.last, BelowIndex)

PushedIndexed(l, r, p) ==
    [log  |-> Append(l.log, [id |-> r.id, edits |-> r.edits, previous |-> p]),
     last |-> Above([k \in r.edits |-> Len(l.log) + 1], l.last)]

(* append_record at p, its own position, which it ends with.               *)
Pushed(l, r, p) ==
    [log  |-> Append(l.log, [id |-> r.id, edits |-> r.edits, previous |-> p]),
     last |-> Above([k \in r.edits |-> p], l.last)]

Joined(l, m) == [log |-> l.log \o m.log, last |-> Above(m.last, l.last)]

-----------------------------------------------------------------------------
Init ==
    /\ file = << >> /\ pos = 0
    /\ db = NoIndex /\ disk = NoIndex
    /\ state = EmptyLayer /\ head = EmptyLayer /\ trx = EmptyLayer
    /\ over = "state" /\ step = "idle" /\ again = FALSE
    /\ at = 0 /\ got = 0 /\ harmed = FALSE

(* A query, or a command that is being applied, reads the record k's index *)
(* names.                                                                  *)
Look(k) ==
    /\ step \in {"idle", "apply"}
    /\ k \in DOMAIN Index
    /\ pos' = IF Index[k] <= Len(file) THEN Index[k] ELSE pos
    /\ UNCHANGED <<file, db, disk, layers, step, again, hashing, harmed>>

(* add_block of a block on the head, or in its place; the genesis block is *)
(* one that takes the place of none.                                       *)
BeginBlock(u) ==
    /\ step = "idle" /\ step' = "apply"
    /\ over' = u
    /\ UNCHANGED <<disks, state, head, trx, again, hashing, harmed>>

(* A transfer names its accounts by what their names' records are found at.*)
AppendRecord(r) ==
    /\ step = "apply"
    /\ Size + 1 < MaxLog
    /\ \A n, s \in Name :
           r = [id |-> "transfer_log", edits |-> {<<n, s>>}] => {n, s} \subseteq DOMAIN Index
    /\ trx' = Pushed(trx, r, Size + 1)
    /\ UNCHANGED <<disks, state, head, over, step, again, hashing, harmed>>

DropBlock ==
    /\ step' = "idle" /\ trx' = EmptyLayer /\ over' = "head"
    /\ at' = 0 /\ got' = 0
    /\ UNCHANGED <<disks, state, head, again, harmed>>

CommandFails == step = "apply" /\ DropBlock

-----------------------------------------------------------------------------
(* read of a chunk from p on, by all layers down to the file.              *)
Reads(p) ==
    /\ UNCHANGED <<file, db, disk>>
    /\ pos' = IF p < Len(file) THEN Min({p + Chunk, Len(file)}) ELSE pos

(* (A slip: only what the block appends is hashed.)                        *)
BeginHashOfLayer ==
    /\ step = "apply" /\ step' = "hash"
    /\ Size < MaxLog
    /\ at' = Len(Below) /\ got' = Min({Chunk, Len(trx.log)})
    /\ Reads(Len(Below))
    /\ UNCHANGED <<layers, again, harmed>>

BeginHash ==
    /\ step = "apply" /\ step' = "hash"
    /\ Size < MaxLog
    /\ at' = 0 /\ got' = Min({Chunk, Size})
    /\ Reads(0)
    /\ UNCHANGED <<layers, again, harmed>>

(* The loop's own r gets the result, and the condition sees the one of     *)
(* before.  Beyond the end of its local changes a layer copies a chunk of  *)
(* what follows them in memory.  (Above any size, at is one of two.)       *)
HashChunk ==
    /\ step = "hash" /\ got = Chunk
    /\ at' = IF at + got <= MaxLog THEN at + got
             ELSE IF at = MaxLog + 1 THEN MaxLog + 2 ELSE MaxLog + 1
    /\ Reads(at')
    /\ step' \in IF at' > Size /\ trx.log # << >> THEN {"hash", "dead"} ELSE {"hash"}
    /\ UNCHANGED <<layers, again, got, harmed>>

Hashed == step = "hash" /\ got < Chunk

HashDiffers == Hashed /\ DropBlock

(* apply ends with an end_block record.  A block in the head's place is    *)
(* the new head; one on the head makes it final.                           *)
HashMatches ==
    /\ Hashed
    /\ at' = 0 /\ got' = 0
    /\ LET l == Pushed(trx, EndBlock, Size + 1) IN
       \/ /\ over = "head"
          /\ trx' = l /\ step' = "write" /\ UNCHANGED <<head, over>>
       \/ /\ over = "state"
          /\ head' = l /\ trx' = EmptyLayer /\ step' = "idle" /\ over' = "head"
    /\ UNCHANGED <<disks, state, again, harmed>>

-----------------------------------------------------------------------------
(* sd::commit: the local changes go where the file's position is.          *)
Write ==
    /\ step = "write" /\ state.log # << >>
    /\ file' = SubSeq(file, 1, pos) \o state.log
               \o SubSeq(file, pos + Len(state.log) + 1, Len(file))
    /\ pos' = pos + Len(state.log)
    /\ db' = StateIndex
    /\ step' = "sync_transfers"
    /\ UNCHANGED <<disk, layers, again, hashing, harmed>>

NothingToWrite ==
    /\ step = "write" /\ state.log = << >>
    /\ step' = "committed"
    /\ UNCHANGED <<disks, layers, again, hashing, harmed>>

OnDisk(keys) == disk' = Above([k \in keys \cap DOMAIN db |-> db[k]], disk)

SyncTransfers ==
    /\ step = "sync_transfers" /\ step' = "sync_names"
    /\ OnDisk(Account)
    /\ UNCHANGED <<file, pos, db, layers, again, hashing, harmed>>

SyncNames ==
    /\ step = "sync_names" /\ step' = "committed"
    /\ OnDisk(Name)
    /\ state' = EmptyLayer
    /\ UNCHANGED <<file, pos, db, head, trx, over, again, hashing, harmed>>

(* After the first commit the head goes to the file cache and the block is *)
(* the head; the second one writes the cache.                              *)
CommitHead ==
    /\ step = "committed" /\ ~again
    /\ state' = Joined(state, head)
    /\ head' = trx /\ trx' = EmptyLayer
    /\ step' = "write" /\ again' = TRUE
    /\ UNCHANGED <<disks, over, hashing, harmed>>

Added ==
    /\ step = "committed" /\ again
    /\ step' = "idle" /\ again' = FALSE
    /\ UNCHANGED <<disks, layers, hashing, harmed>>

-----------------------------------------------------------------------------
Opened ==
    /\ pos' = 0
    /\ state' = EmptyLayer /\ head' = EmptyLayer /\ trx' = EmptyLayer
    /\ over' = "head" /\ step' = "idle" /\ again' = FALSE
    /\ at' = 0 /\ got' = 0

(* The head is in memory only.                                             *)
Restart ==
    /\ step = "idle"
    /\ Opened
    /\ UNCHANGED <<file, db, disk, harmed>>

(* Nothing makes the log itself durable, whose writes are only buffered:   *)
(* any part of it may be left, and of each index what is synchronised and  *)
(* any of what was set since.  update_index does nothing.                  *)
Crash ==
    /\ MayCrash \/ step = "dead"
    /\ \E n \in 0 .. Len(file), set \in SUBSET DOMAIN db :
        /\ file' = SubSeq(file, 1, n)
        /\ db' = Above([k \in set |-> db[k]], disk)
        /\ disk' = db'
        /\ harmed' = (harmed \/ n < Len(file) \/ db' # db)
    /\ Opened

Next ==
    \/ \E k \in Key : Look(k)
    \/ \E u \in {"head", "state"} : BeginBlock(u)
    \/ \E r \in Records : AppendRecord(r)
    \/ CommandFails \/ BeginHash \/ HashChunk \/ HashDiffers \/ HashMatches
    \/ Write \/ NothingToWrite \/ SyncTransfers \/ SyncNames
    \/ CommitHead \/ Added
    \/ Restart \/ Crash

(* The main thread goes on with a hash it has begun.                       *)
Fairness == WF_vars(HashChunk) /\ WF_vars(HashDiffers \/ HashMatches)

Spec == Init /\ [][Next]_vars /\ Fairness

-----------------------------------------------------------------------------
(***************************************************************************)
(* The queries.                                                            *)
(***************************************************************************)
query_names == (DOMAIN trx.last \cup DOMAIN BelowIndex) \cap Name

(* What a layer with index f lists of n, to which it finds its way in g.   *)
Listed(n, f, g) ==
    IF n \in DOMAIN g THEN {s \in Name : <<n, s>> \in DOMAIN f \cap Account} ELSE {}

get_account_contents(n) ==
    UNION {Listed(n, db, StateIndex), Listed(n, state.last, StateIndex),
           IF over = "head" THEN Listed(n, head.last, BelowIndex) ELSE {},
           Listed(n, trx.last, Index)}

(* For a name that it does not find a layer with transfers goes from the   *)
(* end of their map to the first of them: undefined behaviour.             *)
RunsFromEnd(n) ==
    \/ n \notin DOMAIN StateIndex /\ DOMAIN state.last \cap Account # {}
    \/ over = "head" /\ n \notin DOMAIN BelowIndex /\ DOMAIN head.last \cap Account # {}
    \/ n \notin DOMAIN Index /\ DOMAIN trx.last \cap Account # {}

(* Names of a layer that are in none of those below it.                    *)
NewNames(l, below) == (DOMAIN l.last \cap Name) \ DOMAIN below

NamesOnFile == DOMAIN db \cap Name

name_count ==
    Cardinality(NamesOnFile)
    + Cardinality(NewNames(state, db))
    + (IF over = "head" THEN Cardinality(NewNames(head, StateIndex)) ELSE 0)
    + Cardinality(NewNames(trx, BelowIndex))

(* find_last_block: back from the last record, each time to the one before *)
(* the position a record ends with.                                        *)
find_last_block ==
    LET walk[p \in 0 .. Len(file)] ==
            IF p = 0 THEN None
            ELSE IF file[p].id = "end_block" THEN p
            ELSE walk[file[p].previous - 1]
    IN  walk[IF file = << >> THEN 0 ELSE Last(file).previous]

-----------------------------------------------------------------------------
LayerOK(l) ==
    /\ \A i \in DOMAIN l.log : l.log[i].edits \subseteq DOMAIN l.last
    /\ DOMAIN l.last \subseteq Key

(* Nothing is left in the file cache between two blocks, nor in the        *)
(* block's layer.                                                          *)
TypeOK ==
    /\ pos \in 0 .. Len(file)
    /\ DOMAIN db \subseteq Key /\ DOMAIN disk \subseteq DOMAIN db
    /\ LayerOK(state) /\ LayerOK(head) /\ LayerOK(trx)
    /\ over \in {"head", "state"}
    /\ step \in {"idle", "apply", "hash", "dead", "write", "sync_transfers",
                 "sync_names", "committed"}
    /\ step \in {"idle", "apply", "hash"} => state = EmptyLayer /\ Size <= MaxLog
    /\ step = "idle" => trx = EmptyLayer

(* The file is only appended to, wherever the last read left its position; *)
(* a crash cuts its end off.                                               *)
OnlyAppended == [][IsPrefix(file, file') \/ IsPrefix(file', file)]_file

Edits(k) == {i \in 1 .. Size : k \in Log[i].edits}

(* Through all layers, the index of a name or an account is the last       *)
(* record about it.                                                        *)
LookupIsLast ==
    ~harmed /\ step \in {"idle", "apply", "hash"} =>
        /\ DOMAIN Index = {k \in Key : Edits(k) # {}}
        /\ \A k \in DOMAIN Index : Index[k] = Max(Edits(k))

(* The names that are listed and counted are those in the log, each once;  *)
(* what is listed of an account is all it has, unless the list runs away.  *)
ListsAgree ==
    ~harmed /\ step \in {"idle", "apply", "hash"} =>
        /\ query_names = {n \in Name : Edits(n) # {}}
        /\ name_count = Cardinality(query_names)
        /\ \A n \in Name :
               RunsFromEnd(n) \/ get_account_contents(n) =
                   {s \in Name : <<n, s>> \in Account /\ Edits(<<n, s>>) # {}}

(* The last block in the file is found, even if a crash cut the next one   *)
(* off.                                                                    *)
LastBlockIsFound ==
    LET ends == {i \in DOMAIN file : file[i].id = "end_block"} IN
    find_last_block = IF ends = {} THEN None ELSE Max(ends)

(* Lookups, lists and the search for the last block answer for the whole   *)
(* log, whichever layers it is in.                                         *)
FileSound == TypeOK /\ LookupIsLast /\ ListsAgree /\ LastBlockIsFound

(* calculate_state_hash: "For each MB of the log, calculate the hash. Then *)
(* hash all of the hashes into one."                                       *)
EveryLogIsHashed == step = "hash" ~> step # "hash"
=============================================================================
