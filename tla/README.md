# General Public Market: a TLA+ model of the programs

The General Public Market (GPM) is a peer-to-peer market in the style of early
Bitcoin: nodes share a chain of blocks found by proof of work, blocks carry
transactions, and transactions register names, issue stocks (a stock is a
name) and transfer units of them between names. This directory models the node
library `src/libs/gpm`, the console of the wallet `src/programs/free_market`,
and two separate services of the repository: `src/libs/bitblocks`, which stores
files as encrypted blocks, and `src/libs/rprox`, a reverse proxy.

Paths below are relative to `src/libs/gpm` unless they start with `src/` or
name one of these directories.

## 1. Inventory

### Parts, their state and their operations

| Part | State it keeps | Operations |
|---|---|---|
| State database (`statedb/state_database.cpp`) | an append-only log of records (names, key updates, transfers, markers); the index of the last edit of each name and of the last transfer of each account; layers over them | `apply(transaction)`, `apply(block)`, `commit`, `abort`, balance, key and history queries |
| Node (`node/node.cpp`) | block chain; state database file + file cache; head layer `m_head_trx`; candidate layer `m_gen_trx`; transaction database in the groups PENDING, HEAD, APPLIED; known block states | `add_transaction`, `add_block`, `add_full_block`, `generated_block`, `configure_generation`, `open`, queries |
| Generating thread (`node/node.cpp`, `generate`) | the candidate it hashes; shared flags `m_stop_gen`, `m_gen_stopped` | started by `start_block`; posts `generated_block` events |
| Block chain (`block_chain/block.cpp`) | none of its own | `validate`, `calculate_hash_target`, `generate`, `load`, `save` |
| Transactions (`block_chain/transaction.hpp`, `command.hpp`) | none | sign, verify |
| Server and connections (`node/server.cpp`, `.hpp`) | a list of connections, one message buffer each | accept, connect, read and write messages, broadcasts |
| Berkeley DB wrapper (`bdb/keyvalue_db.hpp`) | key/value files | get, set, remove, iterate, sync |
| Transaction file (`statedb/trx_file.cpp`) | `file`: a file, its position and buffer; `file_transaction`: changed pages over one | read, write, seek, size; the second class is used by nothing |
| Wallet console (`src/programs/free_market/main.cpp`, `keychain.hpp`) | the transaction being built; the key chain | `genkey`, `register`, `issue`, `transfer`, `start`, `abort`, `commit` (`sign`), `exit` |
| User interface (other files of `free_market`) | forms and tables | show what the queries return |
| bitblocks (`src/libs/bitblocks/node.cpp`) | a store of blocks; connections, each with its pending requests; uploads and downloads under way | `import_file`, `export_file`, `upload_file`, `download_urn`, messages |
| rprox (`src/libs/rprox`) | a control connection with a shared key; mapped ports; proxied connections | `map_port`, `create_server`, `create_connection`, `forward_write`, `connection_status` |

`block_chain/state_database.*` and `block_chain/block_chain.hpp` are earlier
copies which no build file names.

### How they interact

* All of a node's state belongs to the **main thread**. The network thread,
  the wallet and the generating thread reach it by events posted to its Qt
  queue (`node::exec`, `postEvent`), so a handler runs to its end before
  another one begins.
* The **generating thread** is the exception: `start_block` and the destructor
  wait in an empty loop for a flag which that thread sets.
* The node calls the **state database** through a stack of layers: file, file
  cache, head block, candidate, transaction under test. A layer commits into
  the one below it or is dropped.
* A new head writes **four stores in sequence** (chain file, state, transaction
  database, block states). The head itself is not in the file.
* Nodes pass on new **blocks and transactions** to the peers they are connected
  to. A connection asks for the block after its own head when it starts, and for
  the next one with every block it accepts; nothing is asked for again.
* The **wallet** runs in the main thread. It looks names and balances up in the
  node's pending state when a command is typed and again when the transaction
  is signed; the node applies the transaction later, maybe often, maybe never.
* A **bitblocks** node asks its first connection for one block at a time; an
  answer finds whoever waits for it by a number.
* The two **rprox** processes carry many connections over one. Each runs its
  handlers one after the other, but what is ready in which order is open.

### What is hard, and what correctness means

* *State database*: balances are read through two indices and several layers.
  A name keeps one definition, an account one unbroken history, and a credit
  never wraps; a transaction counts completely or not at all.
* *Node*: `apply` never asks whether a transaction was applied already. Only
  the groups of the transaction database keep one out of a second block, and
  these groups are moved around by appends, head replacements, failures,
  restarts and crashes. The state must be that of the chain; the candidate must
  build on the head; confirmed blocks must stay.
* *Generating thread*: flags without a lock, endless waits on the thread that
  handles all events, and a block found while its candidate is being replaced.
* *Block chain*: boundary arithmetic of the target window and of the times.
* *Disk*: crashes between and within the writes of one block, on databases
  without a log. The log of records is appended at whatever position the last read
  left and never made durable, and its indices are in other files, which are.
* *Connections*: messages that cross a change of state at the other end,
  connections that break with answers on their way, two handlers that both
  close the same connection. Nodes must come to the same chain, callers must be
  answered, and data must arrive in order.
* *Wallet*: what was checked when it was typed must hold when it is applied,
  and no key may be lost whose name is in the ledger.
* *bitblocks*: a list of blocks must not be stored before its blocks are, and
  file lengths are counted down without a sign.

`PROJECT.json` lists each hazard at its line, with the properties about it or
the reason why there is none yet.

## 2. Modules

| Module | Models | Parameters |
|---|---|---|
| `Ledger` | abstract specification: what the state database promises | names, keys, `MaxAmount` |
| `StateDatabase` | record log, indices, layers, commands; implements `Ledger` | the same, and `MaxLog` |
| `Node` | the node's handlers, its disk, restarts, crashes | `NumTrx`, `Needs`, `Clashes`, `MaxBlock`, `Faults` |
| `BlockChain` | `validate`, the hash target, appending and replacing | `MaxHash`, `BLOCK_WINDOW`, `Grain`, `Tolerance`, ... |
| `Miner` | abstract specification: what handlers may take the generating thread for | `MaxCandidate` |
| `Generator` | flags, waits and events between the two threads; implements `Miner` | `MaxCandidate` |
| `StateFile` | the log's file, index databases, cache, chunked hash, queries over layers | `Name`, `Account`, `Chunk`, `MaxLog`, `MayCrash` |
| `Sync` | several nodes: connections, catching up, broadcasts, lost connections | `Node`, `Links`, `Trx`, `MaxBlock`, `MayLose` |
| `Wallet` | the console and its key chain, on top of `Ledger` | those of `Ledger`, `MaxCommands`, `MaxPending`, ... |
| `BitBlocks` | a block store and its peers | `Job`, `File`, `Size`, `Peer`, `BlockSize`, `Pad`, `Word`, ... |
| `RProx` | the two proxies and what they connect | `MaxCon`, `MaxData` |
| `LedgerProofs`, `StateDatabaseProofs`, `NodeProofs`, `StateFileProofs`, `WalletProofs`, `RProxProofs` | theorems about the module each is named after | |
| `ChainProofs`, `PeerProofs` | theorems about `Generator`, `BlockChain` and `Sync`; about `BitBlocks` | |
| `MCStateDatabase`, `MCNode`, `MCBlockChain`, `MCGenerator`, `MCStateFile`, `MCSync`, `MCWallet`, `MCBitBlocks` | small instances for TLC | |

How they fit together: `StateDatabase` implements `Ledger` and `Generator`
implements `Miner` (both checked and proved as refinements); `Wallet` extends `Ledger` and
applies transactions by its actions only. `StateFile` takes from `StateDatabase`
that a block is a sequence of records, and from `Node` when layers are
committed. `Sync` takes from `Node` which blocks are accepted. `BlockChain` and
`Sync` call their specifications `ChainSpec` and `SyncSpec` (and `ChainInit`,
`SyncInit`, ...), because `ChainProofs` extends both and `Generator`.

An invariant whose name ends in `Sound` (`LogSound`, `StoresAgree`, ...) is a
conjunction of the module's type invariant with the invariants its comment
lists, each a definition of its own.

Operators that a comment introduces as a *slip* (`IssueAgain`, `CopyToGroup`,
...) belong to no specification. Each is a plausible mistake in the definition
that follows it, kept to show that some property notices it.

### Ledger and StateDatabase

`StateDatabase` has two layers, `base` (everything below) and `local` (the open
layer). Deeper stacks add nothing: a layer only ever sees what is below it
through the same lookups, so the layers below one may be taken as merged
(`Stacked`, what `append` does at commit). Each command of
`apply(signed_transaction)` is an action (`RegisterName`, `Issue`,
`TransferToName`, `TransferToAddress`) with the code's checks, in whose record
the code's indices and balances are computed. Simplifications:

* A position is a record's ordinal instead of its byte offset, and `None` is
  0 where the code has `uint64_t(-1)`; comparisons with it in the code are for
  equality only, except in `previous`, where the comparison is restated.
* Signatures are the set of keys that signed (`trx.verify`). `EncodeAddress`
  is any function from keys to addresses.
* `uint64` is `0..MaxAmount` and additions are taken modulo `MaxAmount + 1`.
* A refused command is `Discard`: every caller aborts the layer (or destroys
  it) after `apply` returned false.
* The checksum comparison of `apply(block)` is in `Node` and, with the chunked
  calculation of the hash, in `StateFile`.

`Ledger` has the same interface over plain functions: the key of each name, the
balance of each account, which accounts were opened. It also states what the
code really does when a generator pays itself through an empty destination: the
units are lost. `ImplementsLedger` is checked with the mapping `LedgerOf`.

### Node

| `Node` | `node.cpp` |
|---|---|
| `chain`, `state_db`, `head_trx` | `m_block_chain`; file and file cache; the layer of the head block |
| `gen_trx`, `work` | the transactions in `m_gen_trx`; the candidate the worker hashes |
| `trx_db`, `dirty` | the keys (group, transaction) of `m_trx_db`; those set or removed since it was synchronised |
| `saving`, `disk` | how far `add_block` is in lines 705-710; what a crash leaves |
| `AddTransaction`, `ConfigureGeneration`, `AddFullBlock`, `GeneratedBlock` | the handlers |
| `ExtendHead`, `ReplaceHead`, `Refuse`, `AdoptGenesis` | the outcomes of `add_block` and of `add_full_block` on an empty chain |
| `SaveChain`, `CommitState`, `SyncDatabases` | the steps of writing a new head |
| `Restart`, `Crash`, `Open`, `Synchronized` | clean exit, crash, `open`, `synchronize_state` |
| `Found`, `GiveUp` | the generating thread, as `Miner` has it |
| `Elsewhere` | a block another node generates on a chain it may have |

Simplifications:

* A block is a number and its hash that number, so that "lower hash" is "lower
  number". Blocks are made in any order of hashes.
* A state is the sequence of blocks applied to an empty one: the log is a
  function of them. The hash in `block_state` stands for the state *before* the
  block, to which the code adds the effect of the block's own transactions,
  which the block state names as well.
* What a transaction does is reduced to which others it needs (`Needs`, it
  spends what they pay) and which it clashes with (`Clashes`). Transactions are
  numbered by `utc_time`, by which the candidate applies them.
* Blocks of others are honest (their transactions apply in their state); blocks
  may still arrive in any order, repeatedly, late, or on another chain.
  `validate` is taken to succeed on them (`BlockChain` models it), and `"late"`
  lets any block be refused for its time (666-672).
* The two Berkeley DBs are opened without an environment, a log or transactions
  (bdb/keyvalue_db.hpp:42-50, 100), and any page may be written at any time. Every
  set and every remove of a handler makes its key dirty (`Dirties`, also those that
  are undone later in the handler), and a crash keeps any part of what is dirty:
  a half-moved transaction is then in two groups or in none. So a crash within
  a handler, or within `sync`, leaves nothing that one between the steps may not leave, and
  the two `sync` calls are one step. So are the pieces of `sd::commit`, which
  `StateFile` takes apart. A database that a crash leaves unreadable, and the chain's file
  half written, are not modelled: `open` does not come back from them.
* A handler is one step, but for writing to disk. `Generator` shows that the
  waiting inside `start_block` allows this.

### BlockChain

A hash is a number up to `MaxHash`, and a block's hash a field of it, none used
twice. `Mined` restricts new blocks to those `generate` can produce for the
target, which is what an honest node does. Time is in units of
`SECONDS_PER_BLOCK`. In the code the largest hash begins with two zero bytes,
so 257/256 of a target always fits its 20 bytes and the cap at the largest hash
is the only bound that matters. The factor is the code's: two comments say 1.01
(block_chain/block.cpp:66-68) and 1.001 (36), see section 3.

### Generator and Miner

Every access to a flag is a step, in the code's order; the worker's wait for a
nonce is a nondeterministic round. The flags are `volatile` and not atomic: the
model takes each read and write of a `bool` as indivisible and in program order,
which the x86 targets of the build provide and the language does not.

`Miner` is what `Node` uses for the generating thread. The mapping defers the
effect of a handler that calls `start_block` to the moment it hands over the
new candidate (`handling` is the event it is handling), so a block found
meanwhile counts as found before the handler ran.

### StateFile

| `StateFile` | Code |
|---|---|
| `file`, `pos` | the `gpm::file` under `sd`: contents and position |
| `db`, `disk` | `m_name_db` and `m_transfer_db`, and what is synchronised of them |
| `state`, `head`, `trx` | local changes of the file cache, of `m_head_trx` and of the block being applied |
| `step`, `over`, `again`, `at`, `got` | where `add_block`, `sd::commit` and `calculate_state_hash` are |
| `Look`, `AppendRecord`, `BeginHash`, `HashChunk`, `Write`, `SyncNames`, ... | reads, commands, the hash's loop, the pieces of `commit` |
| `query_names`, `name_count`, `get_account_contents`, `find_last_block` | the queries |

A record is one cell, and the hash is of `Chunk` cells at a time where the code
has a megabyte. Nothing makes the log durable: `commit` only writes to a buffered
file, `size()` (statedb/trx_file.cpp:73-80) at most hands the buffer to the system, and
nobody calls `fsync`, while `commit` does synchronise both indices (649-655). A crash
therefore leaves any first part of the log, and of each index what was synchronised
with any part of what was set since. Torn records, and pages of the log written
out of order, are not modelled. `harmed` remembers that a crash lost something;
the properties about lookups are claimed before that only.

`get_account_contents` asks each layer in turn (`Listed`). A layer that does not find
the name looks up index `uint64_t(-1)`, whose successor is 0, and iterates from `end()`
towards the first account as soon as it has a transfer (950-956): undefined behaviour,
which `RunsFromEnd` names and `ListsAgree` makes an exception for.

### Sync

| `Sync` | Code |
|---|---|
| `chain`, `known` | a node's chain and its transactions, as `Node` accepts them |
| `listed`, `signals`, `reading`, `failing` | `m_connections`; `new_block_con` and `new_trx_con`; the pending read; a failed write whose handler has not run |
| `Connect`, `Accept`, `Listen` | `connect_to`; the accepting end's `start`, which asks for a block before it connects the signals |
| `OnGetFullBlock`, `OnFullBlock`, `OnTransaction` | the handlers, with what they send and which connection they do not tell |
| `ReadFails`, `WriteFails`, `ConnectionClosed` | the end of a connection; `closed` may come twice |

Blocks are honest and their transactions always apply; what happens otherwise is
`Node`'s. `apart` marks links that start where the protocol has no means to
help: neither chain continues the other, or transactions were known on one
side before the link was there (they are never asked for). The liveness
properties leave these links out, and forks (`Forked`) that no message mends.

### Wallet

`Ledger`'s variables are the node's state; `pool` the wallet's pending
transactions, `others` the keys of other people, who make transactions of their
own. `trx` is what the user has typed. Each console command is an action, with
its refusals; `Sign` goes through the commands as `sign` does, one lookup per
command, and gives the transaction to the pool. `Begin`, `ExecuteNext` and
`Refuse` are a candidate's or block's use of a transaction, in any order and
repeatedly: a refused one stays pending. Amounts include 0, which the console
accepts (main.cpp:259-267, 437). The key chain is a database of which
a crash keeps what was synchronised.

### BitBlocks

A block stands for its data and its hash. `job` is the state of each call
(`upload_file_state`, `download_urn_state`, or the loop of `import_file`), `conns`
the list whose first entry every call uses, `requests` the closures that wait. Lengths
are computed in `size_t` (`% Word`). A reply nobody waits for is dropped
(bitblocks/node.cpp:545-548). The node's own `listen` is not modelled: a
peer that connects to it is served like the peers here serve it. `create_account`
only stores an address.

### RProx

Each process has a queue of handlers that are ready, which run in that order, one
at a time. The module starts when `home` has connected to `relay`. Messages between the two
are framed and taken as whole and in order (see section 6). What goes to a user or a service is a raw
stream, and `proxy_connection::write` (35-40) starts an `async_write` without waiting for
the one before. So a socket may take only part of a chunk (`WritePart`); the rest
is written by a later call, which those of later chunks may pass (`Due`).
A chunk counts as received with its last byte, and `part` remembers the chunks that
took several calls. Messages are
built as `control_connection` uses them, `protocol.hpp` being missing from the
repository. `dead` says why a process is gone: it threw (`"freed"`: a connection
reports to a control connection that is no more; `"no acceptor"`: it accepts on
one that was closed) or followed an iterator to the end of its map (`"unknown"`).

## 3. Runs

| Run | Bounds | What it shows |
|---|---|---|
| `wallet` | 3 names (2 addresses, 1 stock), 2 keys, amounts 0 and 1, 2 commands, 1 pending, payments to one address or to the generator | `SupplyInv`, `NoCounterfeit`: units are backed, no credit wraps. `WalletSound`: no key of a name is lost. `SureApplies`, `SignedIsEnough`: what was found to be in order is applied |
| `sd_log` | 2 names (1 address), 1 key, amounts to 2, 6 records | `LogSound` (`Consistent` and `StampSound` for `base` and through the layer): the indices lead to the right records; `History`; `ImplementsLedger` |
| `sd_holder` | 3 names (2 addresses), 2 keys, 5 records | `HolderApproves`: nothing changes hands unsigned |
| `node_faults` | 2 dependent transactions, 3 blocks, restarts, late blocks | `OneGroup`, `StoresAgree` (`DiskFollows`, `AppliedIsFiled`, `Servable`), `ConfirmedIsSynced`: a crash now would find what is confirmed filed; `AppliedOnce`, `StateFollowsChain`, `WorkIsCurrent`, `ConfirmedStays` |
| `node_crash` | 1 transaction, 3 blocks, crashes and restarts anywhere | what survives a crash: `WorkIsCurrent` |
| `bc_mined` | 10 hashes, window 3, chains of 4, clock to 2 | `TargetSound`, `MinedIsAccepted`, `TargetEases`, `ReplacedIsHarder` |
| `gen_worker` | 4 candidates | `WorkersSound`: one worker; all waits end; `ImplementsMiner` |
| `sync` | 2 nodes, 1 transaction, 3 blocks, a link that may break | `NodesSound`: only a lost connection can end a node, and a block that two chains share has the same blocks below it (`SharedHistory`); `ChainsConverge`, `TransactionsSpread`, `CatchesUp` |
| `state_file` | 2 names, an account of one, chunks of 4, logs of 5, crashes anywhere | `FileSound`: lookups, lists and `find_last_block` answer for the whole log; `OnlyAppended` |
| `state_hash` | 1 name, chunks of 3, logs of 5 | violates `EveryLogIsHashed` |
| `bitblocks` | 2 calls, 2 peers, 3 files (one not a multiple of the pad) | `FilesSound`: what is listed is held, downloads and exports are in order; `UploadedIsStored`; `CallsEnd`, but for the calls its comment names |
| `rprox` | 1 connection, 2 chunks in any direction | `RelaySound`: the key changes at the same message, and a chunk is passed by others only if its write took several calls; `DiesOfFaults`; `ClosedIsForgotten`, `SentArrives` |

Why the bounds suffice: three blocks are a genesis, a confirmed block and a
head, or two siblings to replace one another; two transactions are needed for a
dependency. Six records hold a transaction with a definition, an issue and
transfers between two accounts, split by a commit anywhere; five hold a
definition, an issue and a transfer between two key holders. A chain of four is
longer than the window of three, so that a hash leaves it. Four candidates let
one be queued, one be found while the next is made, and one be refused.
Three blocks put one node two blocks behind, so that it has to go on asking, or
give two nodes different heads on one genesis. A log one record longer than a
chunk takes the hash through its loop; it ends a block, so that a record may
be cut off before or after it. A wallet's transaction of two commands can
register a name and use it, or spend one account twice. Two calls and two peers let a
peer leave while one call waits for it and another writes; a window of one lets
a write wait. One proxied connection with two chunks is enough for a message to cross
the end of a connection from either side; connections share nothing but the order of
messages.

The runs of `Node`, `BlockChain`, `Generator`, `Sync`, `BitBlocks` and `RProx`
switch deadlock checking off: no block can follow the last one the bound allows,
a closed node stops, and services are at rest when their users are.

### A run that finds a violation

`state_hash` checks what a comment says of `calculate_state_hash`, "For each MB of
the log, calculate the hash" (statedb/state_database.cpp:485-489), and TLC finds a
log for which it never ends: the loop declares an `r` of its own (503), so its
condition goes on testing the first read's. A log of one megabyte or more
stops the node for good.

### Where other comments differ from the code

* "The target is the largest hash generated in the past 24 * 1.01. This allows the hash
  target to get easier by 1% per block" (block_chain/block.cpp:66-68), and "1.001 * the
  maximum hash in BLOCK_WINDOW" (36). The code multiplies by 257/256 (93), which is
  neither. `TargetSound`, `TargetEases` and the proofs are about the code's factor.
* "Transactions are sorted by state; 0) Not yet applied in any generated block 1) Applied
  in the head 2) Applied and confirmed (not head)" (node/node.cpp:75-78). A
  move is a set and then a remove (130-132, 152-153), and a crash between the two leaves a
  transaction in two of these groups: `OneGroup`, added to `NodeCrash.cfg`, is
  violated. It is checked and proved without crashes.
* "Parses the file and updates the index in the event that data was lost"
  (statedb/state_database.cpp:1014-1016): `update_index` is empty, and not called. Records
  that a crash took from the log stay in its indices, hence `~harmed` in
  `LookupIsLast` and `ListsAgree`.

### Related behaviour

Seen while modelling, stated by the models, and no run spent on it:

* An empty destination bypasses "Source account equals destination"
  (statedb/state_database.cpp:372): a generator that pays itself so loses the
  units.
* A transfer of 0 opens an account, and makes an unissued stock "already
  issued" (357, 396).
* When a block takes the head's place, the head's transactions are looked up
  after it has been replaced (node/node.cpp:752, 784) and stay in HEAD.
* A crash between saving the chain and committing the state (705-710) leaves
  them on different blocks, and one that loses the end of the log leaves its indices
  ahead of it.
* The contents of an account are undefined for a name that a layer with transfers does
  not know (statedb/state_database.cpp:950-956): any unknown name, and one that is new
  in the candidate, which `node::get_account_contents` asks (node/node.cpp:551-554)
  after the layers below it.
* Two chunks to one proxied socket may change places, and even mix, when the socket does not
  take the first at once (rprox/proxy_connection.cpp:35-40).
* `validate` never refuses a block for its target (block_chain/block.cpp:150);
  `TargetRefusesNothing` proves it.
* `import_file` and `upload_file` do not return for a file whose length is not a
  multiple of 8 (bitblocks/node.cpp:125-134). `connect_to` never moves on to the
  next address, there (40-44) and in rprox/rproxy.cpp (43-47, 79-83).
* A caller whose bitblocks connection closes waits for ever, and an upload that
  outlives a connection leaves half of the file with either peer.
* rprox keeps an entry for a connection the service refused, and does not tell
  the user. A second message about an ended connection is followed to the end of
  a map. `m_next_con_id` and `m_next_server_id` are never set; the models
  take ids as unique.
* A wallet transaction that is refused stays pending and may apply later. Its own
  pending commands are not counted when a balance is checked. A transaction that
  gives a name another key and then uses it is signed with the wrong one.
  `register` signs before the transaction is complete, to no effect. `genkey` does not
  synchronise the key chain, `register` does.
* `previous` ends the walk through an account's history at a transfer of the
  generator to itself; `History` makes that exception.
* A restart loses the head but leaves its transactions in HEAD, so the same
  block is refused when a peer sends it again.
* A crash after the state was committed and before the transaction database was
  synchronised leaves applied transactions PENDING, and they may be applied a
  second time; of the node's properties only `WorkIsCurrent` is claimed with crashes.
* `validate` never updates `prev_time`, so blocks may have the same time.

## 4. Fairness

`Ledger`, `Wallet`, `StateDatabase`, `Node`, `BlockChain` and `Miner` are safety
specifications and assume none. The other modules assume this, and nothing of
users or the network: nobody need connect, send, close or find a block.

* `Generator`: weak fairness on each step that ends a wait (a loop that reads a
  flag for ever sees it once it stays set) and on each worker (the pool runs
  what it was given and a round of nonces is finite), strong fairness on
  handling a posted event: the event loop takes events in order and does not
  pass over one for ever, though each `start_block` disables the handler
  meanwhile.
* `Sync`: weak fairness on accepting, on the two parts of an accepted
  connection's start, and on handling messages: `io_service::run` and the main
  thread's event loop take what is ready in turn. Losing a connection, and
  noticing it, are not fair.
* `StateFile`: weak fairness on the steps of a hash that has begun, as the main
  thread does not leave the loop.
* `BitBlocks`: weak fairness on handlers, strong fairness on the writes of an
  upload: a socket takes its writes in turn, so one is not passed over for
  ever by those of another call.
* `RProx`: weak fairness on each process's handlers (`io_service::run`) and on
  what makes one ready; the end of a write is among these, as a chunk is finite.

## 5. Proofs

TLAPS checks every theorem for all values of the constants, under the named
ASSUMEs of the modules, which the runs evaluate. Each theorem is about the
specification the run uses; where it needs more it says so in its statement, and
here.

**Ledger** (`LedgerProofs`)

* `SupplyInvariant`: `Spec => []SupplyInv`. `SupplyInv` is
  inductive only because it says that each balance counts units with one owner
  (`Backed`): a bound on pairs of accounts does not survive a transfer to a
  third one. Types and supply are proved together, as a credited balance stays
  in `Amount` only because it is backed. `NeverCounterfeit` follows.

**State database** (`StateDatabaseProofs`, invariant `DatabaseInv`)

* `LogIsSound`, `HistoryHasNoGap`: `LogSound` and `History`. `LogInv` is that the
  log below the open layer and the view through it are each consistent, and that
  the open transaction's records begin at `trx_pos`.
* `LogImplementsLedger`: the refinement, one command at a time. The two are one
  proof by induction: that a record agrees with the indices needs an
  addition that does not wrap, which is the supply of the *ledger the log stands
  for*. `DatabaseInv` is therefore `LogInv` with `LedgerProofs!SupplyInv` under
  the refinement mapping, and every step lemma of `LedgerProofs` is
  used through INSTANCE. `AdditionsNeverWrap` follows.
* `HoldersApprove`: `HolderApproves`, an action property.

**Node** (`NodeProofs`)

* `NodeTyped`: `Spec => []TypeOK`, with `TypeInv`, crashes included.
* `AlwaysOneGroup`: `Spec => []OneGroup`, assuming `"crash" \notin Faults`: a crash
  may break it (see section 3).
* `WorkerIsCurrent`: `WorkIsCurrent`, crashes included: between the handlers the
  candidate being hashed is for the chain's head, in the head's state.
* `StateOfChain`: `Spec => [](StateFollowsChain /\ DiskFollows)`,
  assuming `"crash" \notin Faults` (with crashes it is false).
  `ChainInv` adds that every block, posted or sent by anybody, builds on the
  state its predecessors lead to, and that the head's layer is at most one
  block.
* `NeverTwice`: `Spec => [](AppliedIsFiled /\ AppliedOnce)`, under
  the same assumption. `FiledInv`: blocks under the head are in APPLIED, the
  head's in HEAD, and each transaction in one group; a block's transactions
  come from PENDING, so they are in no block below.
* `StoresStayInStep`: `StoresAgree`, under the same assumption. `KeptInv` adds to
  `FiledInv` that the state of every block of the chain, and of each that may get
  there (a found block not yet handled, the candidate), is filed.
* `CrashFindsConfirmed`: `ConfirmedIsSynced`, under the same assumption: what a crash
  would find if it came now, as long as none has come and no block is being written.
  `SyncedInv` says it of each block under the head. Every handler but the one that
  confirms the head, whose steps end with the two `sync` calls, leaves the keys of these
  blocks' transactions alone (`ConfirmedClean`): what a replacement or refusal moves,
  and so makes dirty, is filed in other groups.
* `ConfirmedForever`: `Spec => ConfirmedStays`, from `ChainInv`, under the same
  assumption.

**Block chain** (`ChainProofs`, invariant `ChainInv`: what `validate` demanded
of each block still holds)

* `TargetIsSound`, `WhatIsMinedIsAccepted`, `ReplacedIsNeverEasier`: for any window,
  chain length and range of hashes.
* `TargetRefusesNothing`: `validate` accepts any block on the head whatever its
  hash (see *Related behaviour*). No run checks this one.
* `TargetEasesSlowly`: `TargetEases`, assuming `Mined`: for a chain whose blocks
  somebody mined.

**Connections** (`ChainProofs`, invariant `SyncInv`), for any finite set of nodes and any
links between them

* `NodesAreSound`: `NodesSound`. That a node only ends after a connection of its was
  lost follows from `FailInv`: a write fails on a lost connection only, and what
  is lost stays lost. `SharedHistory` rests on three parts: `LinkedInv` says that
  every block of a chain has the one before it as predecessor, the first one
  none; `PrevInv`, that a generated block is new, so that nobody's predecessor
  changes; `WireInv`, that a reported block was generated and that what is
  reported with index 0 has no predecessor, since a node without a chain takes it
  unseen. The first shared block whose history would differ is the
  counterexample that cannot be.
* `BehindMayCatchUp`: a node whose head is on a longer chain accepts the block after
  it, which is what it asks for. That it gets there is `CatchesUp`, which TLC checks.

**Generating thread** (`ChainProofs`, invariant `GenInv`)

* `OneWorkerAtATime`: `WorkersSound`. `StartInv`: between its two writes nobody but
  `start_block` writes the flags; `PoolInv`: a worker exists for each candidate;
  `QueueInv`: found blocks are queued in order, each once.
* `GeneratorIsMiner`: the refinement of `Miner`, from the same invariant. The step
  that hands over a candidate is the handler, every other one stutters or is the
  worker's.

**The log's file** (`StateFileProofs`, invariant `FileInv`)

* `FileIsAppended`: `OnlyAppended`. `StepInv` has what matters: whenever records
  are written, the position is at the end, since `size()` has just been called.
* `FileIsSound`: `FileSound`, from `LayersInv` and `NamedInv`. `LayersInv`: each layer's index holds the
  records of its log and they are numbered from where the layer begins.
  `NamedInv`: the names of an account are known to the layer the account is in, so that
  a layer which does not run away lists all it has. `KeyAssumption` tells names and
  accounts apart. The walk
  of `find_last_block` is shown to reach the last block by its least
  counterexample (see below).

**Wallet** (`WalletProofs`, invariant `WalletInv`)

* `WalletKeepsBooks`, `WalletNeverCounterfeits`: `SupplyInv` and `NoCounterfeit` for
  the wallet's specification, by the step lemmas of `LedgerProofs`.
* `WalletIsSound`: `WalletSound`, crashes included. `SafeInv` follows a key from
  the key chain through the typed, the pending and the running transaction to the
  ledger: it is synchronised before the first of them has it.
* `SignedSuffices`: `SignedIsEnough`. `SignedInv` relates the ledger
  in use to the committed one by the transaction's own commands.

**rprox** (`RProxProofs`, invariant `ProxyInv`), for any number of connections and chunks

* `RelayCarriesInOrder`: `RelaySound`. That messages are understood
  follows from `HandshakeInv`: the connection goes through four phases (home's
  key, the relay's key, the request for a port, the rest), and in
  each of them is known who has the key and what may be on the wire. That chunks
  arrive in order follows from `OrderInv`: behind what an end has received, and what
  is being written to it, comes the next chunk on the wire, and so on without a
  gap (`Flow`) up to what its peer has forwarded (`Full`). It holds of an end
  that still receives (`Receives`). From there to the socket (`Waiting`, `Delivered`) a chunk
  waits only for those that are not in `part`: a write that took several calls lets
  others by, and the theorem says that nothing else does.
* `ProxyDiesOfFaults`: `DiesOfFaults`. A process must never hear of a connection it
  has dropped. `TokenInv` is the argument: while the connection between the
  proxies holds and no write has failed, each side has one read of a
  connection, pending or in the queue. An error consumes it and sends the
  one message that closes the connection, after which nothing about it is sent
  (`WireInv`: messages about a connection come after the one that creates it, and none
  after the one that closes it). `CreateInv`, `AcceptInv` and
  `FreshInv` say that an id is used once; `ControlInv` and `FaultInv`, that
  everything is torn down only once the connection is broken.

**bitblocks** (`PeerProofs`, invariant `BlocksInv`), for any files, peers and sizes of block
and pad (`SizeAssumption`: the pad divides the block size, and a file with one block more
still has a size below the word's range)

* `FilesAreSound`: `FilesSound`. What is stored before its list follows from
  `ImportInv` for the node itself and from `SentInv` for a peer: in a queue, a
  metafile comes behind the blocks it lists, or they are stored already
  (`InOrder`). That holds of an upload because, while no connection breaks, all
  of its messages go to the same first connection (`UpInv`), and of the sizes
  because `CutAt` says what is left to cut: what `at` whole blocks leave of the file,
  or, after a last block that was not padded, a number below zero, which is
  never cut again. That a download writes its file's blocks in their order is
  `DownloadInv`, for which a reply must be the answer to the block the download
  waits for now: `WaitInv` says that of every message with the number of a pending
  request, `OneInv` that a download waits for one request and its number is
  nobody else's, and `NumberInv` that no message on its way has a number to come.
* `UploadsAreSent`: when an upload has returned and no connection broke, every
  block of the file is stored by the peer or in the queue to it. It is the
  safety half of `UploadedIsStored`; that the queue is emptied is left to TLC.

**What is only model-checked**

* All liveness, as fairness and ENABLED are beyond the prover: `StartReturns`,
  `CloseReturns`, `OffIsHeard`, `FoundIsHandled`; `ChainsConverge`,
  `TransactionsSpread`, `CatchesUp`; `UploadedIsStored`, `CallsEnd`;
  `ClosedIsForgotten`, `SentArrives`; and `Wallet!SureApplies`, which says that a
  command is enabled.
* Induction over data: what a recursive definition computes for every input. Where
  a proof needs such a fact it takes a least counterexample, which the
  library's well-foundedness of `Nat` provides without an operator as a parameter:
  the largest of a set of numbers, the walk of `find_last_block`, `Sign`'s fold over a transaction's
  commands, and rprox's handlers of all the sockets it closes (`FlattenSeq`) are done
  so.

## 6. Not modelled

* *Cryptography*: Blowfish and the big integers have no state; of
  Diffie-Hellman, who has the shared key is modelled, and the primes are taken
  as safe, as the code that generates them finds at once.
* *Streams*: a framed message (the node's, bitblocks', and rprox's on its control
  connection) is written and read whole. Overlapping `async_write`s to one
  socket, which all three start, may mix the pieces of two frames;
  whatever follows is an `unpack` of garbage. Of the unframed stream to a proxied
  socket, the order of chunks is modelled, not that of the bytes in them.
* *Files*: byte offsets, torn records, a log whose pages reach the disk out of
  order, and the moment in which `"wb"` has emptied
  the chain's file (block_chain/block.cpp:231).
* *Berkeley DB*: a map with a `sync`, of which a crash keeps any part of the keys
  written since. A file that cannot be opened after a crash, its cursors
  and its encryption are not.
* `file_transaction` (statedb/trx_file.cpp) and the earlier state database
  (`block_chain/state_database.*`, `block_chain.hpp`), which nothing uses and no
  build file names.
* *bitblocks'* payments, which are only declared, and `server.cpp` and `client.cpp`,
  which its build file has commented out.
* *The user interface*: it shows what the queries return. The limit and the start
  of `query_names` only choose a part of the list that is modelled.
* That a generating node is never idle and that its own block is acceptable are
  not claimed: both are false. A refused sibling moves its PENDING transactions
  to HEAD, so the node's own next block is refused; and `utc_clock() / 100000`
  (node.cpp:317) may put its block in the future. Nothing restarts it then.

## 7. Plan

1. *(done)* `Ledger`, `StateDatabase`, `Node`, `BlockChain`, `Generator`, and
   the first theorems.
2. *(done)* `StateFile`, `Sync`, `Wallet`, `BitBlocks`, `RProx`.
3. *(done)* Proofs about `Generator`, `StateFile`, `Wallet`, `BlockChain`,
   `StateDatabase`, `RProx`, `BitBlocks`, `Sync`, and the rest of `Node`; both
   refinements. Every safety property that a run checks is a theorem, but
   `SureApplies`, which needs ENABLED.
4. What is left is in sections 5 (*What is only model-checked*) and 6.
