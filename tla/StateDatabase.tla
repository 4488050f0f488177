---------------------------- MODULE StateDatabase ----------------------------
(***************************************************************************)
(* The state database (libs/gpm/statedb): an append-only log of records    *)
(* with two indices, the last record that edited a name and the last       *)
(* transfer of an account, and a transaction layer that keeps its writes   *)
(* local until commit.  A command reads keys and balances by following the *)
(* indices into the log.                                                   *)
(*                                                                         *)
(* A position is the ordinal of a record in the log, from 1, where the     *)
(* code uses its byte offset; None stands for uint64_t(-1).  `base' is the *)
(* database below the open layer, `local' the layer: reading a record or   *)
(* an index entry through the layer falls through to the base.             *)
(***************************************************************************)
EXTENDS Integers, Sequences, FiniteSets

CONSTANTS
    Name, Address, EmptyName, Key, NoKey, Unregistered, EncodeAddress,
    MaxAmount,
    Generator,  \* the names blocks are generated under; may hold EmptyName
    MaxLog      \* bound: the number of records the log may reach

ASSUME NameAssumption == Address \subseteq Name /\ EmptyName \notin Address
ASSUME KeyAssumption ==
    /\ NoKey \notin Key
    /\ Unregistered \notin Key \cup {NoKey}
    /\ EncodeAddress \in [Key -> Address]
ASSUME BoundAssumption ==
    /\ MaxAmount \in Nat
    /\ MaxLog \in Nat
    /\ Generator \subseteq Name \cup {EmptyName}

VARIABLES
    base,      \* the layers below: file, file cache and head transaction
    local,     \* local_changes, last_name_edit_map and last_transfer_map
    applying,  \* is apply(signed_transaction) between two commands?
    signers,   \* the keys trx.verify accepts
    gen,       \* gen_name
    trx_pos    \* position of the transaction's start_trx record

vars == <<base, local, applying, signers, gen, trx_pos>>

None == 0
Amount == 0 .. MaxAmount
Account == Name \X Name   \* <<holder, stock>>

DefineName  == [kind : {"define_name"}, name : Name, key : Key \cup {NoKey}]
UpdateName  == [kind : {"update_name"}, name_idx : Nat, key : Key,
                last_update_idx : Nat]
TransferLog == [kind : {"transfer_log"}, amount : Amount,
                type_name : Nat, from_name : Nat, to_name : Nat,
                new_from_bal : Amount, new_to_bal : Amount,
                last_from_trx : Nat, last_to_trx : Nat, trx_idx : Nat]
StartTrx    == [kind : {"start_trx"}]
EndBlock    == [kind : {"end_block"}]
Record == DefineName \cup UpdateName \cup TransferLog \cup StartTrx \cup EndBlock

(***************************************************************************)
(* A layer: records, name_index and account_index (keyed by the positions  *)
(* of the two names' define_name records).                                 *)
(***************************************************************************)
EmptyIndex == [x \in {} |-> None]
EmptyLayer == [log |-> << >>, names |-> EmptyIndex, transfers |-> EmptyIndex]

(* (A slip for the checks to catch: what is below wins over the layer.)    *)
OverBelow(f, g) ==
    [x \in DOMAIN f \cup DOMAIN g |-> IF x \in DOMAIN g THEN g[x] ELSE f[x]]

(* A lookup in f that falls through to g.                                  *)
Over(f, g) ==
    [x \in DOMAIN f \cup DOMAIN g |-> IF x \in DOMAIN f THEN f[x] ELSE g[x]]

Stacked(b, l) == [log       |-> b.log \o l.log,
                  names     |-> Over(l.names, b.names),
                  transfers |-> Over(l.transfers, b.transfers)]

view == Stacked(base, local)
size == Len(view.log)

(* Appending a record r, which will be at position pos, to a layer.        *)
Logged(l, r) == [l EXCEPT !.log = Append(@, r)]
Named(l, n, r, pos) ==
    [Logged(l, r) EXCEPT !.names = Over([x \in {n} |-> pos], @)]
(* (A slip: only the payer's account is indexed.)                          *)
PayerAccount(r) == {<<r.from_name, r.type_name>>}

Accounts(r) == {<<r.from_name, r.type_name>>, <<r.to_name, r.type_name>>}
Transferred(l, r, pos) ==
    [Logged(l, r) EXCEPT !.transfers = Over([a \in Accounts(r) |-> pos], @)]

-----------------------------------------------------------------------------
(***************************************************************************)
(* The queries, on a stack of layers v.                                    *)
(***************************************************************************)
get_last_name_edit_index(v, n) ==
    IF n \in DOMAIN v.names THEN v.names[n] ELSE None

get_last_transfer_index(v, a) ==
    IF a \in DOMAIN v.transfers THEN v.transfers[a] ELSE None

get_name_index(v, n) ==
    LET e == get_last_name_edit_index(v, n) IN
    IF e = None THEN None
    ELSE IF v.log[e].kind = "define_name" THEN e
    ELSE v.log[e].name_idx

get_public_key_t(v, n) ==
    LET e == get_last_name_edit_index(v, n) IN
    IF e = None THEN Unregistered ELSE v.log[e].key

AccountKey(v, n, s) == <<get_name_index(v, n), get_name_index(v, s)>>

IsNull(v, n, s) == get_last_transfer_index(v, AccountKey(v, n, s)) = None

get_balance(v, n, s) ==
    LET p == get_last_transfer_index(v, AccountKey(v, n, s)) IN
    IF p = None THEN 0
    ELSE IF v.log[p].from_name = get_name_index(v, n)
         THEN v.log[p].new_from_bal
         ELSE v.log[p].new_to_bal

(* transfer::previous: the transfer before the one at p in an account's    *)
(* history, or None at its end.  (uint64_t(-1), None, is below no index.)  *)
previous(v, p, account) ==
    LET r == v.log[p]
        prev == IF account = r.to_name THEN r.last_to_trx ELSE r.last_from_trx
    IN  IF r.to_name = r.from_name THEN None
        ELSE IF account \in {r.to_name, r.from_name} /\ prev < p THEN prev
        ELSE None

-----------------------------------------------------------------------------
Init ==
    /\ base = EmptyLayer
    /\ local = EmptyLayer
    /\ applying = FALSE
    /\ signers = {}
    /\ gen = EmptyName
    /\ trx_pos = None

BeginTrx(sigs, g) ==
    /\ ~applying
    /\ size < MaxLog
    /\ local' = Logged(local, [kind |-> "start_trx"])
    /\ applying' = TRUE
    /\ signers' = sigs
    /\ gen' = g
    /\ trx_pos' = size + 1
    /\ UNCHANGED base

(* (A slip: an update points at the last edit, not at the definition.)     *)
KeyRecordOfLastEdit(v, n, k) ==
    LET e == get_last_name_edit_index(v, n) IN
    IF e = None THEN [kind |-> "define_name", name |-> n, key |-> k]
    ELSE [kind |-> "update_name", name_idx |-> e, key |-> k,
          last_update_idx |-> e]

(* set_public_key appends a define_name for a new name, and otherwise an   *)
(* update_name that keeps the position of the definition.                  *)
KeyRecord(v, n, k) ==
    LET e == get_last_name_edit_index(v, n) IN
    IF e = None THEN [kind |-> "define_name", name |-> n, key |-> k]
    ELSE [kind |-> "update_name", name_idx |-> get_name_index(v, n),
          key |-> k, last_update_idx |-> e]

(* (A slip: whoever holds the name need not sign.)                         *)
RegisterNameUnsigned(n, k) ==
    /\ applying
    /\ size < MaxLog
    /\ local' = Named(local, n, KeyRecord(view, n, k), size + 1)
    /\ UNCHANGED <<base, applying, signers, gen, trx_pos>>

RegisterName(n, k) ==
    /\ applying
    /\ size < MaxLog
    /\ \/ n = EncodeAddress[k]
       \/ get_public_key_t(view, n) = Unregistered
       \/ get_public_key_t(view, n) \in signers
    /\ local' = Named(local, n, KeyRecord(view, n, k), size + 1)
    /\ UNCHANGED <<base, applying, signers, gen, trx_pos>>

IssueRecord(v, s, pos) ==
    LET i == get_name_index(v, s) IN
    [kind |-> "transfer_log", amount |-> MaxAmount,
     type_name |-> i, from_name |-> i, to_name |-> i,
     new_from_bal |-> MaxAmount, new_to_bal |-> MaxAmount,
     last_from_trx |-> None, last_to_trx |-> None, trx_idx |-> pos]

Issue(s) ==
    /\ applying
    /\ size < MaxLog
    /\ IsNull(view, s, s)
    /\ get_public_key_t(view, s) \in signers
    /\ local' = Transferred(local, IssueRecord(view, s, trx_pos), size + 1)
    /\ UNCHANGED <<base, applying, signers, gen, trx_pos>>

(* The conditions of a transfer of n units of s that do not depend on the  *)
(* destination.                                                            *)
MayTransfer(f, t, s, n) ==
    /\ applying
    /\ t # EmptyName => f # t
    /\ get_public_key_t(view, s) # Unregistered
    /\ get_public_key_t(view, f) \in signers
    /\ n <= get_balance(view, f, s)

Destination(t) == IF t = EmptyName THEN gen ELSE t

(* transfer_balance; uint64 additions wrap.                                *)
TransferRecord(v, f, d, s, n, pos) ==
    [kind |-> "transfer_log", amount |-> n,
     type_name |-> get_name_index(v, s),
     from_name |-> get_name_index(v, f),
     to_name |-> get_name_index(v, d),
     new_from_bal |-> get_balance(v, f, s) - n,
     new_to_bal |-> (get_balance(v, d, s) + n) % (MaxAmount + 1),
     last_from_trx |-> get_last_transfer_index(v, AccountKey(v, f, s)),
     last_to_trx |-> get_last_transfer_index(v, AccountKey(v, d, s)),
     trx_idx |-> pos]

TransferToName(f, t, s, n) ==
    LET d == Destination(t) IN
    /\ MayTransfer(f, t, s, n)
    /\ size < MaxLog
    /\ get_name_index(view, d) # None
    /\ local' = Transferred(local, TransferRecord(view, f, d, s, n, trx_pos),
                            size + 1)
    /\ UNCHANGED <<base, applying, signers, gen, trx_pos>>

(* The address of a key that nobody registered yet is defined with no key. *)
AddressRecord(d) == [kind |-> "define_name", name |-> d, key |-> NoKey]

TransferToAddress(f, t, s, n) ==
    LET d == Destination(t)
        l == Named(local, d, AddressRecord(d), size + 1)
    IN  /\ MayTransfer(f, t, s, n)
        /\ size + 1 < MaxLog
        /\ get_name_index(view, d) = None
        /\ d \in Address
        /\ local' = Transferred(l,
                        TransferRecord(Stacked(base, l), f, d, s, n, trx_pos),
                        size + 2)
        /\ UNCHANGED <<base, applying, signers, gen, trx_pos>>

Return ==
    /\ applying' = FALSE
    /\ signers' = {}
    /\ gen' = EmptyName
    /\ trx_pos' = None

EndTrx ==
    /\ applying
    /\ Return
    /\ UNCHANGED <<base, local>>

(* The end of apply(block), after its transactions.                        *)
ApplyBlock ==
    /\ ~applying
    /\ size < MaxLog
    /\ local' = Logged(local, [kind |-> "end_block"])
    /\ UNCHANGED <<base, applying, signers, gen, trx_pos>>

Commit ==
    /\ ~applying
    /\ base' = Stacked(base, local)
    /\ local' = EmptyLayer
    /\ UNCHANGED <<applying, signers, gen, trx_pos>>

(* A command that is refused makes apply return false (or throw), and the  *)
(* layer is aborted; a node that rebuilds its pending state drops it too.  *)
Discard ==
    /\ local' = EmptyLayer
    /\ Return
    /\ UNCHANGED base

Next ==
    \/ \E sigs \in SUBSET Key, g \in Generator : BeginTrx(sigs, g)
    \/ \E n \in Name, k \in Key : RegisterName(n, k)
    \/ \E s \in Name : Issue(s)
    \/ \E f \in Name, t \in Name \cup {EmptyName}, s \in Name, n \in Amount :
           TransferToName(f, t, s, n) \/ TransferToAddress(f, t, s, n)
    \/ EndTrx
    \/ ApplyBlock
    \/ Commit
    \/ Discard

Spec == Init /\ [][Next]_vars

-----------------------------------------------------------------------------
IsIndex(f, S) == DOMAIN f \subseteq S /\ f \in [DOMAIN f -> Nat]

LayerOK(l) ==
    /\ l = [log |-> l.log, names |-> l.names, transfers |-> l.transfers]
    /\ l.log \in Seq(Record)
    /\ IsIndex(l.names, Name)
    /\ IsIndex(l.transfers, Nat \X Nat)

TypeOK ==
    /\ LayerOK(base)
    /\ LayerOK(local)
    /\ applying \in BOOLEAN
    /\ signers \subseteq Key
    /\ gen \in Generator \cup {EmptyName}
    /\ trx_pos \in 0 .. MaxLog

(***************************************************************************)
(* The log and the indices agree.                                          *)
(***************************************************************************)
Kind(v, p) == v.log[p].kind
Defines(v, p) == p \in 1 .. Len(v.log) /\ Kind(v, p) = "define_name"

(* The name index leads to the record that last gave a name its key, and   *)
(* from there to the one record that defines the name: no name is ever     *)
(* defined twice, so its accounts are never lost under a second index.     *)
NamesSound(v) ==
    /\ \A n \in DOMAIN v.names :
           LET e == v.names[n] IN
           /\ e \in 1 .. Len(v.log)
           /\ Kind(v, e) \in {"define_name", "update_name"}
           /\ Defines(v, get_name_index(v, n))
           /\ v.log[get_name_index(v, n)].name = n
    /\ \A p \in 1 .. Len(v.log) : Defines(v, p) =>
           get_name_index(v, v.log[p].name) = p

(* An entry of the account index is a transfer of that account and stock,  *)
(* so get_balance never throws.                                            *)
Touches(r, a) ==
    /\ r.kind = "transfer_log"
    /\ r.type_name = a[2]
    /\ a[1] \in {r.from_name, r.to_name}

IndexSound(v) ==
    \A a \in DOMAIN v.transfers :
        LET p == v.transfers[a] IN
        /\ Defines(v, a[1]) /\ Defines(v, a[2])
        /\ p \in 1 .. Len(v.log)
        /\ Touches(v.log[p], a)

(* p is the last transfer of account a before position b, or None if there *)
(* is none.                                                                *)
IsLastTransfer(v, p, a, b) ==
    /\ p # None => p \in 1 .. b - 1 /\ Touches(v.log[p], a)
    /\ \A q \in p + 1 .. b - 1 : ~Touches(v.log[q], a)

(* The history of every account is complete: the account index points at   *)
(* its last transfer, each transfer links to the one before it, on the     *)
(* payer's side and on the payee's, and walking back with previous misses  *)
(* none, unless the transfer at hand is of an account to itself.           *)
HistoryComplete(v) ==
    /\ \A x, y \in 1 .. Len(v.log) :
           IsLastTransfer(v, get_last_transfer_index(v, <<x, y>>), <<x, y>>,
                          Len(v.log) + 1)
    /\ \A p \in 1 .. Len(v.log) : Kind(v, p) = "transfer_log" =>
           LET r == v.log[p] IN
           /\ IsLastTransfer(v, r.last_from_trx, <<r.from_name, r.type_name>>, p)
           /\ IsLastTransfer(v, r.last_to_trx, <<r.to_name, r.type_name>>, p)
           /\ \A a \in Accounts(r) :
                  r.from_name # r.to_name =>
                      IsLastTransfer(v, previous(v, p, a[1]), a, p)

(* A transfer is stamped with the start_trx record of its own transaction, *)
(* from which a query reads its time.                                      *)
StampSound(v) ==
    \A p \in 1 .. Len(v.log) : Kind(v, p) = "transfer_log" =>
        LET t == v.log[p].trx_idx IN
        /\ t \in 1 .. p - 1
        /\ Kind(v, t) = "start_trx"
        /\ \A q \in t + 1 .. p - 1 : Kind(v, q) \notin {"start_trx", "end_block"}

Consistent ==
    \A v \in {base, view} : NamesSound(v) /\ IndexSound(v)

(* Below the open layer and through it, the log can be read: the indices   *)
(* say where a name or an account was last written, and each transfer when.*)
LogSound ==
    /\ TypeOK
    /\ Consistent
    /\ StampSound(base) /\ StampSound(view)

(* No account's history has a gap, in either view.                         *)
History == HistoryComplete(base) /\ HistoryComplete(view)

(* A name changes hands, and an account is debited, only in a transaction  *)
(* its holder signed (or when an address goes back to its own key).        *)
HolderApproves ==
    [][ \A n \in Name :
          LET k == get_public_key_t(view, n)
              approved == k \in signers
          IN  applying /\ applying' =>
              /\ k \in {get_public_key_t(view', n), Unregistered}
                 \/ approved \/ n = EncodeAddress[get_public_key_t(view', n)]
              /\ \A s \in Name :
                    get_balance(view', n, s) < get_balance(view, n, s)
                        => approved
      ]_vars

-----------------------------------------------------------------------------
-----------------------------------------------------------------------------
(* The ledger a stack of layers stands for.                                *)
LedgerOf(v) ==
    [key    |-> [n \in Name |-> get_public_key_t(v, n)],
     bal    |-> [a \in Account |-> get_balance(v, a[1], a[2])],
     opened |-> {a \in Account : ~IsNull(v, a[1], a[2])}]

L == INSTANCE Ledger WITH committed <- LedgerOf(base), work <- LedgerOf(view)

(* The log and its indices implement the ledger: every command has exactly *)
(* its effect on keys and balances, with no wrap of the uint64 additions,  *)
(* and commit and abort are all or nothing.                                *)
ImplementsLedger == L!Spec
=============================================================================
