------------------------------- MODULE Wallet -------------------------------
(***************************************************************************)
(* The free_market program's command line (programs/free_market: main,     *)
(* keychain) on top of the ledger: the user builds a transaction one       *)
(* command at a time, each looked at against the ledger as it is then;     *)
(* commit signs it with the keys its commands seem to require and gives it *)
(* to the node, which tries what is pending whenever it builds a           *)
(* candidate or takes a block.                                             *)
(*                                                                         *)
(* Module Ledger is the state database: the node applies a transaction by  *)
(* its actions, and drops all of it when a command is refused.  The user   *)
(* and the node's handlers share the main thread, so nothing is typed      *)
(* while a transaction is applied.                                         *)
(***************************************************************************)
EXTENDS Ledger, SequencesExt

CONSTANTS
    Stock,        \* the names that are issued and paid with
    Payee,        \* those that are paid, EmptyName for the generator
    Generator,    \* the names blocks are generated under; may hold EmptyName
    MaxCommands,  \* bound: the commands of a transaction
    MaxPending    \* bound: no more is typed while so many are pending

ASSUME WalletBounds ==
    /\ Stock \subseteq Name /\ Payee \subseteq Name \cup {EmptyName}
    /\ Generator \subseteq Name \cup {EmptyName}
    /\ MaxCommands \in Nat /\ MaxPending \in Nat

VARIABLES
    made,      \* every key anybody made
    keychain,  \* the keys of the wallet's database, each under its address
    synced,    \* those of them a crash cannot lose
    others,    \* the keys other people hold
    trx,       \* the commands of the transaction the user builds
    fresh,     \* history: no change of the ledger since its first command
    pool,      \* the wallet's pending transactions
    running    \* the transaction that is being applied, and its next command

ledgervars == <<committed, work, applying, signers, gen>>
keys == <<made, keychain, synced, others>>
allvars == <<ledgervars, keys, trx, fresh, pool, running>>

register_name(n, k) == [id |-> "register_name", name |-> n, key |-> k]
issue(s) == [id |-> "issue", stock |-> s]
transfer(f, t, s, n) ==
    [id |-> "transfer", from |-> f, to |-> t, stock |-> s, amount |-> n]

Command ==
    {register_name(n, k) : n \in Name, k \in Key}
    \cup {issue(s) : s \in Stock}
    \cup {transfer(f, t, s, n) :
              f \in Name, t \in Payee, s \in Stock, n \in Amount}

Subject(c) ==
    CASE c.id = "register_name" -> c.name
      [] c.id = "issue" -> c.stock
      [] c.id = "transfer" -> c.from

(* A transaction's `checked' is history: it was "signed" against the ledger *)
(* as it is, or "sure", typed as one command against it as well.           *)
NoTrx == [commands |-> << >>, sigs |-> {}, checked |-> "not"]
NoRun == [trx |-> NoTrx, at |-> 0]

WalletInit ==
    /\ Init
    /\ made = {} /\ keychain = {} /\ synced = {} /\ others = {}
    /\ trx = << >> /\ fresh = TRUE /\ pool = {} /\ running = NoRun

-----------------------------------------------------------------------------
(***************************************************************************)
(* The wallet's view: the node's pending state and its own keychain.       *)
(***************************************************************************)
IsKnown(n) == committed.key[n] # Unregistered
HasKeyOf(n) == committed.key[n] \in keychain

MayType == ~applying /\ UNCHANGED <<ledgervars, others, pool, running>>

Adds(cmds) ==
    /\ Len(trx) + Len(cmds) <= MaxCommands /\ Cardinality(pool) < MaxPending
    /\ trx' = trx \o cmds
    /\ UNCHANGED fresh

NewKey(k) == k \notin made /\ made' = made \cup {k}

(* genkey: the record is not synchronised.                                 *)
GenKey(k) ==
    /\ MayType
    /\ NewKey(k)
    /\ keychain' = keychain \cup {k}
    /\ UNCHANGED <<synced, trx, fresh>>

(* (A slip: nor is it here.)                                               *)
RegisterUnsynced(n, k) ==
    /\ MayType
    /\ NewKey(k) /\ n # EncodeAddress[k]
    /\ IsKnown(n) => HasKeyOf(n)
    /\ keychain' = keychain \cup {k}
    /\ UNCHANGED synced
    /\ Adds(<<register_name(n, k)>>)

(* register makes a new key, whatever address is given, and signs with the *)
(* old one at once: that signature is of a transaction without its time,   *)
(* and is never valid.                                                     *)
Register(n, k) ==
    /\ MayType
    /\ NewKey(k) /\ n # EncodeAddress[k]
    /\ IsKnown(n) => HasKeyOf(n)
    /\ keychain' = keychain \cup {k}
    /\ synced' = keychain'
    /\ Adds(<<register_name(n, k)>>)

IssueStock(s) ==
    /\ MayType
    /\ <<s, s>> \notin committed.opened
    /\ Adds(<<issue(s)>>)
    /\ UNCHANGED <<made, keychain, synced>>

(* What transfer looks at before it adds the command.  Of the sources it   *)
(* has no key of, only addresses are refused.                              *)
MayTransfer(f, t, s, n) ==
    /\ IsKnown(s) /\ IsKnown(f)
    /\ t \in Name \ Address => IsKnown(t)
    /\ n <= committed.bal[<<f, s>>]

(* (A slip: whether there is enough is left to the node.)                  *)
TransferUnchecked(f, t, s, n) ==
    /\ MayType
    /\ IsKnown(s) /\ IsKnown(f)
    /\ t \in Name \ Address => IsKnown(t)
    /\ HasKeyOf(f) \/ f \notin Address
    /\ Adds(<<transfer(f, t, s, n)>>)
    /\ UNCHANGED <<made, keychain, synced>>

TransferStock(f, t, s, n) ==
    /\ MayType
    /\ MayTransfer(f, t, s, n)
    /\ HasKeyOf(f) \/ f \notin Address
    /\ Adds(<<transfer(f, t, s, n)>>)
    /\ UNCHANGED <<made, keychain, synced>>

(* An address of the wallet's own that the ledger has no key for yet.      *)
TransferFromUnclaimed(f, t, s, n) ==
    /\ MayType
    /\ MayTransfer(f, t, s, n)
    /\ ~HasKeyOf(f)
    /\ \E k \in keychain :
        /\ EncodeAddress[k] = f
        /\ Adds(<<register_name(f, k), transfer(f, t, s, n)>>)
    /\ UNCHANGED <<made, keychain, synced>>

(* start and abort.                                                        *)
StartOver ==
    /\ MayType
    /\ trx' = << >> /\ fresh' = TRUE
    /\ UNCHANGED <<made, keychain, synced>>

-----------------------------------------------------------------------------
(***************************************************************************)
(* sign: one command after the other, against the ledger of now; `names'   *)
(* are those that are signed for.                                          *)
(***************************************************************************)
Signing == [ok |-> TRUE, names |-> {}, sigs |-> {}]

Signed(s, ns, k) == [s EXCEPT !.names = @ \cup ns, !.sigs = @ \cup {k}]

SignFor(s, n) ==
    IF n \in s.names THEN s
    ELSE IF HasKeyOf(n) THEN Signed(s, {n}, committed.key[n])
    ELSE [s EXCEPT !.ok = FALSE]

(* (A slip: the signature of when it was typed is relied on.)              *)
SignRegisterEarly(s, n, k) ==
    IF n \in s.names \/ (n = EncodeAddress[k] /\ k \notin keychain) THEN s
    ELSE IF n = EncodeAddress[k] THEN Signed(s, {n}, k)
    ELSE [s EXCEPT !.ok = s.ok /\ (HasKeyOf(n) \/ ~IsKnown(n))]

SignRegister(s, n, k) ==
    IF n \in s.names \/ (n = EncodeAddress[k] /\ k \notin keychain) THEN s
    ELSE IF n = EncodeAddress[k] THEN Signed(s, {n}, k)
    ELSE IF HasKeyOf(n) THEN Signed(s, {}, committed.key[n])
    ELSE [s EXCEPT !.ok = s.ok /\ ~IsKnown(n)]

SignCommand(s, c) ==
    CASE c.id = "transfer" -> SignFor(s, c.from)
      [] c.id = "issue" -> SignFor(s, c.stock)
      [] c.id = "register_name" -> SignRegister(s, c.name, c.key)

Sign(cmds) == FoldLeft(SignCommand, Signing, cmds)

(* What is not signed for all its commands is dropped.                     *)
CommitTrx ==
    /\ ~applying /\ Cardinality(pool) < MaxPending
    /\ LET s == Sign(trx)
           one == \/ Len(trx) = 1
                  \/ /\ Len(trx) = 2 /\ trx[1].id = "register_name"
                     /\ trx[1].name = EncodeAddress[trx[1].key]
       IN  pool' = IF s.ok
                   THEN pool \cup {[commands |-> trx, sigs |-> s.sigs,
                                    checked |-> IF one /\ fresh THEN "sure" ELSE "signed"]}
                   ELSE pool
    /\ trx' = << >> /\ fresh' = TRUE
    /\ UNCHANGED <<ledgervars, keys, running>>

(* The program ends, also when the user asks for the address of a name     *)
(* nobody registered.                                                      *)
Exit ==
    /\ ~applying
    /\ synced' = keychain /\ trx' = << >> /\ fresh' = TRUE
    /\ UNCHANGED <<ledgervars, made, keychain, others, pool, running>>

Crash ==
    /\ ~applying
    /\ keychain' = synced /\ trx' = << >> /\ fresh' = TRUE
    /\ UNCHANGED <<ledgervars, made, synced, others, pool, running>>

-----------------------------------------------------------------------------
(***************************************************************************)
(* Other people, whose transactions come with blocks, of one command they  *)
(* have the key for.                                                       *)
(***************************************************************************)
OtherKey(k) ==
    /\ ~applying
    /\ NewKey(k)
    /\ others' = others \cup {k}
    /\ UNCHANGED <<ledgervars, keychain, synced, trx, fresh, pool, running>>

Begin(t, g) ==
    /\ BeginTrx(t.sigs, g)
    /\ running' = [trx |-> t, at |-> 1]
    /\ UNCHANGED <<keys, trx, fresh, pool>>

BeginOther(c, g) ==
    /\ \/ c.id = "register_name" /\ c.key \in others
       \/ c.id # "register_name" /\ committed.key[Subject(c)] \in others
    /\ Begin([commands |-> <<c>>, sigs |-> others, checked |-> "not"], g)

Execute(c) ==
    \/ c.id = "register_name" /\ RegisterName(c.name, c.key)
    \/ c.id = "issue" /\ Issue(c.stock)
    \/ c.id = "transfer" /\ Transfer(c.from, c.to, c.stock, c.amount)

NextCommand == running.trx.commands[running.at]
AtEnd == running.at > Len(running.trx.commands)

ExecuteNext ==
    /\ applying /\ ~AtEnd
    /\ Execute(NextCommand)
    /\ running' = [running EXCEPT !.at = @ + 1]
    /\ UNCHANGED <<keys, trx, fresh, pool>>

(* A refused transaction stays pending: the node tries it again each time. *)
Refuse ==
    /\ applying /\ ~AtEnd
    /\ ~ENABLED Execute(NextCommand)
    /\ Discard
    /\ running' = NoRun
    /\ UNCHANGED <<keys, trx, fresh, pool>>

Applied ==
    /\ applying /\ AtEnd
    /\ Return
    /\ committed' = work
    /\ running' = NoRun
    /\ LET same == work = committed IN
       /\ fresh' = (fresh /\ (trx = << >> \/ same))
       /\ pool' = {[t EXCEPT !.checked = IF same THEN @ ELSE "not"] :
                       t \in pool \ {running.trx}}
    /\ UNCHANGED <<work, keys, trx>>

WalletNext ==
    \/ \E k \in Key : GenKey(k) \/ OtherKey(k) \/ \E n \in Name : Register(n, k)
    \/ \E s \in Stock : IssueStock(s)
    \/ \E f \in Name, t \in Payee, s \in Stock, n \in Amount :
        TransferStock(f, t, s, n) \/ TransferFromUnclaimed(f, t, s, n)
    \/ StartOver \/ CommitTrx \/ Exit \/ Crash
    \/ \E g \in Generator :
        \/ \E t \in pool : Begin(t, g)
        \/ \E c \in Command : BeginOther(c, g)
    \/ ExecuteNext \/ Refuse \/ Applied

WalletSpec == WalletInit /\ [][WalletNext]_allvars

-----------------------------------------------------------------------------
WalletTypeOK ==
    /\ synced \subseteq keychain /\ keychain \cap others = {}
    /\ keychain \cup others \subseteq made /\ made \subseteq Key
    /\ Len(trx) <= MaxCommands /\ ToSet(trx) \subseteq Command
    /\ \A t \in pool : ToSet(t.commands) \subseteq Command /\ t.sigs \subseteq made \ others
    /\ applying <=> running # NoRun

(* A name that register gave a key keeps a key the wallet can sign with,   *)
(* crash or not; (an address from genkey does not).                        *)
KeysAreKept ==
    \A n \in Name :
        LET k == committed.key[n] IN
        k \in Key \ others /\ n # EncodeAddress[k] => k \in synced

(* The wallet holds what it has to sign with.                              *)
WalletSound == WalletTypeOK /\ KeysAreKept

PaysItself(c) == c.id = "transfer" /\ c.from = c.to

PaysNobody(c) ==
    c.id = "transfer" /\ c.to = EmptyName /\ (gen \in Name \ Address => ~Registered(gen))

(* What the wallet lets through as one command, and the ledger has not     *)
(* changed since, is not refused: except that it lets an account pay       *)
(* itself, and cannot know who will be the generator.                      *)
SureApplies ==
    [][Refuse => \/ running.trx.checked # "sure"
                 \/ PaysItself(NextCommand) \/ PaysNobody(NextCommand)]_allvars

NeedsSignature(c) ==
    IF c.id = "register_name"
    THEN Registered(c.name) /\ c.name # EncodeAddress[c.key]
    ELSE TRUE

(* A command before the next one gives its name a key: it registers it, or *)
(* pays an address nobody did.                                             *)
Rekeyed ==
    \E i \in 1 .. running.at - 1 :
        LET c == running.trx.commands[i]
            n == Subject(NextCommand)
        IN \/ c.id = "register_name" /\ c.name = n
           \/ c.id = "transfer" /\ n \in Address \cap {c.to, IF c.to = EmptyName THEN gen ELSE c.to}

(* What sign accepted, and the ledger has not changed since, is not        *)
(* refused for want of a signature, unless a name changes hands in it.     *)
SignedIsEnough ==
    [][Refuse /\ running.trx.checked # "not" =>
           \/ ~NeedsSignature(NextCommand)
           \/ work.key[Subject(NextCommand)] \in signers
           \/ Rekeyed]_allvars
=============================================================================
