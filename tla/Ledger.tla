------------------------------- MODULE Ledger -------------------------------
(***************************************************************************)
(* What the state database promises to the rest of the node, free of the   *)
(* record log and of the indices that implement it: who holds each         *)
(* registered name, what each account owns of each stock, and that a       *)
(* transaction's commands take effect together or not at all               *)
(* (block_chain/transaction.hpp:8-11).                                     *)
(*                                                                         *)
(* An "account" is a name, a "stock" (type) is a name as well: every name  *)
(* may issue MaxAmount units of itself, once, and owns them until they are *)
(* transferred.                                                            *)
(***************************************************************************)
EXTENDS Integers, FiniteSets

CONSTANTS
    Name,           \* the strings that may be registered
    Address,        \* the names validate_address_format accepts
    EmptyName,      \* the empty string: "pay the generator"
    Key,            \* public keys somebody can sign with
    NoKey,          \* public_key_t(), the key of an address nobody claimed yet
    Unregistered,   \* "no key": the name is not in the ledger
    EncodeAddress,  \* encode_address: the address of a key
    MaxAmount       \* the largest uint64_t

ASSUME NameAssumption == Address \subseteq Name /\ EmptyName \notin Address
ASSUME KeyAssumption ==
    /\ NoKey \notin Key
    /\ Unregistered \notin Key \cup {NoKey}
    /\ EncodeAddress \in [Key -> Address]
ASSUME AmountAssumption == MaxAmount \in Nat

VARIABLES
    committed,  \* the ledger below the open transaction layer
    work,       \* the ledger as the open layer sees it
    applying,   \* is a transaction's command list being executed?
    signers,    \* the keys that signed that transaction
    gen         \* the name that its generator fees go to

vars == <<committed, work, applying, signers, gen>>

Amount == 0 .. MaxAmount
Account == Name \X Name   \* <<holder, stock>>

(***************************************************************************)
(* A ledger: the key of every name, the balance of every account, and the  *)
(* accounts that were ever touched (the ones has_balance reports).         *)
(***************************************************************************)
LedgerState == [key    : [Name -> Key \cup {NoKey, Unregistered}],
                bal    : [Account -> Amount],
                opened : SUBSET Account]

Registered(n) == work.key[n] # Unregistered

EmptyLedger == [key    |-> [n \in Name |-> Unregistered],
                bal    |-> [a \in Account |-> 0],
                opened |-> {}]

TypeOK ==
    /\ committed \in LedgerState
    /\ work \in LedgerState
    /\ applying \in BOOLEAN
    /\ signers \subseteq Key
    /\ gen \in Name \cup {EmptyName}

Init ==
    /\ committed = EmptyLedger
    /\ work = EmptyLedger
    /\ applying = FALSE
    /\ signers = {}
    /\ gen = EmptyName

-----------------------------------------------------------------------------
BeginTrx(sigs, g) ==
    /\ ~applying
    /\ applying' = TRUE
    /\ signers' = sigs
    /\ gen' = g
    /\ UNCHANGED <<committed, work>>

(* An address may always be (re)claimed for the key it encodes; any other  *)
(* registered name changes hands only with its holder's signature.         *)
RegisterName(n, k) ==
    /\ applying
    /\ \/ n = EncodeAddress[k]
       \/ ~Registered(n)
       \/ work.key[n] \in signers
    /\ work' = [work EXCEPT !.key[n] = k]
    /\ UNCHANGED <<committed, applying, signers, gen>>

(* (A slip for the checks to catch: a stock may be issued again.)          *)
IssueAgain(s) ==
    /\ applying
    /\ work.key[s] \in signers
    /\ work' = [work EXCEPT !.bal[<<s, s>>] = MaxAmount,
                            !.opened = @ \cup {<<s, s>>}]
    /\ UNCHANGED <<committed, applying, signers, gen>>

Issue(s) ==
    /\ applying
    /\ <<s, s>> \notin work.opened
    /\ work.key[s] \in signers
    /\ work' = [work EXCEPT !.bal[<<s, s>>] = MaxAmount,
                            !.opened = @ \cup {<<s, s>>}]
    /\ UNCHANGED <<committed, applying, signers, gen>>

(* (A slip: a self-transfer credits the balance read before the debit.)    *)
MovedFromStale(bal, f, d, s, n) ==
    [a \in Account |->
        CASE a = <<d, s>> -> bal[a] + n
          [] a = <<f, s>> /\ d # f -> bal[a] - n
          [] OTHER -> bal[a]]

(* The balances after n units of stock s moved from f to d.  When the      *)
(* generator pays itself through an empty destination (d = f) the units    *)
(* leave the account and are never credited.                               *)
Moved(bal, f, d, s, n) ==
    [a \in Account |->
        CASE a = <<f, s>> -> bal[a] - n
          [] a = <<d, s>> /\ d # f -> bal[a] + n
          [] OTHER -> bal[a]]

Transfer(f, t, s, n) ==
    LET d == IF t = EmptyName THEN gen ELSE t
    IN  /\ applying
        /\ t # EmptyName => f # t
        /\ Registered(s)
        /\ work.key[f] \in signers
        /\ n <= work.bal[<<f, s>>]
        /\ d \in Name
        /\ Registered(d) \/ d \in Address
        /\ work' = [key    |-> IF Registered(d) THEN work.key
                               ELSE [work.key EXCEPT ![d] = NoKey],
                    bal    |-> Moved(work.bal, f, d, s, n),
                    opened |-> work.opened \cup {<<f, s>>, <<d, s>>}]
        /\ UNCHANGED <<committed, applying, signers, gen>>

Return ==
    /\ applying' = FALSE
    /\ signers' = {}
    /\ gen' = EmptyName

EndTrx ==
    /\ applying
    /\ Return
    /\ UNCHANGED <<committed, work>>

Commit ==
    /\ ~applying
    /\ committed' = work
    /\ UNCHANGED <<work, applying, signers, gen>>

(* A failed command, a wrong checksum or a rebuilt generation state drops  *)
(* everything since the last commit.                                       *)
Discard ==
    /\ work' = committed
    /\ Return
    /\ UNCHANGED committed

Next ==
    \/ \E sigs \in SUBSET Key, g \in Name \cup {EmptyName} : BeginTrx(sigs, g)
    \/ \E n \in Name, k \in Key : RegisterName(n, k)
    \/ \E s \in Name : Issue(s)
    \/ \E f \in Name, t \in Name \cup {EmptyName}, s \in Name, n \in Amount :
           Transfer(f, t, s, n)
    \/ EndTrx
    \/ Commit
    \/ Discard

Spec == Init /\ [][Next]_vars

-----------------------------------------------------------------------------
(***************************************************************************)
(* The supply of a stock.  Its MaxAmount units can be dealt out so that    *)
(* every balance counts the units its account holds: no transfer creates a *)
(* unit.  (A unit nobody holds is not issued yet, or was lost when the     *)
(* generator paid itself.)                                                 *)
(***************************************************************************)
Unit == 1 .. MaxAmount

HeldBy(owner, n) == {u \in DOMAIN owner : owner[u] = n}

Backed(ledger, s) ==
    \E held \in SUBSET Unit : \E owner \in [held -> Name] :
        \A n \in Name : ledger.bal[<<n, s>>] = Cardinality(HeldBy(owner, n))

(* Nobody owns anything of a stock before the stock's own account opens.   *)
UnissuedIsWorthless(ledger) ==
    \A s \in Name : <<s, s>> \notin ledger.opened =>
                        \A n \in Name : ledger.bal[<<n, s>>] = 0

Sound(ledger) ==
    /\ \A s \in Name : Backed(ledger, s)
    /\ UnissuedIsWorthless(ledger)

(* The inductive invariant: types and supply hold each other up, since a   *)
(* credited balance stays an Amount only because the units are backed.     *)
SupplyInv == TypeOK /\ Sound(committed) /\ Sound(work)

(* The addition new_to_bal += amnt of transfer_balance never wraps: two    *)
(* accounts together never own more than was issued.                       *)
NoCounterfeit ==
    \A s, a, b \in Name :
        a # b => work.bal[<<a, s>>] + work.bal[<<b, s>>] <= MaxAmount
=============================================================================
