---------------------------- MODULE WalletProofs ----------------------------
(***************************************************************************)
(* Whatever the names, keys, stocks and commands, and whoever pays whom:   *)
(* the node's ledger keeps what Ledger promises while it applies the       *)
(* wallet's transactions and those of others, the wallet has the keys it   *)
(* has to sign with, and what sign accepts is signed for.                  *)
(***************************************************************************)
EXTENDS Wallet, LedgerProofs, SequenceTheorems, WellFoundedInduction, TLAPS

Transaction == [commands : Seq(Command), sigs : SUBSET Key,
                checked : {"not", "signed", "sure"}]

(* The wallet has the key of a name that it gave one, unless it is an      *)
(* address, in the database that a crash leaves.                           *)
KeyIsSafe(n, k) == k \in Key \ others /\ n # EncodeAddress[k] => k \in synced

SafeCommands(cmds) ==
    \A i \in DOMAIN cmds :
        cmds[i].id = "register_name" => KeyIsSafe(cmds[i].name, cmds[i].key)

(* Name n has a key to sign the i-th command with: its own as committed,   *)
(* or one that an earlier command registers.                               *)
RegisteredBefore(cmds, i, n) ==
    \E j \in 1 .. i - 1 : cmds[j].id = "register_name" /\ cmds[j].name = n

SignedFor(cmds, i, n, sigs) ==
    committed.key[n] \in sigs \/ RegisteredBefore(cmds, i, n)

IsSigned(cmds, i, sigs) ==
    LET c == cmds[i] IN
    IF c.id = "register_name"
    THEN \/ c.name = EncodeAddress[c.key]
         \/ committed.key[c.name] = Unregistered
         \/ SignedFor(cmds, i, c.name, sigs)
    ELSE SignedFor(cmds, i, Subject(c), sigs)

TrxSigned(t) ==
    t.checked # "not" => \A i \in DOMAIN t.commands : IsSigned(t.commands, i, t.sigs)

(* What happened to the key of a name since the transaction began.         *)
RekeyedBy(n) ==
    \E i \in 1 .. running.at - 1 :
        LET c == running.trx.commands[i] IN
        \/ c.id = "register_name" /\ c.name = n
        \/ c.id = "transfer" /\ n \in Address \cap {c.to, IF c.to = EmptyName THEN gen ELSE c.to}

WalletTypes ==
    /\ WalletTypeOK
    /\ trx \in Seq(Command) /\ pool \subseteq Transaction
    /\ running \in [trx : Transaction, at : Nat]
    /\ applying => running.at # 0

SafeInv ==
    /\ SafeCommands(trx)
    /\ \A t \in pool : SafeCommands(t.commands)
    /\ SafeCommands(running.trx.commands)
    /\ \A n \in Name : KeyIsSafe(n, committed.key[n]) /\ KeyIsSafe(n, work.key[n])

SignedInv ==
    /\ \A t \in pool : TrxSigned(t)
    /\ TrxSigned(running.trx)
    /\ ~applying => work = committed
    /\ applying => signers = running.trx.sigs
    /\ applying => \A n \in Name : work.key[n] = committed.key[n] \/ RekeyedBy(n)

WalletInv == SupplyInv /\ WalletTypes /\ SafeInv /\ SignedInv

-----------------------------------------------------------------------------
(* The number of a sequence's elements is the largest of their positions.  *)
LEMMA MaxOfInterval ==
    ASSUME NEW m \in Nat, NEW t \in SUBSET (1 .. m + 1), m + 1 \in t
    PROVE  Max(t) = m + 1
<1>1. m + 1 \in Int /\ \A x \in t : x \in Int /\ m + 1 >= x
    OBVIOUS
<1>2. \A n \in t : (\A x \in t : n >= x) => n = m + 1
    BY <1>1
<1>3. Max(t) \in t /\ \A x \in t : Max(t) >= x
    BY <1>1 DEF Max
<1>. QED
    BY <1>2, <1>3

(* sign goes through the commands from the first to the last: what folding *)
(* over the sets of positions defines exists, for it is extended from the  *)
(* positions up to m to those up to m + 1.                                 *)
LEMMA SignSteps ==
    ASSUME NEW cmds \in Seq(Command)
    PROVE  \E g : /\ g[0] = Signing /\ Sign(cmds) = g[Len(cmds)]
                  /\ \A m \in 0 .. Len(cmds) - 1 :
                       g[m + 1] = SignCommand(g[m], cmds[m + 1])
<1>. DEFINE D == DOMAIN cmds
            Step(w, t) == IF t = {} THEN Signing
                          ELSE SignCommand(w[t \ {Max(t)}], cmds[Max(t)])
            iter == CHOOSE w : w = [t \in SUBSET D |-> Step(w, t)]
            Has(m) == \E w : w = [t \in SUBSET (1 .. m) |-> Step(w, t)]
            less == OpToRel(<, Nat)
<1>1. D = 1 .. Len(cmds) /\ Len(cmds) \in Nat
    OBVIOUS
<1>2. Has(0)
  <2>. DEFINE w == [t \in SUBSET (1 .. 0) |-> Signing]
  <2>1. SUBSET (1 .. 0) = {{}}
      OBVIOUS
  <2>2. w = [t \in SUBSET (1 .. 0) |-> Step(w, t)]
      BY <2>1
  <2>. QED
      BY <2>2
<1>3. ASSUME NEW m \in Nat, Has(m)
      PROVE  Has(m + 1)
  <2>1. PICK w : w = [t \in SUBSET (1 .. m) |-> Step(w, t)]
      BY <1>3
  <2>. DEFINE v == [t \in SUBSET (1 .. m + 1) |->
                      IF m + 1 \in t
                      THEN SignCommand(w[t \ {m + 1}], cmds[m + 1]) ELSE w[t]]
  <2>2. ASSUME NEW t \in SUBSET (1 .. m + 1)
        PROVE  v[t] = Step(v, t)
    <3>1. CASE m + 1 \in t
      <4>1. Max(t) = m + 1 /\ t # {}
          BY <3>1, MaxOfInterval
      <4>2. t \ {m + 1} \in SUBSET (1 .. m + 1) /\ m + 1 \notin t \ {m + 1}
          OBVIOUS
      <4>3. v[t \ {m + 1}] = w[t \ {m + 1}]
          BY <4>2
      <4>4. v[t] = SignCommand(w[t \ {m + 1}], cmds[m + 1])
          BY <3>1
      <4>. HIDE DEF v
      <4>. QED
          BY <4>1, <4>3, <4>4
    <3>2. CASE m + 1 \notin t
      <4>1. t \in SUBSET (1 .. m)
        <5>1. \A x \in 1 .. m + 1 : x # m + 1 => x \in 1 .. m
            OBVIOUS
        <5>. QED
            BY <3>2, <5>1
      <4>2. v[t] = w[t]
          BY <3>2
      <4>3. w[t] = Step(w, t)
        <5>. HIDE DEF Step
        <5>. QED
            BY <2>1, <4>1
      <4>4. ASSUME t # {}
            PROVE  v[t \ {Max(t)}] = w[t \ {Max(t)}]
        <5>1. t \ {Max(t)} \in SUBSET (1 .. m + 1) /\ m + 1 \notin t \ {Max(t)}
            BY <3>2
        <5>. QED
            BY <5>1
      <4>. HIDE DEF v
      <4>. QED
          BY <4>2, <4>3, <4>4
    <3>. QED
        BY <3>1, <3>2
  <2>3. v = [t \in SUBSET (1 .. m + 1) |-> Step(v, t)]
    <3>. HIDE DEF Step
    <3>1. v = [t \in SUBSET (1 .. m + 1) |-> v[t]]
        OBVIOUS
    <3>. HIDE DEF v
    <3>. QED
        BY <2>2, <3>1
  <2>. HIDE DEF v, Step
  <2>. QED
      BY <2>3
<1>4. \A m \in Nat : Has(m)
  <2>. DEFINE T == {m \in Nat : ~Has(m)}
  <2>. HIDE DEF Has
  <2>. SUFFICES ASSUME T # {} PROVE FALSE
      OBVIOUS
  <2>1. T \subseteq Nat
      OBVIOUS
  <2>2. IsWellFoundedOn(less, Nat)
      BY NatLessThanWellFounded
  <2>3. \A x, y \in Nat : x < y => <<x, y>> \in less
      BY DEF OpToRel
  <2>. HIDE DEF T, less
  <2>4. PICK p \in T : \A x \in T : <<x, p>> \notin less
      BY <2>1, <2>2, WFMin
  <2>. USE DEF T
  <2>5. p \in Nat /\ p # 0 /\ ~Has(p)
      BY <1>2, <2>4
  <2>6. p - 1 \in Nat /\ (p - 1) + 1 = p /\ p - 1 < p
      BY <2>5
  <2>7. Has(p - 1)
      BY <2>3, <2>4, <2>5, <2>6
  <2>8. Has((p - 1) + 1)
      BY <1>3, <2>6, <2>7
  <2>. QED
      BY <2>5, <2>6, <2>8
<1>5. iter = [t \in SUBSET D |-> Step(iter, t)]
  <2>1. Has(Len(cmds))
      BY <1>1, <1>4
  <2>2. \E w : w = [t \in SUBSET D |-> Step(w, t)]
      BY <1>1, <2>1
  <2>. HIDE DEF Step, D
  <2>. QED
      BY <2>2
<1>6. Sign(cmds) = iter[D]
    BY DEF Sign, FoldLeft, MapThenFoldSet
<1>. DEFINE g == [m \in 0 .. Len(cmds) |-> iter[1 .. m]]
<1>7. g[0] = Signing
  <2>1. 1 .. 0 = {} /\ {} \in SUBSET D
      OBVIOUS
  <2>2. iter[{}] = Step(iter, {})
    <3>. HIDE DEF Step, iter
    <3>. QED
        BY <1>5, <2>1
  <2>. HIDE DEF iter
  <2>. QED
      BY <1>1, <2>1, <2>2
<1>8. ASSUME NEW m \in 0 .. Len(cmds) - 1
      PROVE  g[m + 1] = SignCommand(g[m], cmds[m + 1])
  <2>1. /\ m \in Nat /\ 1 .. m + 1 \in SUBSET D /\ m + 1 \in 1 .. m + 1
        /\ (1 .. m + 1) \ {m + 1} = 1 .. m
        /\ m \in 0 .. Len(cmds) /\ m + 1 \in 0 .. Len(cmds)
      BY <1>1
  <2>2. Max(1 .. m + 1) = m + 1
      BY <2>1, MaxOfInterval
  <2>3. iter[1 .. m + 1] = Step(iter, 1 .. m + 1)
    <3>. HIDE DEF Step, iter
    <3>. QED
        BY <1>5, <2>1
  <2>4. Step(iter, 1 .. m + 1) = SignCommand(iter[1 .. m], cmds[m + 1])
    <3>. HIDE DEF iter
    <3>. QED
        BY <2>1, <2>2
  <2>5. g[m + 1] = iter[1 .. m + 1] /\ g[m] = iter[1 .. m]
    <3>. HIDE DEF iter
    <3>. QED
        BY <2>1
  <2>. HIDE DEF iter, g, Step
  <2>. QED
      BY <2>3, <2>4, <2>5
<1>9. g[Len(cmds)] = iter[D]
  <2>. HIDE DEF iter
  <2>. QED
      BY <1>1
<1>. HIDE DEF iter, g
<1>. QED
    BY <1>6, <1>7, <1>8, <1>9

-----------------------------------------------------------------------------
(* What a command has.                                                     *)
LEMMA CommandCases ==
    ASSUME NEW c \in Command
    PROVE  \/ c.id = "register_name" /\ c.name \in Name /\ c.key \in Key
           \/ c.id = "issue" /\ c.stock \in Name
           \/ /\ c.id = "transfer" /\ c.from \in Name /\ c.stock \in Name
              /\ c.to \in Name \cup {EmptyName} /\ c.amount \in Amount
<1>1. CASE c \in {register_name(n, k) : n \in Name, k \in Key}
    BY <1>1 DEF register_name
<1>2. CASE c \in {issue(s) : s \in Stock}
    BY <1>2, WalletBounds DEF issue
<1>3. CASE c \in {transfer(f, t, s, n) :
                    f \in Name, t \in Payee, s \in Stock, n \in Amount}
  <2>1. PICK f \in Name, t \in Payee, s \in Stock, n \in Amount :
          c = transfer(f, t, s, n)
      BY <1>3
  <2>. QED
      BY <2>1, WalletBounds DEF transfer
<1>. QED
    BY <1>1, <1>2, <1>3 DEF Command

(* A signature more, or a command later, a name is still signed for.       *)
LEMMA SignedMore ==
    ASSUME NEW cmds, NEW i \in Nat, NEW j \in Nat, i <= j,
           NEW sigs, NEW more, sigs \subseteq more, NEW n,
           SignedFor(cmds, i, n, sigs)
    PROVE  SignedFor(cmds, j, n, more)
BY DEF SignedFor, RegisteredBefore

(* A command that some keys sign for is signed for by more keys.           *)
LEMMA IsSignedMore ==
    ASSUME NEW cmds, NEW i \in Nat, NEW sigs, NEW more, sigs \subseteq more,
           IsSigned(cmds, i, sigs)
    PROVE  IsSigned(cmds, i, more)
BY DEF IsSigned, SignedFor

(* Where sign is after m commands: each is signed for, by keys of the      *)
(* wallet, and so will be a later one of a name it noted.                  *)
SignState == [ok : BOOLEAN, names : SUBSET Name, sigs : SUBSET keychain]

SignedUpTo(cmds, s, m) ==
    /\ s \in SignState
    /\ \A n \in s.names : SignedFor(cmds, m + 1, n, s.sigs)
    /\ s.ok => \A i \in 1 .. m : IsSigned(cmds, i, s.sigs)

(* Its effect on what was signed for before.                               *)
LEMMA SignedGrows ==
    ASSUME NEW cmds, NEW m \in Nat, NEW s, SignedUpTo(cmds, s, m),
           NEW r \in SignState, s.sigs \subseteq r.sigs, r.ok => s.ok,
           \A n \in r.names \ s.names : SignedFor(cmds, m + 2, n, r.sigs),
           r.ok => IsSigned(cmds, m + 1, r.sigs)
    PROVE  SignedUpTo(cmds, r, m + 1)
<1>1. ASSUME NEW n \in r.names
      PROVE  SignedFor(cmds, (m + 1) + 1, n, r.sigs)
  <2>1. n \in s.names => SignedFor(cmds, m + 2, n, r.sigs)
      BY SignedMore DEF SignedUpTo
  <2>. QED
      BY <2>1
<1>2. ASSUME r.ok, NEW i \in 1 .. m + 1
      PROVE  IsSigned(cmds, i, r.sigs)
  <2>1. CASE i \in 1 .. m
      BY <1>2, <2>1, IsSignedMore DEF SignedUpTo
  <2>2. CASE i = m + 1
      BY <1>2, <2>2
  <2>. QED
      BY <2>1, <2>2
<1>. QED
    BY <1>1, <1>2 DEF SignedUpTo

(* One turn of sign's loop: the command at hand is signed for as well.     *)
LEMMA SignCommandStep ==
    ASSUME NEW cmds \in Seq(Command), NEW m \in Nat, m + 1 \in DOMAIN cmds,
           NEW s, SignedUpTo(cmds, s, m)
    PROVE  SignedUpTo(cmds, SignCommand(s, cmds[m + 1]), m + 1)
<1>. DEFINE c == cmds[m + 1]
<1>0. c \in Command /\ s \in SignState
    BY DEF SignedUpTo
<1>1. CASE c.id \in {"issue", "transfer"}
  <2>. DEFINE n == Subject(c)
  <2>1. n \in Name /\ c.id # "register_name"
      BY <1>0, <1>1, CommandCases DEF Subject
  <2>2. SignCommand(s, c) = SignFor(s, n)
      BY <1>1 DEF SignCommand, Subject
  <2>3. \A sigs : IsSigned(cmds, m + 1, sigs) <=> SignedFor(cmds, m + 1, n, sigs)
      BY <2>1 DEF IsSigned
  <2>. HIDE DEF c, n
  <2>4. CASE n \in s.names
    <3>1. SignFor(s, n) = s
        BY <2>4 DEF SignFor
    <3>2. IsSigned(cmds, m + 1, s.sigs)
        BY <2>3, <2>4 DEF SignedUpTo
    <3>. QED
        BY <1>0, <2>2, <3>1, <3>2, SignedGrows DEF c
  <2>5. CASE n \notin s.names /\ HasKeyOf(n)
    <3>. DEFINE r == Signed(s, {n}, committed.key[n])
    <3>1. SignFor(s, n) = r
        BY <2>5 DEF SignFor
    <3>2. /\ r \in SignState /\ r.sigs = s.sigs \cup {committed.key[n]}
          /\ r.ok = s.ok /\ r.names = s.names \cup {n}
        BY <1>0, <2>1, <2>5 DEF Signed, SignState, HasKeyOf
    <3>. HIDE DEF r
    <3>3. \A i : SignedFor(cmds, i, n, r.sigs)
        BY <3>2 DEF SignedFor
    <3>4. SignedUpTo(cmds, r, m + 1)
        BY <2>3, <3>2, <3>3, SignedGrows
    <3>. QED
        BY <2>2, <3>1, <3>4 DEF c
  <2>6. CASE n \notin s.names /\ ~HasKeyOf(n)
    <3>. DEFINE r == [s EXCEPT !.ok = FALSE]
    <3>1. SignFor(s, n) = r
        BY <2>6 DEF SignFor
    <3>2. r \in SignState /\ r.sigs = s.sigs /\ ~r.ok /\ r.names = s.names
        BY <1>0 DEF SignState
    <3>. HIDE DEF r
    <3>3. SignedUpTo(cmds, r, m + 1)
        BY <3>2, SignedGrows
    <3>. QED
        BY <2>2, <3>1, <3>3 DEF c
  <2>. QED
      BY <2>4, <2>5, <2>6
<1>2. CASE c.id = "register_name"
  <2>. DEFINE n == c.name
              k == c.key
  <2>1. n \in Name /\ k \in Key
      BY <1>0, <1>2, CommandCases
  <2>2. SignCommand(s, c) = SignRegister(s, n, k)
      BY <1>2 DEF SignCommand
  <2>3. \A sigs : IsSigned(cmds, m + 1, sigs) <=>
                     \/ n = EncodeAddress[k] \/ committed.key[n] = Unregistered
                     \/ SignedFor(cmds, m + 1, n, sigs)
      BY <1>2 DEF IsSigned
  <2>4. \A sigs : SignedFor(cmds, m + 2, n, sigs)
    <3>1. m + 1 \in 1 .. (m + 2) - 1
        OBVIOUS
    <3>. QED
        BY <1>2, <3>1 DEF SignedFor, RegisteredBefore
  <2>. HIDE DEF c, n, k
  <2>5. CASE n \in s.names \/ (n = EncodeAddress[k] /\ k \notin keychain)
    <3>1. SignRegister(s, n, k) = s
        BY <2>5 DEF SignRegister
    <3>2. IsSigned(cmds, m + 1, s.sigs)
        BY <2>3, <2>5 DEF SignedUpTo
    <3>. QED
        BY <1>0, <2>2, <3>1, <3>2, SignedGrows DEF c
  <2>6. CASE ~(n \in s.names) /\ n = EncodeAddress[k] /\ k \in keychain
    <3>. DEFINE r == Signed(s, {n}, k)
    <3>1. SignRegister(s, n, k) = r
        BY <2>6 DEF SignRegister
    <3>2. /\ r \in SignState /\ r.sigs = s.sigs \cup {k}
          /\ r.ok = s.ok /\ r.names = s.names \cup {n}
        BY <1>0, <2>1, <2>6 DEF Signed, SignState
    <3>. HIDE DEF r
    <3>3. SignedUpTo(cmds, r, m + 1)
        BY <2>3, <2>4, <2>6, <3>2, SignedGrows
    <3>. QED
        BY <2>2, <3>1, <3>3 DEF c
  <2>7. CASE n \notin s.names /\ n # EncodeAddress[k] /\ HasKeyOf(n)
    <3>. DEFINE r == Signed(s, {}, committed.key[n])
    <3>1. SignRegister(s, n, k) = r
        BY <2>7 DEF SignRegister
    <3>2. /\ r \in SignState /\ r.sigs = s.sigs \cup {committed.key[n]}
          /\ r.ok = s.ok /\ r.names = s.names
        BY <1>0, <2>1, <2>7 DEF Signed, SignState, HasKeyOf
    <3>. HIDE DEF r
    <3>3. SignedFor(cmds, m + 1, n, r.sigs)
        BY <3>2 DEF SignedFor
    <3>4. SignedUpTo(cmds, r, m + 1)
        BY <2>3, <3>2, <3>3, SignedGrows
    <3>. QED
        BY <2>2, <3>1, <3>4 DEF c
  <2>8. CASE n \notin s.names /\ n # EncodeAddress[k] /\ ~HasKeyOf(n)
    <3>. DEFINE r == [s EXCEPT !.ok = s.ok /\ ~IsKnown(n)]
    <3>1. SignRegister(s, n, k) = r
        BY <2>8 DEF SignRegister
    <3>2. /\ r \in SignState /\ r.sigs = s.sigs /\ r.names = s.names
          /\ r.ok => s.ok /\ committed.key[n] = Unregistered
        BY <1>0 DEF SignState, IsKnown
    <3>. HIDE DEF r
    <3>3. SignedUpTo(cmds, r, m + 1)
        BY <2>3, <3>2, SignedGrows
    <3>. QED
        BY <2>2, <3>1, <3>3 DEF c
  <2>. QED
      BY <2>5, <2>6, <2>7, <2>8
<1>. QED
    BY <1>0, <1>1, <1>2, CommandCases

(* What sign accepts is signed for, command by command, with keys of the   *)
(* wallet: shown for the least number of commands it would fail for.       *)
LEMMA SignGives ==
    ASSUME NEW cmds \in Seq(Command)
    PROVE  SignedUpTo(cmds, Sign(cmds), Len(cmds))
<1>1. PICK g : /\ g[0] = Signing /\ Sign(cmds) = g[Len(cmds)]
               /\ \A m \in 0 .. Len(cmds) - 1 :
                    g[m + 1] = SignCommand(g[m], cmds[m + 1])
    BY SignSteps
<1>. DEFINE T == {m \in 0 .. Len(cmds) : ~SignedUpTo(cmds, g[m], m)}
            less == OpToRel(<, Nat)
<1>2. T = {}
  <2>. SUFFICES ASSUME T # {} PROVE FALSE
      OBVIOUS
  <2>1. T \subseteq Nat
      OBVIOUS
  <2>2. IsWellFoundedOn(less, Nat)
      BY NatLessThanWellFounded
  <2>3. \A x, y \in Nat : x < y => <<x, y>> \in less
      BY DEF OpToRel
  <2>. HIDE DEF T, less
  <2>4. PICK p \in T : \A x \in T : <<x, p>> \notin less
      BY <2>1, <2>2, WFMin
  <2>. USE DEF T
  <2>5. p # 0
    <3>1. Signing \in SignState /\ Signing.names = {}
        BY DEF Signing, SignState
    <3>2. SignedUpTo(cmds, Signing, 0)
        BY <3>1 DEF SignedUpTo
    <3>. QED
        BY <1>1, <2>4, <3>2
  <2>6. /\ p - 1 \in Nat /\ (p - 1) + 1 = p /\ p - 1 < p /\ p \in Nat
        /\ p - 1 \in 0 .. Len(cmds) - 1 /\ p - 1 \in 0 .. Len(cmds)
        /\ p \in DOMAIN cmds
      BY <2>5
  <2>7. SignedUpTo(cmds, g[p - 1], p - 1)
      BY <2>3, <2>4, <2>6
  <2>8. SignedUpTo(cmds, SignCommand(g[p - 1], cmds[(p - 1) + 1]), (p - 1) + 1)
      BY <2>6, <2>7, SignCommandStep
  <2>9. g[(p - 1) + 1] = SignCommand(g[p - 1], cmds[(p - 1) + 1])
      BY <1>1, <2>6
  <2>10. SignedUpTo(cmds, g[p], p)
      BY <2>6, <2>8, <2>9
  <2>. QED
      BY <2>4, <2>10
<1>3. Len(cmds) \in 0 .. Len(cmds)
    OBVIOUS
<1>. QED
    BY <1>1, <1>2, <1>3

-----------------------------------------------------------------------------
(* More of the wallet's keys, or of others', make no key less safe.        *)
LEMMA SafeMore ==
    ASSUME synced \subseteq synced', others \subseteq others',
           NEW n, NEW k, KeyIsSafe(n, k)
    PROVE  KeyIsSafe(n, k)'
BY DEF KeyIsSafe

(* Commands that give names to durable keys still do when more keys are    *)
(* durable.                                                                *)
LEMMA SafeCommandsMore ==
    ASSUME synced \subseteq synced', others \subseteq others',
           NEW cmds, SafeCommands(cmds)
    PROVE  SafeCommands(cmds)'
BY SafeMore DEF SafeCommands

(* What the user types leaves the ledger and what is applied alone.        *)
LEMMA Typed ==
    ASSUME WalletInv, UNCHANGED <<ledgervars, running>>,
           synced \subseteq synced', others \subseteq others',
           SafeCommands(trx)',
           \A t \in pool' \ pool : SafeCommands(t.commands)' /\ TrxSigned(t)
    PROVE  SupplyInv' /\ SafeInv' /\ SignedInv'
<1>1. UNCHANGED <<committed, work, applying, signers, gen, running>>
    BY DEF ledgervars
<1>2. SupplyInv'
    BY <1>1 DEF WalletInv, SupplyInv, TypeOK, Sound
<1>3. SafeInv'
  <2>1. ASSUME NEW t \in pool' PROVE SafeCommands(t.commands)'
    <3>1. t \in pool => SafeCommands(t.commands)
        BY DEF WalletInv, SafeInv
    <3>2. t \in pool => SafeCommands(t.commands)'
        BY <3>1, SafeCommandsMore
    <3>. QED
        BY <3>2
  <2>2. SafeCommands(running.trx.commands)'
    <3>1. SafeCommands(running.trx.commands)
        BY DEF WalletInv, SafeInv
    <3>. DEFINE cmds == running.trx.commands
    <3>2. cmds' = cmds
        BY <1>1
    <3>. QED
        BY <1>1, <3>1, SafeMore DEF SafeCommands
  <2>3. ASSUME NEW n \in Name
        PROVE  KeyIsSafe(n, committed.key[n])' /\ KeyIsSafe(n, work.key[n])'
    <3>1. KeyIsSafe(n, committed.key[n]) /\ KeyIsSafe(n, work.key[n])
        BY DEF WalletInv, SafeInv
    <3>. QED
        BY <1>1, <3>1, SafeMore DEF KeyIsSafe
  <2>. QED
      BY <2>1, <2>2, <2>3 DEF SafeInv
<1>4. SignedInv'
  <2>1. ASSUME NEW t PROVE TrxSigned(t)' <=> TrxSigned(t)
      BY <1>1 DEF TrxSigned, IsSigned, SignedFor
  <2>2. \A n : RekeyedBy(n)' <=> RekeyedBy(n)
      BY <1>1 DEF RekeyedBy
  <2>3. TrxSigned(running.trx)'
      BY <1>1 DEF WalletInv, SignedInv, TrxSigned, IsSigned, SignedFor
  <2>. QED
      BY <1>1, <2>1, <2>2, <2>3 DEF WalletInv, SignedInv
<1>. QED
    BY <1>2, <1>3, <1>4

(* The commands that a step adds keep the transaction's list one.          *)
LEMMA AddsTyped ==
    ASSUME trx \in Seq(Command), ToSet(trx) \subseteq Command,
           NEW cmds \in Seq(Command), Adds(cmds)
    PROVE  /\ trx' \in Seq(Command) /\ ToSet(trx') \subseteq Command
           /\ Len(trx') = Len(trx) + Len(cmds) /\ Len(trx') <= MaxCommands
<1>1. trx' = trx \o cmds /\ Len(trx) + Len(cmds) <= MaxCommands
    BY DEF Adds
<1>2. trx' \in Seq(Command) /\ Len(trx') = Len(trx) + Len(cmds)
    BY <1>1, ConcatProperties
<1>3. ToSet(trx') \subseteq Command
    BY <1>2, ElementOfSeq DEF ToSet
<1>. QED
    BY <1>1, <1>2, <1>3

(* Commands typed after others give names to durable keys only if both do. *)
LEMMA AddsSafe ==
    ASSUME NEW a \in Seq(Command), NEW b \in Seq(Command),
           SafeCommands(a)', SafeCommands(b)'
    PROVE  SafeCommands(a \o b)'
<1>1. SafeCommands(a)' <=> \A i \in DOMAIN a : a[i].id = "register_name" =>
                              KeyIsSafe(a[i].name, a[i].key)'
    BY DEF SafeCommands
<1>2. SafeCommands(b)' <=> \A i \in DOMAIN b : b[i].id = "register_name" =>
                              KeyIsSafe(b[i].name, b[i].key)'
    BY DEF SafeCommands
<1>. DEFINE c == a \o b
<1>3. \A i \in DOMAIN c : \/ i \in DOMAIN a /\ c[i] = a[i]
                          \/ i - Len(a) \in DOMAIN b /\ c[i] = b[i - Len(a)]
    BY ConcatProperties
<1>. HIDE DEF c
<1>4. SafeCommands(c)'
  <2>. SUFFICES ASSUME NEW i \in DOMAIN c, c[i].id = "register_name"
                PROVE  KeyIsSafe(c[i].name, c[i].key)'
      BY DEF SafeCommands
  <2>. QED
      BY <1>1, <1>2, <1>3
<1>. QED
    BY <1>4 DEF c

(* A step that adds commands with safe keys.                               *)
LEMMA TypedMore ==
    ASSUME WalletInv, UNCHANGED <<ledgervars, others, pool, running>>,
           synced \subseteq synced', NEW cmds \in Seq(Command), Adds(cmds),
           SafeCommands(cmds)'
    PROVE  SupplyInv' /\ SafeInv' /\ SignedInv'
<1>1. PICK a \in Seq(Command) : a = trx
    BY DEF WalletInv, WalletTypes
<1>2. SafeCommands(a)
    BY <1>1 DEF WalletInv, SafeInv
<1>3. SafeCommands(a)'
    BY <1>2, SafeCommandsMore
<1>4. SafeCommands(a \o cmds)'
    BY <1>3, AddsSafe
<1>5. SafeCommands(trx)'
    BY <1>1, <1>4 DEF Adds
<1>. QED
    BY <1>5, Typed

-----------------------------------------------------------------------------
(* What the user does, command by command.                                 *)
LEMMA OneCommand ==
    ASSUME NEW c \in Command
    PROVE  <<c>> \in Seq(Command) /\ Len(<<c>>) = 1
OBVIOUS

(* What register_name, issue and transfer add to the wallet's transaction  *)
(* are commands.                                                           *)
LEMMA CommandsAre ==
    /\ \A n \in Name, k \in Key : register_name(n, k) \in Command
    /\ \A s \in Stock : issue(s) \in Command
    /\ \A f \in Name, t \in Payee, s \in Stock, n \in Amount :
          transfer(f, t, s, n) \in Command
BY DEF Command

(* The types of the user's steps, whatever they add.                       *)
LEMMA TypesTyped ==
    ASSUME WalletTypes, UNCHANGED <<ledgervars, others, pool, running>>,
           keychain' \subseteq keychain \cup (made' \ made),
           synced' \subseteq keychain', made \subseteq made', made' \subseteq Key,
           trx' \in Seq(Command), ToSet(trx') \subseteq Command, Len(trx') <= MaxCommands
    PROVE  WalletTypes'
BY DEF WalletTypes, WalletTypeOK, ledgervars

(* gen_key adds a key to the wallet in memory, and makes it durable or     *)
(* not.                                                                    *)
LEMMA GenKeyStep ==
    ASSUME WalletInv, NEW k \in Key, GenKey(k)
    PROVE  WalletInv'
<1>1. /\ UNCHANGED <<ledgervars, others, pool, running, synced, trx>>
      /\ keychain' = keychain \cup {k} /\ made' = made \cup {k} /\ k \notin made
    BY DEF GenKey, MayType, NewKey
<1>2. WalletTypes'
  <2>1. trx' \in Seq(Command) /\ ToSet(trx') \subseteq Command /\ Len(trx') <= MaxCommands
      BY <1>1 DEF WalletInv, WalletTypes, WalletTypeOK
  <2>2. synced \subseteq keychain /\ made \subseteq Key
      BY DEF WalletInv, WalletTypes, WalletTypeOK
  <2>. QED
      BY <1>1, <2>1, <2>2, TypesTyped DEF WalletInv
<1>3. SafeCommands(trx)'
    BY <1>1 DEF WalletInv, SafeInv, SafeCommands, KeyIsSafe
<1>. QED
    BY <1>1, <1>2, <1>3, Typed DEF WalletInv

(* Somebody else makes a key.                                              *)
LEMMA OtherKeyStep ==
    ASSUME WalletInv, NEW k \in Key, OtherKey(k)
    PROVE  WalletInv'
<1>1. /\ UNCHANGED <<ledgervars, keychain, synced, trx, pool, running>>
      /\ others' = others \cup {k} /\ made' = made \cup {k} /\ k \notin made
    BY DEF OtherKey, NewKey
<1>2. WalletTypes'
    BY <1>1 DEF WalletInv, WalletTypes, WalletTypeOK, ledgervars
<1>3. SafeCommands(trx)'
    BY <1>1 DEF WalletInv, SafeInv, SafeCommands, KeyIsSafe
<1>. QED
    BY <1>1, <1>2, <1>3, Typed DEF WalletInv

(* The steps that add commands and make no key.                            *)
LEMMA AddsStep ==
    ASSUME WalletInv, UNCHANGED <<ledgervars, keys, pool, running>>,
           NEW cmds \in Seq(Command), Adds(cmds), SafeCommands(cmds)'
    PROVE  WalletInv'
<1>1. UNCHANGED <<made, keychain, synced, others>>
    BY DEF keys
<1>2. /\ trx' \in Seq(Command) /\ ToSet(trx') \subseteq Command
      /\ Len(trx') <= MaxCommands
    BY AddsTyped DEF WalletInv, WalletTypes, WalletTypeOK
<1>3. synced \subseteq keychain /\ made \subseteq Key
    BY DEF WalletInv, WalletTypes, WalletTypeOK
<1>4. WalletTypes'
    BY <1>1, <1>2, <1>3, TypesTyped DEF WalletInv
<1>. QED
    BY <1>1, <1>4, TypedMore DEF WalletInv

(* register makes its key durable with the command, so it is safe.         *)
LEMMA RegisterStep ==
    ASSUME WalletInv, NEW n \in Name, NEW k \in Key, Register(n, k)
    PROVE  WalletInv'
<1>. DEFINE cmds == <<register_name(n, k)>>
<1>1. /\ UNCHANGED <<ledgervars, others, pool, running>>
      /\ keychain' = keychain \cup {k} /\ synced' = keychain'
      /\ made' = made \cup {k} /\ k \notin made /\ Adds(cmds)
    BY DEF Register, MayType, NewKey
<1>2. cmds \in Seq(Command)
    BY OneCommand, CommandsAre
<1>3. SafeCommands(cmds)'
    BY <1>1 DEF SafeCommands, KeyIsSafe, register_name
<1>. HIDE DEF cmds
<1>4. /\ trx' \in Seq(Command) /\ ToSet(trx') \subseteq Command
      /\ Len(trx') <= MaxCommands
    BY <1>1, <1>2, AddsTyped DEF WalletInv, WalletTypes, WalletTypeOK
<1>5. synced \subseteq keychain /\ made \subseteq Key
    BY DEF WalletInv, WalletTypes, WalletTypeOK
<1>6. WalletTypes'
    BY <1>1, <1>4, <1>5, TypesTyped DEF WalletInv
<1>. QED
    BY <1>1, <1>2, <1>3, <1>5, <1>6, TypedMore DEF WalletInv

(* The user types an issue: no name gets a key.                            *)
LEMMA IssueStockStep ==
    ASSUME WalletInv, NEW s \in Stock, IssueStock(s)
    PROVE  WalletInv'
<1>1. UNCHANGED <<ledgervars, keys, pool, running>> /\ Adds(<<issue(s)>>)
    BY DEF IssueStock, MayType, keys
<1>2. <<issue(s)>> \in Seq(Command)
    BY OneCommand, CommandsAre
<1>3. SafeCommands(<<issue(s)>>)'
    BY DEF SafeCommands, issue
<1>. QED
    BY <1>1, <1>2, <1>3, AddsStep

(* The user types a transfer: no name gets a key.                          *)
LEMMA TransferStockStep ==
    ASSUME WalletInv, NEW f \in Name, NEW t \in Payee, NEW s \in Stock,
           NEW n \in Amount, TransferStock(f, t, s, n)
    PROVE  WalletInv'
<1>1. UNCHANGED <<ledgervars, keys, pool, running>> /\ Adds(<<transfer(f, t, s, n)>>)
    BY DEF TransferStock, MayType, keys
<1>2. <<transfer(f, t, s, n)>> \in Seq(Command)
    BY OneCommand, CommandsAre
<1>3. SafeCommands(<<transfer(f, t, s, n)>>)'
    BY DEF SafeCommands, transfer
<1>. QED
    BY <1>1, <1>2, <1>3, AddsStep

(* An address that is claimed for its own key, and pays at once.           *)
LEMMA TransferFromUnclaimedStep ==
    ASSUME WalletInv, NEW f \in Name, NEW t \in Payee, NEW s \in Stock,
           NEW n \in Amount, TransferFromUnclaimed(f, t, s, n)
    PROVE  WalletInv'
<1>1. UNCHANGED <<ledgervars, keys, pool, running>>
    BY DEF TransferFromUnclaimed, MayType, keys
<1>2. PICK k \in keychain : EncodeAddress[k] = f
                   /\ Adds(<<register_name(f, k), transfer(f, t, s, n)>>)
    BY DEF TransferFromUnclaimed
<1>3. k \in Key
    BY DEF WalletInv, WalletTypes, WalletTypeOK
<1>4. <<register_name(f, k), transfer(f, t, s, n)>> \in Seq(Command)
    BY <1>3, CommandsAre
<1>5. SafeCommands(<<register_name(f, k), transfer(f, t, s, n)>>)'
    BY <1>2 DEF SafeCommands, KeyIsSafe, register_name, transfer
<1>. QED
    BY <1>1, <1>2, <1>4, <1>5, AddsStep

(* start, the program's end, and a crash.                                  *)
LEMMA StartOverStep ==
    ASSUME WalletInv, StartOver \/ Exit \/ Crash
    PROVE  WalletInv'
<1>1. /\ UNCHANGED <<ledgervars, made, others, pool, running>> /\ trx' = << >>
      /\ synced \subseteq synced' /\ synced' \subseteq keychain'
      /\ keychain' \subseteq keychain
    BY DEF StartOver, Exit, Crash, MayType, WalletInv, WalletTypes, WalletTypeOK
<1>2. WalletTypes'
  <2>1. trx' \in Seq(Command) /\ ToSet(trx') \subseteq Command
        /\ Len(trx') <= MaxCommands
      BY <1>1, WalletBounds DEF ToSet
  <2>2. made \subseteq Key
      BY DEF WalletInv, WalletTypes, WalletTypeOK
  <2>. QED
      BY <1>1, <2>1, <2>2, TypesTyped DEF WalletInv
<1>3. SafeCommands(trx)'
    BY <1>1 DEF SafeCommands
<1>. QED
    BY <1>1, <1>2, <1>3, Typed DEF WalletInv

(* commit: what it gives the node is signed, with the wallet's keys.       *)
LEMMA CommitTrxStep ==
    ASSUME WalletInv, CommitTrx
    PROVE  WalletInv'
<1>. DEFINE s == Sign(trx)
<1>1. UNCHANGED <<ledgervars, keys, running>> /\ trx' = << >>
    BY DEF CommitTrx
<1>2. trx \in Seq(Command) /\ ToSet(trx) \subseteq Command
    BY DEF WalletInv, WalletTypes, WalletTypeOK
<1>3. SignedUpTo(trx, s, Len(trx))
    BY <1>2, SignGives
<1>. HIDE DEF s
<1>4. PICK ch \in {"signed", "sure"} :
          pool' = IF s.ok
                  THEN pool \cup {[commands |-> trx, sigs |-> s.sigs, checked |-> ch]}
                  ELSE pool
    BY DEF CommitTrx, s
<1>. DEFINE new == [commands |-> trx, sigs |-> s.sigs, checked |-> ch]
<1>5. /\ new \in Transaction /\ s.sigs \subseteq keychain
      /\ pool' \subseteq pool \cup {new} /\ (new \in pool' \ pool => s.ok)
  <2>1. s.sigs \subseteq keychain /\ keychain \subseteq Key
      BY <1>3 DEF SignedUpTo, SignState, WalletInv, WalletTypes, WalletTypeOK
  <2>. QED
      BY <1>2, <1>4, <2>1 DEF Transaction
<1>6. WalletTypes'
    BY <1>1, <1>2, <1>5, WalletBounds
    DEF WalletInv, WalletTypes, WalletTypeOK, ledgervars, keys, ToSet
<1>7. ASSUME NEW t \in pool' \ pool
      PROVE  SafeCommands(t.commands)' /\ TrxSigned(t)
  <2>1. t = new /\ s.ok
      BY <1>5
  <2>2. TrxSigned(t)
      BY <1>2, <1>3, <2>1 DEF TrxSigned, SignedUpTo
  <2>3. SafeCommands(t.commands)
      BY <2>1 DEF WalletInv, SafeInv
  <2>4. SafeCommands(t.commands)'
      BY <1>1, <2>3, SafeCommandsMore DEF keys
  <2>. QED
      BY <2>2, <2>4
<1>8. SafeCommands(trx)'
    BY <1>1 DEF SafeCommands
<1>. QED
    BY <1>1, <1>6, <1>7, <1>8, Typed DEF WalletInv, keys

-----------------------------------------------------------------------------
(* What the node does.  No key's safety changes while it applies: what     *)
(* must be shown of SafeInv is that the names' new keys are safe.          *)
LEMMA SafeApplied ==
    ASSUME WalletInv, UNCHANGED <<keys, trx>>,
           \A t \in pool' : \E u \in pool : t.commands = u.commands,
           SafeCommands(running'.trx.commands),
           \A n \in Name : /\ KeyIsSafe(n, committed'.key[n])
                           /\ KeyIsSafe(n, work'.key[n])
    PROVE  SafeInv'
<1>1. UNCHANGED <<synced, others, trx>>
    BY DEF keys
<1>2. ASSUME NEW n, NEW k, KeyIsSafe(n, k) PROVE KeyIsSafe(n, k)'
    BY <1>1, <1>2 DEF KeyIsSafe
<1>3. ASSUME NEW cmds, SafeCommands(cmds) PROVE SafeCommands(cmds)'
    BY <1>1, <1>3 DEF SafeCommands, KeyIsSafe
<1>4. SafeCommands(trx)'
    BY <1>1 DEF WalletInv, SafeInv, SafeCommands, KeyIsSafe
<1>5. ASSUME NEW t \in pool' PROVE SafeCommands(t.commands)'
  <2>1. PICK u \in pool : t.commands = u.commands
      OBVIOUS
  <2>2. SafeCommands(t.commands)
      BY <2>1 DEF WalletInv, SafeInv
  <2>. QED
      BY <1>3, <2>2
<1>6. SafeCommands(running.trx.commands)'
  <2>1. PICK cmds : cmds = running'.trx.commands
      OBVIOUS
  <2>2. SafeCommands(cmds)'
      BY <1>3, <2>1
  <2>. QED
      BY <2>1, <2>2
<1>7. ASSUME NEW n \in Name
      PROVE  KeyIsSafe(n, committed.key[n])' /\ KeyIsSafe(n, work.key[n])'
  <2>1. PICK k, j : k = committed'.key[n] /\ j = work'.key[n]
      OBVIOUS
  <2>2. KeyIsSafe(n, k)' /\ KeyIsSafe(n, j)'
      BY <1>2, <2>1
  <2>. QED
      BY <2>1, <2>2
<1>. QED
    BY <1>4, <1>5, <1>6, <1>7 DEF SafeInv

(* A transaction is begun: nothing is rekeyed yet.                         *)
LEMMA BeginStep ==
    ASSUME WalletInv, NEW t \in Transaction, NEW g \in Generator,
           SafeCommands(t.commands), TrxSigned(t), Begin(t, g)
    PROVE  WalletInv'
<1>1. /\ UNCHANGED <<committed, work, keys, trx, pool>> /\ ~applying
      /\ BeginTrx(t.sigs, g) /\ running' = [trx |-> t, at |-> 1]
      /\ applying' = TRUE /\ signers' = t.sigs
    BY DEF Begin, BeginTrx
<1>2. SupplyInv'
  <2>1. t.sigs \in SUBSET Key /\ g \in Name \cup {EmptyName}
      BY WalletBounds DEF Transaction
  <2>2. Next
      BY <1>1, <2>1 DEF Next
  <2>. QED
      BY <2>2, SupplyStep DEF WalletInv
<1>3. WalletTypes'
    BY <1>1 DEF WalletInv, WalletTypes, WalletTypeOK, keys, NoRun
<1>4. SafeInv'
    BY <1>1, SafeApplied DEF WalletInv, SafeInv
<1>5. SignedInv'
  <2>1. ASSUME NEW u PROVE TrxSigned(u)' <=> TrxSigned(u)
      BY <1>1 DEF TrxSigned, IsSigned, SignedFor
  <2>2. TrxSigned(running.trx)'
      BY <1>1 DEF TrxSigned, IsSigned, SignedFor
  <2>. QED
      BY <1>1, <2>1, <2>2 DEF WalletInv, SignedInv
<1>. QED
    BY <1>2, <1>3, <1>4, <1>5 DEF WalletInv

(* Others register with keys of theirs, which the wallet need not hold.    *)
LEMMA BeginOtherStep ==
    ASSUME WalletInv, NEW c \in Command, NEW g \in Generator, BeginOther(c, g)
    PROVE  WalletInv'
<1>. DEFINE t == [commands |-> <<c>>, sigs |-> others, checked |-> "not"]
<1>1. t \in Transaction
  <2>1. others \subseteq Key
      BY DEF WalletInv, WalletTypes, WalletTypeOK
  <2>. QED
      BY <2>1, OneCommand DEF Transaction
<1>2. SafeCommands(t.commands)
    BY DEF SafeCommands, BeginOther, KeyIsSafe
<1>3. TrxSigned(t) /\ Begin(t, g)
    BY DEF TrxSigned, BeginOther
<1>. HIDE DEF t
<1>. QED
    BY <1>1, <1>2, <1>3, BeginStep

(* What one command does to a name's key.                                  *)
LEMMA ExecuteKeys ==
    ASSUME TypeOK, NEW c \in Command, Execute(c), NEW n \in Name
    PROVE  \/ work'.key[n] = work.key[n]
           \/ c.id = "register_name" /\ c.name = n /\ work'.key[n] = c.key
           \/ /\ c.id = "transfer" /\ work'.key[n] = NoKey
              /\ n \in Address \cap {c.to, IF c.to = EmptyName THEN gen ELSE c.to}
<1>0. work.key \in [Name -> Key \cup {NoKey, Unregistered}]
    BY DEF TypeOK, LedgerState
<1>1. CASE c.id = "register_name" /\ RegisterName(c.name, c.key)
    BY <1>0, <1>1 DEF RegisterName
<1>2. CASE c.id = "issue" /\ Issue(c.stock)
    BY <1>2 DEF Issue
<1>3. CASE c.id = "transfer" /\ Transfer(c.from, c.to, c.stock, c.amount)
    BY <1>0, <1>3 DEF Transfer, Registered
<1>. QED
    BY <1>1, <1>2, <1>3 DEF Execute

(* And it is a step of the ledger.                                         *)
LEMMA ExecuteIsLedger ==
    ASSUME NEW c \in Command, Execute(c)
    PROVE  Next /\ UNCHANGED <<committed, applying, signers, gen>>
<1>1. CASE c.id = "register_name" /\ RegisterName(c.name, c.key)
    BY <1>1, CommandCases DEF RegisterName, Next
<1>2. CASE c.id = "issue" /\ Issue(c.stock)
    BY <1>2, CommandCases DEF Issue, Next
<1>3. CASE c.id = "transfer" /\ Transfer(c.from, c.to, c.stock, c.amount)
    BY <1>3, CommandCases DEF Transfer, Next
<1>. QED
    BY <1>1, <1>2, <1>3 DEF Execute

(* apply executes the next command of a transaction.                       *)
LEMMA ExecuteNextStep ==
    ASSUME WalletInv, ExecuteNext
    PROVE  WalletInv'
<1>. DEFINE c == NextCommand
            cmds == running.trx.commands
            i == running.at
<1>0. /\ applying /\ UNCHANGED <<keys, trx, pool>> /\ Execute(c)
      /\ running' = [running EXCEPT !.at = @ + 1] /\ ~AtEnd
    BY DEF ExecuteNext
<1>1. /\ cmds \in Seq(Command) /\ i \in DOMAIN cmds /\ c = cmds[i]
      /\ running \in [trx : Transaction, at : Nat]
  <2>1. running \in [trx : Transaction, at : Nat] /\ i # 0
      BY <1>0 DEF WalletInv, WalletTypes
  <2>2. cmds \in Seq(Command) /\ i \in Nat
      BY <2>1 DEF Transaction
  <2>. QED
      BY <1>0, <2>1, <2>2 DEF AtEnd, NextCommand
<1>2. c \in Command
    BY <1>1, ElementOfSeq
<1>. HIDE DEF c
<1>3. running'.trx = running.trx /\ running'.at = i + 1 /\ i \in Nat \ {0}
    BY <1>0, <1>1
<1>4. UNCHANGED <<committed, applying, signers, gen>> /\ SupplyInv'
    BY <1>0, <1>2, ExecuteIsLedger, SupplyStep DEF WalletInv
<1>5. WalletTypes'
  <2>1. running' \in [trx : Transaction, at : Nat]
      BY <1>0, <1>1
  <2>2. running' # NoRun /\ running'.at # 0
      BY <1>3 DEF NoRun
  <2>. QED
      BY <1>0, <1>4, <2>1, <2>2 DEF WalletInv, WalletTypes, WalletTypeOK, keys
<1>6. TypeOK
    BY DEF WalletInv, SupplyInv
<1>7. SafeInv'
  <2>1. ASSUME NEW n \in Name PROVE KeyIsSafe(n, work'.key[n])
    <3>1. CASE work'.key[n] = work.key[n]
        BY <3>1 DEF WalletInv, SafeInv
    <3>2. CASE c.id = "register_name" /\ c.name = n /\ work'.key[n] = c.key
        BY <1>1, <3>2 DEF WalletInv, SafeInv, SafeCommands
    <3>3. CASE work'.key[n] = NoKey
        BY <3>3, KeyAssumption DEF KeyIsSafe
    <3>. QED
        BY <1>0, <1>2, <1>6, <3>1, <3>2, <3>3, ExecuteKeys
  <2>. QED
      BY <1>0, <1>3, <1>4, <2>1, SafeApplied DEF WalletInv, SafeInv
<1>8. SignedInv'
  <2>1. ASSUME NEW u PROVE TrxSigned(u)' <=> TrxSigned(u)
      BY <1>4 DEF TrxSigned, IsSigned, SignedFor
  <2>2. TrxSigned(running.trx)'
      BY <1>3, <1>4 DEF WalletInv, SignedInv, TrxSigned, IsSigned, SignedFor
  <2>3. ASSUME NEW n \in Name
        PROVE  work'.key[n] = committed.key[n] \/ RekeyedBy(n)'
    <3>1. RekeyedBy(n) => RekeyedBy(n)'
        BY <1>3, <1>4 DEF RekeyedBy
    <3>2. i \in 1 .. running'.at - 1
        BY <1>3
    <3>3. CASE work'.key[n] = work.key[n]
        BY <1>0, <3>1, <3>3 DEF WalletInv, SignedInv
    <3>4. CASE \/ c.id = "register_name" /\ c.name = n
               \/ /\ c.id = "transfer"
                  /\ n \in Address \cap {c.to, IF c.to = EmptyName THEN gen ELSE c.to}
        BY <1>1, <1>3, <1>4, <3>2, <3>4 DEF RekeyedBy
    <3>. QED
        BY <1>0, <1>2, <1>6, <3>3, <3>4, ExecuteKeys
  <2>. QED
      BY <1>0, <1>3, <1>4, <2>1, <2>2, <2>3 DEF WalletInv, SignedInv
<1>. QED
    BY <1>4, <1>5, <1>7, <1>8 DEF WalletInv

(* Nothing runs: the empty transaction.                                    *)
LEMMA NoRunIs ==
    /\ NoRun \in [trx : Transaction, at : Nat]
    /\ SafeCommands(NoRun.trx.commands) /\ TrxSigned(NoRun.trx)
BY DEF NoRun, NoTrx, Transaction, SafeCommands, TrxSigned

(* A refused command drops what its transaction wrote.                     *)
LEMMA RefuseStep ==
    ASSUME WalletInv, Refuse
    PROVE  WalletInv'
<1>1. /\ Discard /\ running' = NoRun /\ UNCHANGED <<committed, keys, trx, pool>>
      /\ work' = committed /\ applying' = FALSE
    BY DEF Refuse, Discard, Return
<1>2. SupplyInv'
    BY <1>1, SupplyStep DEF WalletInv, Next
<1>3. WalletTypes'
    BY <1>1, NoRunIs DEF WalletInv, WalletTypes, WalletTypeOK, keys
<1>4. SafeInv'
    BY <1>1, NoRunIs, SafeApplied DEF WalletInv, SafeInv
<1>5. SignedInv'
  <2>1. ASSUME NEW u PROVE TrxSigned(u)' <=> TrxSigned(u)
      BY <1>1 DEF TrxSigned, IsSigned, SignedFor
  <2>2. TrxSigned(running.trx)'
      BY <1>1 DEF TrxSigned, NoRun, NoTrx
  <2>. QED
      BY <1>1, <2>1, <2>2 DEF WalletInv, SignedInv
<1>. QED
    BY <1>2, <1>3, <1>4, <1>5 DEF WalletInv

(* What the ledger's change may have invalidated counts as not checked.    *)
LEMMA AppliedStep ==
    ASSUME WalletInv, Applied
    PROVE  WalletInv'
<1>1. /\ running' = NoRun /\ UNCHANGED <<work, keys, trx>> /\ committed' = work
      /\ applying' = FALSE /\ signers' = {} /\ gen' = EmptyName
    BY DEF Applied, Return
<1>2. pool' = {[t EXCEPT !.checked = IF work = committed THEN @ ELSE "not"] :
                   t \in pool \ {running.trx}}
    BY DEF Applied
<1>3. pool \subseteq Transaction
    BY DEF WalletInv, WalletTypes
<1>4. ASSUME NEW t \in pool'
      PROVE  \E u \in pool :
                /\ t \in Transaction /\ t.commands = u.commands /\ t.sigs = u.sigs
                /\ t.checked = "not" \/ (work = committed /\ t.checked = u.checked)
  <2>1. PICK u \in pool \ {running.trx} :
            t = [u EXCEPT !.checked = IF work = committed THEN @ ELSE "not"]
      BY <1>2
  <2>2. u \in Transaction
      BY <1>3
  <2>. QED
      BY <2>1, <2>2 DEF Transaction
<1>5. SupplyInv'
    BY <1>1 DEF WalletInv, SupplyInv, TypeOK, Sound
<1>6. WalletTypes'
  <2>1. ASSUME NEW t \in pool'
        PROVE  ToSet(t.commands) \subseteq Command /\ t.sigs \subseteq made \ others
    <3>1. PICK u \in pool : t.commands = u.commands /\ t.sigs = u.sigs
        BY <1>4
    <3>. QED
        BY <3>1 DEF WalletInv, WalletTypes, WalletTypeOK
  <2>. QED
      BY <1>1, <1>4, <2>1, NoRunIs DEF WalletInv, WalletTypes, WalletTypeOK, keys
<1>7. SafeInv'
    BY <1>1, <1>4, NoRunIs, SafeApplied DEF WalletInv, SafeInv
<1>8. SignedInv'
  <2>1. ASSUME NEW t \in pool' PROVE TrxSigned(t)'
    <3>1. PICK u \in pool :
              /\ t.commands = u.commands /\ t.sigs = u.sigs
              /\ t.checked = "not" \/ (work = committed /\ t.checked = u.checked)
        BY <1>4
    <3>2. TrxSigned(u)
        BY DEF WalletInv, SignedInv
    <3>. QED
        BY <1>1, <3>1, <3>2 DEF TrxSigned, IsSigned, SignedFor
  <2>2. TrxSigned(running.trx)'
      BY <1>1 DEF TrxSigned, NoRun, NoTrx
  <2>. QED
      BY <1>1, <2>1, <2>2 DEF SignedInv
<1>. QED
    BY <1>5, <1>6, <1>7, <1>8 DEF WalletInv

(* The node takes up what is pending, which is typed, safe and signed.     *)
LEMMA BeginPoolStep ==
    ASSUME WalletInv, NEW t \in pool, NEW g \in Generator, Begin(t, g)
    PROVE  WalletInv'
<1>1. t \in Transaction /\ SafeCommands(t.commands) /\ TrxSigned(t)
    BY DEF WalletInv, WalletTypes, SafeInv, SignedInv
<1>. QED
    BY <1>1, BeginStep

-----------------------------------------------------------------------------
(* The program starts with an empty ledger, wallet and transaction.        *)
LEMMA WalletStart == WalletInit => WalletInv
<1>. SUFFICES ASSUME WalletInit PROVE WalletInv
    OBVIOUS
<1>1. SupplyInv
    BY EmptyLedgerSound DEF WalletInit, Init, SupplyInv, TypeOK
<1>2. WalletTypes
    BY NoRunIs, WalletBounds DEF WalletInit, Init, WalletTypes, WalletTypeOK, ToSet
<1>3. SafeInv
  <2>1. ASSUME NEW n \in Name PROVE KeyIsSafe(n, EmptyLedger.key[n])
      BY KeyAssumption DEF EmptyLedger, KeyIsSafe
  <2>. QED
      BY <2>1, NoRunIs DEF WalletInit, Init, SafeInv, SafeCommands
<1>4. SignedInv
    BY NoRunIs DEF WalletInit, Init, SignedInv
<1>. QED
    BY <1>1, <1>2, <1>3, <1>4 DEF WalletInv

(* Every step of the wallet, the node and others keeps the invariant.      *)
LEMMA WalletStep == WalletInv /\ [WalletNext]_allvars => WalletInv'
<1>. SUFFICES ASSUME WalletInv, [WalletNext]_allvars PROVE WalletInv'
    OBVIOUS
<1>1. ASSUME NEW k \in Key, GenKey(k) PROVE WalletInv'
    BY <1>1, GenKeyStep
<1>2. ASSUME NEW k \in Key, OtherKey(k) PROVE WalletInv'
    BY <1>2, OtherKeyStep
<1>3. ASSUME NEW k \in Key, NEW n \in Name, Register(n, k) PROVE WalletInv'
    BY <1>3, RegisterStep
<1>4. ASSUME NEW s \in Stock, IssueStock(s) PROVE WalletInv'
    BY <1>4, IssueStockStep
<1>5. ASSUME NEW f \in Name, NEW t \in Payee, NEW s \in Stock, NEW n \in Amount,
             TransferStock(f, t, s, n)
      PROVE  WalletInv'
    BY <1>5, TransferStockStep
<1>6. ASSUME NEW f \in Name, NEW t \in Payee, NEW s \in Stock, NEW n \in Amount,
             TransferFromUnclaimed(f, t, s, n)
      PROVE  WalletInv'
    BY <1>6, TransferFromUnclaimedStep
<1>7. CASE StartOver \/ Exit \/ Crash
    BY <1>7, StartOverStep
<1>8. CASE CommitTrx
    BY <1>8, CommitTrxStep
<1>9. ASSUME NEW g \in Generator, NEW t \in pool, Begin(t, g) PROVE WalletInv'
    BY <1>9, BeginPoolStep
<1>10. ASSUME NEW g \in Generator, NEW c \in Command, BeginOther(c, g)
       PROVE  WalletInv'
    BY <1>10, BeginOtherStep
<1>11. CASE ExecuteNext
    BY <1>11, ExecuteNextStep
<1>12. CASE Refuse
    BY <1>12, RefuseStep
<1>13. CASE Applied
    BY <1>13, AppliedStep
<1>14. CASE UNCHANGED allvars
  <2>1. UNCHANGED <<committed, work, applying, signers, gen, made, keychain, synced,
                    others, trx, pool, running>>
      BY <1>14 DEF allvars, ledgervars, keys
  <2>2. SupplyInv'
      BY <2>1 DEF WalletInv, SupplyInv, TypeOK, Sound
  <2>3. WalletTypes'
      BY <2>1 DEF WalletInv, WalletTypes, WalletTypeOK
  <2>4. SafeInv'
      BY <2>1, SafeApplied DEF WalletInv, SafeInv, keys
  <2>5. SignedInv'
      BY <2>1 DEF WalletInv, SignedInv, TrxSigned, IsSigned, SignedFor, RekeyedBy
  <2>. QED
      BY <2>2, <2>3, <2>4, <2>5 DEF WalletInv
<1>. QED
    BY <1>1, <1>2, <1>3, <1>4, <1>5, <1>6, <1>7, <1>8, <1>9, <1>10, <1>11,
       <1>12, <1>13, <1>14
    DEF WalletNext

(* WalletInv is an inductive invariant of the wallet, its ledger and the   *)
(* other users.                                                            *)
LEMMA WalletInvariant == WalletSpec => []WalletInv
    BY WalletStart, WalletStep, PTL DEF WalletSpec

(* The node's ledger keeps its books while it applies what the wallet and  *)
(* others send, refuses it half-way, or applies it.                        *)
THEOREM WalletKeepsBooks == WalletSpec => []SupplyInv
<1>1. WalletInv => SupplyInv
    BY DEF WalletInv
<1>. QED
    BY <1>1, WalletInvariant, PTL

(* Whatever the wallet and the other users submit, no transfer creates a   *)
(* unit: transfer_balance's addition never wraps.                          *)
THEOREM WalletNeverCounterfeits == WalletSpec => []NoCounterfeit
    BY WalletKeepsBooks, BackedPair, PTL

(* Crash or not, the wallet holds the key of every name that register gave *)
(* one: the command is only added once the key is durable.                 *)
THEOREM WalletIsSound == WalletSpec => []WalletSound
<1>1. WalletInv => WalletSound
    BY DEF WalletInv, WalletTypes, SafeInv, KeyIsSafe, WalletSound, KeysAreKept
<1>. QED
    BY <1>1, WalletInvariant, PTL

(* The signature that a refused command wants, when sign accepted its      *)
(* transaction against this ledger, is there, unless a command before it   *)
(* gave the name another key.                                              *)
LEMMA RefusedIsSigned ==
    ASSUME WalletInv, Refuse, running.trx.checked # "not", NeedsSignature(NextCommand),
           ~Rekeyed
    PROVE  work.key[Subject(NextCommand)] \in signers
<1>. DEFINE cmds == running.trx.commands
            i == running.at
            c == NextCommand
            n == Subject(c)
            sigs == running.trx.sigs
<1>1. applying /\ i \in DOMAIN cmds /\ c = cmds[i] /\ c \in Command
  <2>1. applying /\ ~AtEnd /\ running \in [trx : Transaction, at : Nat] /\ i # 0
      BY DEF Refuse, WalletInv, WalletTypes
  <2>2. cmds \in Seq(Command) /\ i \in Nat
      BY <2>1 DEF Transaction
  <2>3. i \in DOMAIN cmds
      BY <2>1, <2>2 DEF AtEnd
  <2>. QED
      BY <2>1, <2>2, <2>3, ElementOfSeq DEF NextCommand
<1>2. IsSigned(cmds, i, sigs)
    BY <1>1 DEF WalletInv, SignedInv, TrxSigned
<1>3. n \in Name
    BY <1>1, CommandCases DEF Subject
<1>4. ~RekeyedBy(n)
    BY DEF Rekeyed, RekeyedBy
<1>5. work.key[n] = committed.key[n] /\ signers = sigs
    BY <1>1, <1>3, <1>4 DEF WalletInv, SignedInv
<1>6. ~RegisteredBefore(cmds, i, n)
    BY <1>4 DEF RegisteredBefore, RekeyedBy
<1>7. CASE c.id = "register_name"
  <2>1. n = c.name
      BY <1>7 DEF Subject
  <2>2. committed.key[n] # Unregistered /\ n # EncodeAddress[c.key]
      BY <1>5, <1>7, <2>1 DEF NeedsSignature, Registered
  <2>3. SignedFor(cmds, i, n, sigs)
      BY <1>1, <1>2, <1>7, <2>1, <2>2 DEF IsSigned
  <2>. QED
      BY <1>5, <1>6, <2>3 DEF SignedFor
<1>8. CASE c.id # "register_name"
  <2>1. SignedFor(cmds, i, n, sigs)
      BY <1>1, <1>2, <1>8 DEF IsSigned
  <2>. QED
      BY <1>5, <1>6, <2>1 DEF SignedFor
<1>. QED
    BY <1>7, <1>8

(* What sign accepted is not refused for want of a signature while the     *)
(* ledger is the one it was signed against.                                *)
THEOREM SignedSuffices == WalletSpec => SignedIsEnough
<1>1. WalletInv /\ [WalletNext]_allvars =>
          [Refuse /\ running.trx.checked # "not" =>
               \/ ~NeedsSignature(NextCommand)
               \/ work.key[Subject(NextCommand)] \in signers
               \/ Rekeyed]_allvars
    BY RefusedIsSigned
<1>. QED
    BY <1>1, WalletInvariant, PTL DEF WalletSpec, SignedIsEnough
=============================================================================
