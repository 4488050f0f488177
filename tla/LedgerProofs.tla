---------------------------- MODULE LedgerProofs ----------------------------
(***************************************************************************)
(* For any names, keys and uint64 width: every balance stays an amount,    *)
(* and the units of a stock are never multiplied.                          *)
(***************************************************************************)
EXTENDS Ledger, FiniteSetTheorems, TLAPS

(* A finite set has a subset of every smaller cardinality: the units a     *)
(* transfer hands over can be chosen.                                      *)
LEMMA SubsetOfSize ==
    ASSUME NEW S, IsFiniteSet(S), NEW n \in Nat, n <= Cardinality(S)
    PROVE  \E T \in SUBSET S : Cardinality(T) = n
<1> DEFINE c == Cardinality(S)
<1>1. c \in Nat /\ ExistsBijection(1 .. c, S)
    BY FS_CardinalityType
<1>2. PICK F \in [1 .. c -> S] :
          \A x, y \in 1 .. c : F[x] = F[y] => x = y
    BY <1>1 DEF ExistsBijection, Bijection, Injection, IsInjective
<1> DEFINE T == {F[i] : i \in 1 .. n}
           G == [i \in 1 .. n |-> F[i]]
<1>3. 1 .. n \subseteq 1 .. c
    BY <1>1
<1>4. T \in SUBSET S
    BY <1>2, <1>3
<1>5. G \in Bijection(1 .. n, T)
    <2>1. G \in [1 .. n -> T]
        OBVIOUS
    <2>2. \A x, y \in 1 .. n : G[x] = G[y] => x = y
        BY <1>2, <1>3
    <2>3. \A t \in T : \E x \in 1 .. n : G[x] = t
        OBVIOUS
    <2>. QED
        BY <2>1, <2>2, <2>3 DEF Bijection, Injection, IsInjective, Surjection
<1>6. Cardinality(T) = n
    BY <1>5, FS_CountingElements DEF ExistsBijection
<1>. QED
    BY <1>4, <1>6

(* The accounts of a backed stock hold disjoint sets of its units.         *)
LEMMA BackedSum ==
    ASSUME NEW held \in SUBSET Unit, NEW owner \in [held -> Name],
           NEW a \in Name, NEW b \in Name, a # b
    PROVE  /\ IsFiniteSet(HeldBy(owner, a))
           /\ Cardinality(HeldBy(owner, a)) \in Nat
           /\ Cardinality(HeldBy(owner, a)) + Cardinality(HeldBy(owner, b))
                  <= MaxAmount
<1> DEFINE A == HeldBy(owner, a)
           B == HeldBy(owner, b)
<1>1. IsFiniteSet(Unit) /\ Cardinality(Unit) = MaxAmount
    BY FS_Interval, AmountAssumption DEF Unit
<1>2. A \in SUBSET Unit /\ B \in SUBSET Unit /\ A \cap B = {}
    BY DEF HeldBy
<1> HIDE DEF A, B
<1>3. IsFiniteSet(A) /\ IsFiniteSet(B)
    BY <1>1, <1>2, FS_Subset
<1>4. /\ Cardinality(A) \in Nat /\ Cardinality(B) \in Nat
      /\ Cardinality(A \cap B) = 0
    BY <1>2, <1>3, FS_CardinalityType, FS_EmptySet
<1>5. Cardinality(A \cup B) = Cardinality(A) + Cardinality(B)
    <2>1. Cardinality(A \cup B)
              = Cardinality(A) + Cardinality(B) - Cardinality(A \cap B)
        BY <1>3, FS_Union
    <2>. QED
        BY <1>4, <2>1
<1>6. Cardinality(A \cup B) <= MaxAmount
    <2>1. A \cup B \in SUBSET Unit
        BY <1>2
    <2>. QED
        BY <1>1, <2>1, FS_Subset
<1>. QED
    BY <1>3, <1>4, <1>5, <1>6 DEF A, B

(* Moving units of a backed stock, or losing them in a transfer of an      *)
(* account to itself, leaves the stock backed.                             *)
LEMMA BackedMoved ==
    ASSUME NEW L, NEW L2, NEW s \in Name, NEW f \in Name, NEW d \in Name,
           Backed(L, s), NEW n \in Nat, n <= L.bal[<<f, s>>],
           L2.bal = Moved(L.bal, f, d, s, n)
    PROVE  Backed(L2, s)
<1>0. PICK held \in SUBSET Unit : \E owner \in [held -> Name] :
          \A a \in Name : L.bal[<<a, s>>] = Cardinality(HeldBy(owner, a))
    BY DEF Backed
<1>1. PICK owner \in [held -> Name] :
          \A a \in Name : L.bal[<<a, s>>] = Cardinality(HeldBy(owner, a))
    BY <1>0
<1>2. IsFiniteSet(Unit)
    BY FS_Interval, AmountAssumption DEF Unit
<1>3. \A a \in Name : HeldBy(owner, a) \in SUBSET Unit
    BY DEF HeldBy
<1>4. \A a \in Name : IsFiniteSet(HeldBy(owner, a))
    BY <1>2, <1>3, FS_Subset
<1>5. PICK T \in SUBSET HeldBy(owner, f) : Cardinality(T) = n
    BY <1>1, <1>4, SubsetOfSize
<1>6. IsFiniteSet(T)
    BY <1>4, <1>5, FS_Subset
<1>7. /\ Cardinality(HeldBy(owner, f)) \in Nat
      /\ Cardinality(HeldBy(owner, d)) \in Nat
    BY <1>4, FS_CardinalityType
<1>8. Cardinality(HeldBy(owner, f) \ T) = Cardinality(HeldBy(owner, f)) - n
    <2>1. HeldBy(owner, f) \cap T = T
        BY <1>5
    <2>. QED
        BY <1>4, <1>5, <2>1, FS_Difference
<1>9. CASE d = f
    <2> DEFINE rest == [u \in held \ T |-> owner[u]]
    <2>1. HeldBy(rest, f) = HeldBy(owner, f) \ T
        BY DEF HeldBy
    <2>2. \A a \in Name : a # f => HeldBy(rest, a) = HeldBy(owner, a)
        BY <1>5 DEF HeldBy
    <2>3. held \ T \in SUBSET Unit /\ rest \in [held \ T -> Name]
        OBVIOUS
    <2> HIDE DEF rest
    <2>4. ASSUME NEW a \in Name
          PROVE  L2.bal[<<a, s>>] = Cardinality(HeldBy(rest, a))
        <3>1. <<a, s>> \in Account
            BY DEF Account
        <3>2. L2.bal[<<a, s>>] = IF a = f THEN L.bal[<<a, s>>] - n
                                 ELSE L.bal[<<a, s>>]
            BY <1>9, <3>1 DEF Moved
        <3>. QED
            BY <1>1, <1>8, <2>1, <2>2, <3>2
    <2>. QED
        BY <2>3, <2>4 DEF Backed
<1>10. CASE d # f
    <2> DEFINE paid == [u \in held |-> IF u \in T THEN d ELSE owner[u]]
    <2>1. HeldBy(paid, f) = HeldBy(owner, f) \ T
        BY <1>10 DEF HeldBy
    <2>2. HeldBy(paid, d) = HeldBy(owner, d) \cup T
        BY <1>5 DEF HeldBy
    <2>3. \A a \in Name : a # f /\ a # d => HeldBy(paid, a) = HeldBy(owner, a)
        BY <1>5 DEF HeldBy
    <2>4. paid \in [held -> Name]
        OBVIOUS
    <2>5. HeldBy(owner, d) \cap T = {}
        BY <1>5, <1>10 DEF HeldBy
    <2> HIDE DEF paid
    <2>6. Cardinality(HeldBy(owner, d) \cup T)
              = Cardinality(HeldBy(owner, d)) + n
        <3>1. Cardinality(HeldBy(owner, d) \cup T)
                  = Cardinality(HeldBy(owner, d)) + Cardinality(T)
                        - Cardinality(HeldBy(owner, d) \cap T)
            BY <1>4, <1>6, FS_Union
        <3>2. Cardinality(HeldBy(owner, d) \cap T) = 0
            BY <2>5, FS_EmptySet
        <3>. QED
            BY <1>5, <1>7, <3>1, <3>2
    <2>7. ASSUME NEW a \in Name
          PROVE  L2.bal[<<a, s>>] = Cardinality(HeldBy(paid, a))
        <3>1. <<a, s>> \in Account
            BY DEF Account
        <3>2. L2.bal[<<a, s>>] = IF a = f THEN L.bal[<<a, s>>] - n
                                 ELSE IF a = d THEN L.bal[<<a, s>>] + n
                                 ELSE L.bal[<<a, s>>]
            BY <1>10, <3>1 DEF Moved
        <3>. QED
            BY <1>1, <1>8, <1>10, <2>1, <2>2, <2>3, <2>6, <3>2
    <2>. QED
        BY <2>4, <2>7 DEF Backed
<1>. QED
    BY <1>9, <1>10

(* A stock whose balances do not change stays backed.                      *)
LEMMA BackedFrame ==
    ASSUME NEW L, NEW L2, NEW s \in Name, Backed(L, s),
           \A a \in Name : L2.bal[<<a, s>>] = L.bal[<<a, s>>]
    PROVE  Backed(L2, s)
<1>0. PICK held \in SUBSET Unit : \E owner \in [held -> Name] :
          \A a \in Name : L.bal[<<a, s>>] = Cardinality(HeldBy(owner, a))
    BY DEF Backed
<1>1. PICK owner \in [held -> Name] :
          \A a \in Name : L.bal[<<a, s>>] = Cardinality(HeldBy(owner, a))
    BY <1>0
<1>. QED
    BY <1>1 DEF Backed

(* Issuing a stock nobody owns deals every unit to its own account.        *)
LEMMA BackedIssue ==
    ASSUME NEW L, NEW L2, NEW s \in Name,
           L.bal \in [Account -> Amount],
           \A a \in Name : L.bal[<<a, s>>] = 0,
           L2.bal = [L.bal EXCEPT ![<<s, s>>] = MaxAmount]
    PROVE  Backed(L2, s)
<1> DEFINE owner == [u \in Unit |-> s]
<1>1. HeldBy(owner, s) = Unit /\ Cardinality(Unit) = MaxAmount
    BY FS_Interval, AmountAssumption DEF HeldBy, Unit
<1>2. ASSUME NEW a \in Name
      PROVE  L2.bal[<<a, s>>] = Cardinality(HeldBy(owner, a))
    <2>1. <<a, s>> \in Account
        BY DEF Account
    <2>2. CASE a = s
        BY <1>1, <2>1, <2>2
    <2>3. CASE a # s
        <3>1. HeldBy(owner, a) = {}
            BY <2>3 DEF HeldBy
        <3>2. L2.bal[<<a, s>>] = 0
            BY <2>1, <2>3
        <3>. QED
            BY <3>1, <3>2, FS_EmptySet
    <2>. QED
        BY <2>2, <2>3
<1>3. Unit \in SUBSET Unit /\ owner \in [Unit -> Name]
    OBVIOUS
<1>. QED
    BY <1>2, <1>3 DEF Backed

(* A market without assets keeps its books.                                *)
LEMMA EmptyLedgerSound == EmptyLedger \in LedgerState /\ Sound(EmptyLedger)
<1>1. EmptyLedger \in LedgerState
    BY AmountAssumption DEF EmptyLedger, LedgerState, Amount
<1>2. ASSUME NEW s \in Name PROVE Backed(EmptyLedger, s)
    <2> DEFINE owner == [u \in {} |-> s]
    <2>1. ASSUME NEW a \in Name
          PROVE  EmptyLedger.bal[<<a, s>>] = Cardinality(HeldBy(owner, a))
        <3>1. HeldBy(owner, a) = {}
            BY DEF HeldBy
        <3>. QED
            BY <3>1, FS_EmptySet DEF EmptyLedger, Account
    <2>2. {} \in SUBSET Unit /\ owner \in [{} -> Name]
        OBVIOUS
    <2>. QED
        BY <2>1, <2>2 DEF Backed
<1>3. UnissuedIsWorthless(EmptyLedger)
    BY DEF UnissuedIsWorthless, EmptyLedger, Account
<1>. QED
    BY <1>1, <1>2, <1>3 DEF Sound

(* A transfer keeps the working ledger typed and sound.  The credited      *)
(* balance is an Amount because payer and payee share the stock's units.   *)
LEMMA TransferSound ==
    ASSUME SupplyInv, NEW f \in Name, NEW t \in Name \cup {EmptyName},
           NEW s \in Name, NEW n \in Amount, Transfer(f, t, s, n)
    PROVE  work' \in LedgerState /\ Sound(work)'
<1> DEFINE d == IF t = EmptyName THEN gen ELSE t
<1>1. /\ d \in Name
      /\ n \in Nat /\ n <= work.bal[<<f, s>>]
      /\ work'.bal = Moved(work.bal, f, d, s, n)
      /\ work'.opened = work.opened \cup {<<f, s>>, <<d, s>>}
      /\ work'.key \in [Name -> Key \cup {NoKey, Unregistered}]
      /\ work' = [key |-> work'.key, bal |-> work'.bal, opened |-> work'.opened]
    BY AmountAssumption
    DEF Transfer, SupplyInv, TypeOK, LedgerState, Amount, Registered
<1>2. /\ work.bal \in [Account -> Amount] /\ work.opened \in SUBSET Account
      /\ \A r \in Name : Backed(work, r)
      /\ UnissuedIsWorthless(work)
    BY DEF SupplyInv, TypeOK, LedgerState, Sound
<1> HIDE DEF d
<1>3. d # f => work.bal[<<d, s>>] + work.bal[<<f, s>>] <= MaxAmount
    <2>0. PICK held \in SUBSET Unit : \E owner \in [held -> Name] :
              \A a \in Name : work.bal[<<a, s>>] = Cardinality(HeldBy(owner, a))
        BY <1>2 DEF Backed
    <2>1. PICK owner \in [held -> Name] :
              \A a \in Name : work.bal[<<a, s>>] = Cardinality(HeldBy(owner, a))
        BY <2>0
    <2>2. d # f => Cardinality(HeldBy(owner, d)) + Cardinality(HeldBy(owner, f))
                       <= MaxAmount
        BY <1>1, BackedSum
    <2>. QED
        BY <1>1, <2>1, <2>2
<1>4. work'.bal \in [Account -> Amount]
    <2>1. ASSUME NEW a \in Account
          PROVE  Moved(work.bal, f, d, s, n)[a] \in Amount
        <3>1. work.bal[a] \in Amount
            BY <1>2
        <3>2. CASE a = <<f, s>>
            BY <1>1, <3>1, <3>2, AmountAssumption DEF Moved, Amount
        <3>3. CASE a = <<d, s>> /\ d # f
            <4>1. Moved(work.bal, f, d, s, n)[a] = work.bal[a] + n
                BY <3>3 DEF Moved
            <4>2. <<f, s>> \in Account
                BY DEF Account
            <4>3. work.bal[<<f, s>>] \in Amount
                BY <1>2, <4>2
            <4>4. work.bal[a] + n <= MaxAmount
                BY <1>1, <1>3, <3>1, <3>3, <4>3, AmountAssumption DEF Amount
            <4>. QED
                BY <1>1, <3>1, <4>1, <4>4, AmountAssumption DEF Amount
        <3>4. CASE a # <<f, s>> /\ ~(a = <<d, s>> /\ d # f)
            BY <3>1, <3>4 DEF Moved
        <3>. QED
            BY <3>2, <3>3, <3>4
    <2>. QED
        BY <1>1, <2>1 DEF Moved
<1>5. work'.opened \in SUBSET Account
    BY <1>1, <1>2 DEF Account
<1>6. ASSUME NEW r \in Name PROVE Backed(work', r)
    <2>1. CASE r = s
        BY <1>1, <1>2, <2>1, BackedMoved
    <2>2. CASE r # s
        <3>1. \A a \in Name : work'.bal[<<a, r>>] = work.bal[<<a, r>>]
            BY <1>1, <2>2 DEF Moved, Account
        <3>. QED
            BY <1>2, <3>1, BackedFrame
    <2>. QED
        BY <2>1, <2>2
<1>7. UnissuedIsWorthless(work')
    <2> SUFFICES ASSUME NEW r \in Name, <<r, r>> \notin work'.opened,
                        NEW a \in Name
                 PROVE  work'.bal[<<a, r>>] = 0
        BY DEF UnissuedIsWorthless
    <2>1. work.bal[<<a, r>>] = 0
        BY <1>1, <1>2 DEF UnissuedIsWorthless
    <2>2. <<a, r>> \in Account
        BY DEF Account
    <2>3. CASE r # s
        BY <1>1, <2>1, <2>2, <2>3 DEF Moved
    <2>4. CASE r = s
        <3>1. work.bal[<<f, s>>] = 0
            BY <1>1, <1>2, <2>4 DEF UnissuedIsWorthless
        <3>2. n = 0
            BY <1>1, <3>1
        <3>. QED
            BY <1>1, <2>1, <2>2, <3>2 DEF Moved
    <2>. QED
        BY <2>3, <2>4
<1>8. work' \in LedgerState
    BY <1>1, <1>4, <1>5 DEF LedgerState
<1>. QED
    BY <1>6, <1>7, <1>8 DEF Sound

(* Every step keeps both ledgers typed and sound.                          *)
LEMMA SupplyStep == SupplyInv /\ [Next]_vars => SupplyInv'
<1> SUFFICES ASSUME SupplyInv, [Next]_vars PROVE SupplyInv'
    OBVIOUS
<1> USE DEF SupplyInv
<1>1. ASSUME NEW sigs \in SUBSET Key, NEW g \in Name \cup {EmptyName},
             BeginTrx(sigs, g)
      PROVE  SupplyInv'
    BY <1>1 DEF BeginTrx, TypeOK
<1>2. ASSUME NEW n \in Name, NEW k \in Key, RegisterName(n, k)
      PROVE  SupplyInv'
    <2>1. /\ work'.bal = work.bal /\ work'.opened = work.opened
          /\ work' \in LedgerState
        BY <1>2 DEF RegisterName, TypeOK, LedgerState
    <2>2. \A s \in Name : Backed(work', s)
        BY <2>1, BackedFrame DEF Sound
    <2>3. UnissuedIsWorthless(work')
        BY <2>1 DEF Sound, UnissuedIsWorthless
    <2>. QED
        BY <1>2, <2>1, <2>2, <2>3 DEF RegisterName, TypeOK, Sound
<1>3. ASSUME NEW s \in Name, Issue(s)
      PROVE  SupplyInv'
    <2>1. /\ work'.bal = [work.bal EXCEPT ![<<s, s>>] = MaxAmount]
          /\ work'.opened = work.opened \cup {<<s, s>>}
          /\ work.bal \in [Account -> Amount]
          /\ <<s, s>> \notin work.opened
        BY <1>3 DEF Issue, TypeOK, LedgerState
    <2>2. work' \in LedgerState
        <3>1. MaxAmount \in Amount /\ <<s, s>> \in Account
            BY AmountAssumption DEF Amount, Account
        <3>2. /\ work'.bal \in [Account -> Amount]
              /\ work'.opened \in SUBSET Account
            BY <2>1, <3>1 DEF TypeOK, LedgerState
        <3>. QED
            BY <1>3, <3>2 DEF Issue, TypeOK, LedgerState
    <2>3. \A a \in Name : work.bal[<<a, s>>] = 0
        BY <2>1 DEF Sound, UnissuedIsWorthless
    <2>4. ASSUME NEW r \in Name PROVE Backed(work', r)
        <3>1. CASE r = s
            BY <2>1, <2>3, <3>1, BackedIssue
        <3>2. CASE r # s
            <4>1. \A a \in Name : work'.bal[<<a, r>>] = work.bal[<<a, r>>]
                BY <2>1, <3>2
            <4>. QED
                BY <4>1, BackedFrame DEF Sound
        <3>. QED
            BY <3>1, <3>2
    <2>5. UnissuedIsWorthless(work')
        BY <2>1 DEF Sound, UnissuedIsWorthless
    <2>. QED
        BY <1>3, <2>2, <2>4, <2>5 DEF Issue, TypeOK, Sound
<1>4. ASSUME NEW f \in Name, NEW t \in Name \cup {EmptyName},
             NEW s \in Name, NEW n \in Amount, Transfer(f, t, s, n)
      PROVE  SupplyInv'
    BY <1>4, TransferSound DEF Transfer, TypeOK
<1>5. CASE EndTrx
    BY <1>5 DEF EndTrx, Return, TypeOK
<1>6. CASE Commit
    BY <1>6 DEF Commit, TypeOK
<1>7. CASE Discard
    BY <1>7 DEF Discard, Return, TypeOK
<1>8. CASE UNCHANGED vars
    BY <1>8 DEF vars, TypeOK
<1>. QED
    BY <1>1, <1>2, <1>3, <1>4, <1>5, <1>6, <1>7, <1>8 DEF Next

(* SupplyInv is an inductive invariant of the ledger.                      *)
THEOREM SupplyInvariant == Spec => []SupplyInv
<1>1. Init => SupplyInv
    BY EmptyLedgerSound DEF Init, SupplyInv, TypeOK
<1>. QED
    BY <1>1, SupplyStep, PTL DEF Spec

(* Backed units bound the sum of any two accounts.                         *)
LEMMA BackedPair == SupplyInv => NoCounterfeit
<1> SUFFICES ASSUME SupplyInv, NEW s \in Name, NEW a \in Name, NEW b \in Name,
                    a # b
             PROVE  work.bal[<<a, s>>] + work.bal[<<b, s>>] <= MaxAmount
    BY DEF NoCounterfeit
<1>0. PICK held \in SUBSET Unit : \E owner \in [held -> Name] :
          \A n \in Name : work.bal[<<n, s>>] = Cardinality(HeldBy(owner, n))
    BY DEF SupplyInv, Sound, Backed
<1>1. PICK owner \in [held -> Name] :
          \A n \in Name : work.bal[<<n, s>>] = Cardinality(HeldBy(owner, n))
    BY <1>0
<1>. QED
    BY <1>1, BackedSum

(* The addition of transfer_balance never wraps, whatever the transfers    *)
(* before it.                                                              *)
THEOREM NeverCounterfeit == Spec => []NoCounterfeit
    BY SupplyInvariant, BackedPair, PTL
=============================================================================
