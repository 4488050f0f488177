------------------------- MODULE StateDatabaseProofs -------------------------
(***************************************************************************)
(* Whatever the names, the keys, the amounts and the length of the log:    *)
(* the indices of the state database lead to the records they should, no   *)
(* account's history has a gap, and the log and its indices implement the  *)
(* ledger, so that no command moves what its holder did not sign for.      *)
(***************************************************************************)
EXTENDS StateDatabase, SequenceTheorems, TLAPS

LP == INSTANCE LedgerProofs
      WITH committed <- LedgerOf(base), work <- LedgerOf(view)

(* The account index and the links between transfers lead, from each       *)
(* account, through all its transfers.                                     *)
Linked(v) ==
    /\ \A x, y \in Nat :
           IsLastTransfer(v, get_last_transfer_index(v, <<x, y>>), <<x, y>>,
                          Len(v.log) + 1)
    /\ \A p \in 1 .. Len(v.log) : Kind(v, p) = "transfer_log" =>
           LET r == v.log[p] IN
           /\ IsLastTransfer(v, r.last_from_trx, <<r.from_name, r.type_name>>, p)
           /\ IsLastTransfer(v, r.last_to_trx, <<r.to_name, r.type_name>>, p)

(* What holds of the database below the open layer, and through it.        *)
Sound(v) ==
    /\ LayerOK(v)
    /\ NamesSound(v)
    /\ IndexSound(v)
    /\ StampSound(v)
    /\ Linked(v)

(* t is the start_trx record of the transaction that v's log ends in.      *)
Open(v, t) ==
    /\ t \in 1 .. Len(v.log)
    /\ Kind(v, t) = "start_trx"
    /\ \A q \in t + 1 .. Len(v.log) : Kind(v, q) \notin {"start_trx", "end_block"}

-----------------------------------------------------------------------------
(* The kind of a record says which fields it has.                          *)
LEMMA RecordKinds ==
    ASSUME NEW r \in Record
    PROVE  /\ r.kind = "define_name" => r \in DefineName
           /\ r.kind = "update_name" => r \in UpdateName
           /\ r.kind = "transfer_log" => r \in TransferLog
    BY DEF Record, DefineName, UpdateName, TransferLog, StartTrx, EndBlock

(* Appending a record leaves the records before it.                        *)
LEMMA Appended ==
    ASSUME NEW s \in Seq(Record), NEW r \in Record
    PROVE  /\ Append(s, r) \in Seq(Record)
           /\ Len(s) \in Nat
           /\ Len(Append(s, r)) = Len(s) + 1
           /\ \A p \in 1 .. Len(s) : Append(s, r)[p] = s[p]
           /\ Append(s, r)[Len(s) + 1] = r
    BY AppendProperties, LenProperties

(* Falling through one layer and then another.                             *)
LEMMA OverOver ==
    ASSUME NEW f, NEW g, NEW h
    PROVE  Over(Over(f, g), h) = Over(f, Over(g, h))
    BY DEF Over

(* An empty map over an index shows that index.                            *)
LEMMA OverEmpty ==
    ASSUME NEW f, f = [x \in DOMAIN f |-> f[x]]
    PROVE  Over(EmptyIndex, f) = f
<1>1. DOMAIN EmptyIndex = {}
    BY DEF EmptyIndex
<1>2. Over(EmptyIndex, f) = [x \in DOMAIN f |-> f[x]]
    BY <1>1 DEF Over
<1>. QED
    BY <1>2

(* A layer's map over the index below is an index of the same keys.        *)
LEMMA OverIndex ==
    ASSUME NEW S, NEW f, NEW g, IsIndex(f, S), IsIndex(g, S)
    PROVE  IsIndex(Over(f, g), S)
    BY DEF IsIndex, Over

Layer(x, y, z) == [log |-> x, names |-> y, transfers |-> z]
Joined(s, t) == s \o t
Then(s, r) == Append(s, r)
AtName(n, pos) == [x \in {n} |-> pos]
AtBoth(r, pos) == [a \in Accounts(r) |-> pos]

(* Writing to the open layer is, seen through it, writing to the whole.    *)
LEMMA StackedOK ==
    ASSUME NEW b, NEW l, LayerOK(b), LayerOK(l)
    PROVE  LayerOK(Stacked(b, l))
<1>1. b.log \o l.log \in Seq(Record)
    BY ConcatProperties DEF LayerOK
<1>2. /\ IsIndex(Over(l.names, b.names), Name)
      /\ IsIndex(Over(l.transfers, b.transfers), Nat \X Nat)
    BY OverIndex DEF LayerOK
<1>. QED
    BY <1>1, <1>2 DEF LayerOK, Stacked

(* Appending to the open layer's records is appending to the whole log.    *)
LEMMA AppendConcat ==
    ASSUME NEW s \in Seq(Record), NEW t \in Seq(Record), NEW r \in Record
    PROVE  s \o Append(t, r) = Append(s \o t, r)
    BY AppendIsConcat, ConcatAssociative, ConcatProperties

(* Changing one part of a layer leaves the other two.                      *)
LEMMA LayerExcept ==
    ASSUME NEW x, NEW y, NEW z, NEW u
    PROVE  /\ [Layer(x, y, z) EXCEPT !.log = u] = Layer(u, y, z)
           /\ [Layer(x, y, z) EXCEPT !.names = u] = Layer(x, u, z)
           /\ [Layer(x, y, z) EXCEPT !.transfers = u] = Layer(x, y, u)
    BY DEF Layer

(* The parts of a layer.                                                   *)
LEMMA LayerParts ==
    ASSUME NEW x, NEW y, NEW z
    PROVE  /\ Layer(x, y, z).log = x
           /\ Layer(x, y, z).names = y
           /\ Layer(x, y, z).transfers = z
    BY DEF Layer

(* A start_trx or end_block record changes a layer's records only.         *)
LEMMA LayerLogged ==
    ASSUME NEW x, NEW y, NEW z, NEW r
    PROVE  Logged(Layer(x, y, z), r) = Layer(Then(x, r), y, z)
<1>1. \A l : Logged(l, r) = [l EXCEPT !.log = Then(l.log, r)]
    BY Zenon DEF Logged, Then
<1>. QED
    BY <1>1, LayerExcept, LayerParts

(* set_public_key writes a layer's records and its last_name_edit_map.     *)
LEMMA LayerNamed ==
    ASSUME NEW x, NEW y, NEW z, NEW r, NEW n, NEW pos
    PROVE  Named(Layer(x, y, z), n, r, pos)
               = Layer(Then(x, r), Over(AtName(n, pos), y), z)
<1>1. \A l : Named(l, n, r, pos) =
          [Logged(l, r) EXCEPT !.names = Over(AtName(n, pos), Logged(l, r).names)]
    BY Zenon DEF Named, AtName
<1>. QED
    BY <1>1, LayerLogged, LayerExcept, LayerParts

(* A transfer writes a layer's records and its last_transfer_map, at both  *)
(* accounts.                                                               *)
LEMMA LayerTransferred ==
    ASSUME NEW x, NEW y, NEW z, NEW r, NEW pos
    PROVE  Transferred(Layer(x, y, z), r, pos)
               = Layer(Then(x, r), y, Over(AtBoth(r, pos), z))
<1>1. \A l : Transferred(l, r, pos) =
          [Logged(l, r) EXCEPT !.transfers =
               Over(AtBoth(r, pos), Logged(l, r).transfers)]
    BY Zenon DEF Transferred, AtBoth
<1>. QED
    BY <1>1, LayerLogged, LayerExcept, LayerParts

(* Each write to the open layer is, through the layers, the same write to  *)
(* the whole database.                                                     *)
LEMMA StackedAppended ==
    ASSUME NEW b, NEW l, LayerOK(b), LayerOK(l), NEW r \in Record
    PROVE  /\ Stacked(b, Logged(l, r)) = Logged(Stacked(b, l), r)
           /\ \A n, pos : Stacked(b, Named(l, n, r, pos))
                              = Named(Stacked(b, l), n, r, pos)
           /\ \A pos : Stacked(b, Transferred(l, r, pos))
                           = Transferred(Stacked(b, l), r, pos)
<1>1. Joined(b.log, Then(l.log, r)) = Then(Joined(b.log, l.log), r)
    BY AppendConcat DEF LayerOK, Joined, Then
<1>2. PICK x, y, z : l = Layer(x, y, z)
    BY DEF LayerOK, Layer
<1>3. \A p, q, t : Stacked(b, Layer(p, q, t)) =
          Layer(Joined(b.log, p), Over(q, b.names), Over(t, b.transfers))
    BY LayerParts, Zenon DEF Stacked, Layer, Joined
<1>4. Joined(b.log, Then(x, r)) = Then(Joined(b.log, x), r)
    BY <1>1, <1>2, LayerParts
<1>5. PICK u, v, w : u = Joined(b.log, x) /\ v = b.names /\ w = b.transfers
    OBVIOUS
<1>6. Stacked(b, l) = Layer(u, Over(y, v), Over(z, w))
    BY <1>2, <1>3, <1>5
<1>7. Stacked(b, Logged(l, r)) = Logged(Stacked(b, l), r)
    BY <1>2, <1>3, <1>4, <1>5, <1>6, LayerLogged
<1>8. ASSUME NEW n, NEW pos
      PROVE  Stacked(b, Named(l, n, r, pos)) = Named(Stacked(b, l), n, r, pos)
    <2>1. PICK i : i = AtName(n, pos)
        OBVIOUS
    <2>2. Named(l, n, r, pos) = Layer(Then(x, r), Over(i, y), z)
        BY <1>2, <2>1, LayerNamed
    <2>3. Stacked(b, Named(l, n, r, pos)) =
              Layer(Then(u, r), Over(Over(i, y), v), Over(z, w))
        BY <1>3, <1>4, <1>5, <2>2
    <2>4. Named(Stacked(b, l), n, r, pos) =
              Layer(Then(u, r), Over(i, Over(y, v)), Over(z, w))
        BY <1>6, <2>1, LayerNamed
    <2>. QED
        BY <2>3, <2>4, OverOver
<1>9. ASSUME NEW pos
      PROVE  Stacked(b, Transferred(l, r, pos)) = Transferred(Stacked(b, l), r, pos)
    <2>1. PICK i : i = AtBoth(r, pos)
        OBVIOUS
    <2>2. Transferred(l, r, pos) = Layer(Then(x, r), y, Over(i, z))
        BY <1>2, <2>1, LayerTransferred
    <2>3. Stacked(b, Transferred(l, r, pos)) =
              Layer(Then(u, r), Over(y, v), Over(Over(i, z), w))
        BY <1>3, <1>4, <1>5, <2>2
    <2>4. Transferred(Stacked(b, l), r, pos) =
              Layer(Then(u, r), Over(y, v), Over(i, Over(z, w)))
        BY <1>6, <2>1, LayerTransferred
    <2>. QED
        BY <2>3, <2>4, OverOver
<1>. QED
    BY <1>7, <1>8, <1>9

(* An empty layer shows what is below it.                                  *)
LEMMA StackedEmpty ==
    ASSUME NEW b, LayerOK(b)
    PROVE  Stacked(b, EmptyLayer) = b /\ LayerOK(EmptyLayer)
<1>1. b.log \o << >> = b.log
    BY ConcatEmptySeq DEF LayerOK
<1>2. Over(EmptyIndex, b.names) = b.names /\ Over(EmptyIndex, b.transfers) = b.transfers
    BY OverEmpty DEF LayerOK, IsIndex
<1>3. LayerOK(EmptyLayer)
    BY EmptySeq DEF LayerOK, EmptyLayer, IsIndex, EmptyIndex
<1>. QED
    BY <1>1, <1>2, <1>3 DEF Stacked, EmptyLayer, LayerOK

-----------------------------------------------------------------------------
(* What a layer is after a record was appended to it.                      *)
Grown(w, v, r) ==
    /\ v.log \in Seq(Record) /\ w.log \in Seq(Record) /\ r \in Record
    /\ Len(v.log) \in Nat
    /\ Len(w.log) = Len(v.log) + 1
    /\ \A p \in 1 .. Len(v.log) : w.log[p] = v.log[p]
    /\ w.log[Len(v.log) + 1] = r

(* A start_trx or end_block record is appended and no index changes.       *)
LEMMA LoggedIs ==
    ASSUME NEW v, LayerOK(v), NEW r \in Record
    PROVE  LET w == Logged(v, r) IN
           /\ LayerOK(w) /\ Grown(w, v, r)
           /\ w.names = v.names /\ w.transfers = v.transfers
<1>1. PICK x, y, z : v = Layer(x, y, z)
    BY DEF LayerOK, Layer
<1>2. PICK w : w = Logged(v, r)
    OBVIOUS
<1>3. w = Layer(Then(x, r), y, z)
    BY <1>1, <1>2, LayerLogged
<1>4. /\ v.log = x /\ v.names = y /\ v.transfers = z
      /\ w.log = Then(x, r) /\ w.names = y /\ w.transfers = z
    BY <1>1, <1>3, LayerParts
<1>5. x \in Seq(Record)
    BY <1>4 DEF LayerOK
<1>6. Grown(w, v, r)
    BY <1>4, <1>5, Appended DEF Grown, Then
<1>7. w = [log |-> w.log, names |-> w.names, transfers |-> w.transfers]
    BY <1>3, <1>4, Zenon DEF Layer
<1>8. LayerOK(w)
    BY <1>4, <1>6, <1>7 DEF LayerOK, Grown
<1>. QED
    BY <1>2, <1>4, <1>6, <1>8

(* A name's record is appended and the name index leads to it; other names *)
(* keep their entry.                                                       *)
LEMMA NamedIs ==
    ASSUME NEW v, LayerOK(v), NEW r \in Record, NEW n \in Name, NEW pos \in Nat
    PROVE  LET w == Named(v, n, r, pos) IN
           /\ LayerOK(w) /\ Grown(w, v, r)
           /\ w.transfers = v.transfers
           /\ DOMAIN w.names = DOMAIN v.names \cup {n}
           /\ w.names[n] = pos
           /\ \A m \in DOMAIN v.names : m # n => w.names[m] = v.names[m]
<1>1. PICK x, y, z : v = Layer(x, y, z)
    BY DEF LayerOK, Layer
<1>2. PICK w : w = Named(v, n, r, pos)
    OBVIOUS
<1>3. w = Layer(Then(x, r), Over(AtName(n, pos), y), z)
    BY <1>1, <1>2, LayerNamed
<1>4. /\ v.log = x /\ v.names = y /\ v.transfers = z
      /\ w.log = Then(x, r) /\ w.names = Over(AtName(n, pos), y)
      /\ w.transfers = z
    BY <1>1, <1>3, LayerParts
<1>5. x \in Seq(Record) /\ IsIndex(y, Name)
    BY <1>4 DEF LayerOK
<1>6. Grown(w, v, r)
    BY <1>4, <1>5, Appended DEF Grown, Then
<1>7. w = [log |-> w.log, names |-> w.names, transfers |-> w.transfers]
    BY <1>3, <1>4, Zenon DEF Layer
<1>8. /\ DOMAIN w.names = DOMAIN y \cup {n}
      /\ w.names[n] = pos
      /\ \A m \in DOMAIN y : m # n => w.names[m] = y[m]
    BY <1>4 DEF Over, AtName
<1>9. IsIndex(w.names, Name)
    <2>1. IsIndex(AtName(n, pos), Name)
        BY DEF IsIndex, AtName
    <2>. QED
        BY <2>1, <1>4, <1>5, OverIndex
<1>10. LayerOK(w)
    BY <1>4, <1>6, <1>7, <1>9 DEF LayerOK, Grown
<1>. QED
    BY <1>2, <1>4, <1>6, <1>8, <1>10

(* A transfer's record is appended and both its accounts lead to it; other *)
(* accounts keep their entry.                                              *)
LEMMA TransferredIs ==
    ASSUME NEW v, LayerOK(v), NEW r \in TransferLog, NEW pos \in Nat,
           NEW w, w = Transferred(v, r, pos)
    PROVE  /\ LayerOK(w) /\ Grown(w, v, r)
           /\ w.names = v.names
           /\ DOMAIN w.transfers = DOMAIN v.transfers \cup Accounts(r)
           /\ \A a \in Accounts(r) : w.transfers[a] = pos
           /\ \A a \in DOMAIN v.transfers :
                  a \notin Accounts(r) => w.transfers[a] = v.transfers[a]
<1>1. PICK x, y, z : v = Layer(x, y, z)
    BY DEF LayerOK, Layer
<1>3. w = Layer(Then(x, r), y, Over(AtBoth(r, pos), z))
    BY <1>1, LayerTransferred
<1>4. /\ v.log = x /\ v.names = y /\ v.transfers = z
      /\ w.log = Then(x, r) /\ w.names = y
      /\ w.transfers = Over(AtBoth(r, pos), z)
    BY <1>1, <1>3, LayerParts
<1>5. x \in Seq(Record) /\ IsIndex(z, Nat \X Nat) /\ r \in Record
    BY <1>4 DEF LayerOK, Record
<1>6. Grown(w, v, r)
    BY <1>4, <1>5, Appended DEF Grown, Then
<1>7. w = [log |-> w.log, names |-> w.names, transfers |-> w.transfers]
    BY <1>3, <1>4, Zenon DEF Layer
<1>8. /\ DOMAIN w.transfers = DOMAIN z \cup Accounts(r)
      /\ \A a \in Accounts(r) : w.transfers[a] = pos
      /\ \A a \in DOMAIN z : a \notin Accounts(r) => w.transfers[a] = z[a]
    BY <1>4 DEF Over, AtBoth
<1>9. IsIndex(w.transfers, Nat \X Nat)
    <2>1. Accounts(r) \subseteq Nat \X Nat
        BY DEF Accounts, TransferLog
    <2>2. IsIndex(AtBoth(r, pos), Nat \X Nat)
        BY <2>1 DEF IsIndex, AtBoth
    <2>. QED
        BY <2>2, <1>4, <1>5, OverIndex
<1>10. LayerOK(w)
    BY <1>4, <1>6, <1>7, <1>9 DEF LayerOK, Grown
<1>. QED
    BY <1>4, <1>6, <1>8, <1>10

-----------------------------------------------------------------------------
(* What the name index says of a name.                                     *)
LEMMA NameFacts ==
    ASSUME NEW v, LayerOK(v), NamesSound(v), NEW n
    PROVE  /\ n \notin DOMAIN v.names =>
                /\ get_last_name_edit_index(v, n) = None
                /\ get_name_index(v, n) = None
                /\ get_public_key_t(v, n) = Unregistered
           /\ n \in DOMAIN v.names =>
                /\ n \in Name
                /\ get_last_name_edit_index(v, n) = v.names[n]
                /\ v.names[n] \in 1 .. Len(v.log)
                /\ get_name_index(v, n) \in 1 .. Len(v.log)
                /\ Defines(v, get_name_index(v, n))
                /\ v.log[get_name_index(v, n)].name = n
                /\ get_public_key_t(v, n) = v.log[v.names[n]].key
                /\ get_public_key_t(v, n) \in Key \cup {NoKey}
           /\ Len(v.log) \in Nat
           /\ get_name_index(v, n) \in 0 .. Len(v.log)
           /\ \A m : get_name_index(v, m) = get_name_index(v, n) =>
                      m = n \/ get_name_index(v, n) = None
<1>0. /\ v.log \in Seq(Record) /\ Len(v.log) \in Nat
      /\ DOMAIN v.names \subseteq Name
    BY LenProperties DEF LayerOK, IsIndex
<1>1. ASSUME NEW m, m \notin DOMAIN v.names
      PROVE  /\ get_last_name_edit_index(v, m) = None
             /\ get_name_index(v, m) = None
             /\ get_public_key_t(v, m) = Unregistered
    BY <1>1 DEF get_last_name_edit_index, get_name_index, get_public_key_t
<1>2. ASSUME NEW m \in DOMAIN v.names
      PROVE  /\ get_last_name_edit_index(v, m) = v.names[m]
             /\ v.names[m] \in 1 .. Len(v.log)
             /\ Kind(v, v.names[m]) \in {"define_name", "update_name"}
             /\ Defines(v, get_name_index(v, m))
             /\ get_name_index(v, m) \in 1 .. Len(v.log)
             /\ v.log[get_name_index(v, m)].name = m
    BY <1>2 DEF NamesSound, get_last_name_edit_index, Defines
<1>3. ASSUME NEW m \in DOMAIN v.names
      PROVE  /\ get_public_key_t(v, m) = v.log[v.names[m]].key
             /\ get_public_key_t(v, m) \in Key \cup {NoKey}
    <2>1. v.names[m] # None /\ v.log[v.names[m]] \in Record
        BY <1>0, <1>2, ElementOfSeq DEF None
    <2>2. v.log[v.names[m]].key \in Key \cup {NoKey}
        BY <2>1, <1>2, RecordKinds DEF Kind, DefineName, UpdateName
    <2>. QED
        BY <2>1, <2>2, <1>2 DEF get_public_key_t
<1>4. \A m : get_name_index(v, m) = get_name_index(v, n) =>
                      m = n \/ get_name_index(v, n) = None
    BY <1>1, <1>2
<1>5. get_name_index(v, n) \in 0 .. Len(v.log)
    BY <1>0, <1>1, <1>2 DEF None
<1>. QED
    BY <1>0, <1>1, <1>2, <1>3, <1>4, <1>5

-----------------------------------------------------------------------------
(* What a new record does not change.                                      *)

(* A name that the new record is not about keeps its definition and key.   *)
LEMMA NameFrame ==
    ASSUME NEW v, LayerOK(v), NamesSound(v), NEW w, NEW r, Grown(w, v, r), NEW n,
           n \in DOMAIN w.names <=> n \in DOMAIN v.names,
           n \in DOMAIN v.names => w.names[n] = v.names[n]
    PROVE  /\ get_last_name_edit_index(w, n) = get_last_name_edit_index(v, n)
           /\ get_name_index(w, n) = get_name_index(v, n)
           /\ get_public_key_t(w, n) = get_public_key_t(v, n)
<1>1. get_last_name_edit_index(w, n) = get_last_name_edit_index(v, n)
    BY DEF get_last_name_edit_index
<1>2. get_last_name_edit_index(v, n) # None =>
          w.log[get_last_name_edit_index(v, n)] = v.log[get_last_name_edit_index(v, n)]
    BY NameFacts DEF Grown
<1>. QED
    BY <1>1, <1>2 DEF get_name_index, get_public_key_t

(* A record that defines no name, and that no name is indexed under,       *)
(* leaves the name index sound.                                            *)
LEMMA NamesKept ==
    ASSUME NEW v, LayerOK(v), NamesSound(v), NEW w, NEW r, Grown(w, v, r),
           w.names = v.names, r.kind # "define_name"
    PROVE  NamesSound(w)
<1>1. \A n : get_name_index(w, n) = get_name_index(v, n)
    BY NameFrame
<1>2. \A p \in 1 .. Len(w.log) : p \in 1 .. Len(v.log) \/ p = Len(v.log) + 1
    BY DEF Grown
<1>3. \A p : Defines(w, p) => Defines(v, p)
    BY <1>2 DEF Defines, Kind, Grown
<1>4. \A p \in 1 .. Len(v.log) : p \in 1 .. Len(w.log) /\ w.log[p] = v.log[p]
    BY DEF Grown
<1>5. \A p : Defines(v, p) => Defines(w, p)
    BY <1>4 DEF Defines, Kind
<1>6. ASSUME NEW n \in DOMAIN w.names
      PROVE  /\ w.names[n] \in 1 .. Len(w.log)
             /\ Kind(w, w.names[n]) \in {"define_name", "update_name"}
             /\ Defines(w, get_name_index(w, n))
             /\ w.log[get_name_index(w, n)].name = n
    BY <1>1, <1>4, <1>5 DEF NamesSound, Kind, Defines
<1>7. ASSUME NEW p \in 1 .. Len(w.log), Defines(w, p)
      PROVE  get_name_index(w, w.log[p].name) = p
    BY <1>1, <1>3, <1>4, <1>7 DEF NamesSound, Defines
<1>. QED
    BY <1>6, <1>7 DEF NamesSound

(* The links before a position are those of the log up to there.           *)
LEMMA LastFrame ==
    ASSUME NEW v, NEW w, NEW r, Grown(w, v, r), NEW p, NEW a,
           NEW b \in 1 .. Len(v.log) + 1
    PROVE  IsLastTransfer(w, p, a, b) <=> IsLastTransfer(v, p, a, b)
<1>1. \A q : q \in 1 .. b - 1 => w.log[q] = v.log[q]
    BY DEF Grown
<1>2. CASE p = None
    BY <1>1, <1>2 DEF IsLastTransfer, None
<1>3. CASE p # None /\ p \in 1 .. b - 1
    BY <1>1, <1>3 DEF IsLastTransfer
<1>4. CASE p # None /\ p \notin 1 .. b - 1
    BY <1>4 DEF IsLastTransfer
<1>. QED
    BY <1>2, <1>3, <1>4

(* A record that does not touch an account leaves its last transfer the    *)
(* last.                                                                   *)
LEMMA LastKept ==
    ASSUME NEW v, NEW w, NEW r, Grown(w, v, r), NEW p, NEW a, ~Touches(r, a),
           IsLastTransfer(v, p, a, Len(v.log) + 1)
    PROVE  IsLastTransfer(w, p, a, Len(w.log) + 1)
<1>0. Len(v.log) + 1 \in 1 .. Len(v.log) + 1
    BY DEF Grown
<1>1. IsLastTransfer(w, p, a, Len(v.log) + 1)
    BY <1>0, LastFrame, Zenon
<1>2. p = None \/ p \in 1 .. Len(v.log)
    BY DEF IsLastTransfer, Grown
<1>3. \A q \in p + 1 .. Len(w.log) :
          q \in p + 1 .. Len(v.log) \/ q = Len(v.log) + 1
    BY <1>2 DEF Grown, None
<1>4. \A q \in p + 1 .. Len(w.log) : ~Touches(w.log[q], a)
    BY <1>1, <1>2, <1>3 DEF IsLastTransfer, Grown, None
<1>. QED
    BY <1>1, <1>2, <1>4 DEF IsLastTransfer, Grown, None

(* A record that is no transfer leaves the account index, the stamps and   *)
(* the histories sound.                                                    *)
LEMMA TransfersKept ==
    ASSUME NEW v, Sound(v), NEW w, NEW r, Grown(w, v, r),
           w.transfers = v.transfers, r.kind # "transfer_log"
    PROVE  IndexSound(w) /\ StampSound(w) /\ Linked(w)
<1>0. /\ IndexSound(v) /\ StampSound(v) /\ Linked(v)
      /\ Len(v.log) \in Nat /\ Len(w.log) = Len(v.log) + 1
    BY DEF Sound, Grown
<1>1. \A p \in 1 .. Len(v.log) : p \in 1 .. Len(w.log) /\ w.log[p] = v.log[p]
    BY DEF Grown
<1>2. \A p \in 1 .. Len(w.log) :
          \/ p \in 1 .. Len(v.log)
          \/ p = Len(v.log) + 1 /\ Kind(w, p) # "transfer_log"
    BY DEF Grown, Kind
<1>3. IndexSound(w)
    BY <1>0, <1>1 DEF IndexSound, Defines, Kind
<1>4. ASSUME NEW p \in 1 .. Len(w.log), Kind(w, p) = "transfer_log"
      PROVE  LET t == w.log[p].trx_idx IN
             /\ t \in 1 .. p - 1
             /\ Kind(w, t) = "start_trx"
             /\ \A q \in t + 1 .. p - 1 : Kind(w, q) \notin {"start_trx", "end_block"}
    <2>1. p \in 1 .. Len(v.log) /\ w.log[p] = v.log[p]
        BY <1>1, <1>2, <1>4
    <2>2. PICK t : t = v.log[p].trx_idx
        OBVIOUS
    <2>3. /\ t \in 1 .. p - 1
          /\ Kind(v, t) = "start_trx"
          /\ \A q \in t + 1 .. p - 1 : Kind(v, q) \notin {"start_trx", "end_block"}
        BY <2>1, <2>2, <1>0, <1>4 DEF StampSound, Kind
    <2>4. \A q \in 1 .. p - 1 : Kind(w, q) = Kind(v, q)
        BY <2>1, <1>0, <1>1 DEF Kind
    <2>5. \A q \in t + 1 .. p - 1 : q \in 1 .. p - 1
        BY <2>3
    <2>. QED
        BY <2>1, <2>2, <2>3, <2>4, <2>5
<1>5. \A a : ~Touches(r, a)
    BY DEF Touches
<1>6. ASSUME NEW x \in Nat, NEW y \in Nat
      PROVE  IsLastTransfer(w, get_last_transfer_index(w, <<x, y>>), <<x, y>>,
                            Len(w.log) + 1)
    <2>1. get_last_transfer_index(w, <<x, y>>) = get_last_transfer_index(v, <<x, y>>)
        BY DEF get_last_transfer_index
    <2>2. IsLastTransfer(v, get_last_transfer_index(v, <<x, y>>), <<x, y>>,
                         Len(v.log) + 1)
        BY <1>0 DEF Linked
    <2>. QED
        BY <2>1, <2>2, <1>5, LastKept
<1>7. ASSUME NEW p \in 1 .. Len(w.log), Kind(w, p) = "transfer_log"
      PROVE  /\ IsLastTransfer(w, w.log[p].last_from_trx,
                    <<w.log[p].from_name, w.log[p].type_name>>, p)
             /\ IsLastTransfer(w, w.log[p].last_to_trx,
                    <<w.log[p].to_name, w.log[p].type_name>>, p)
    <2>1. p \in 1 .. Len(v.log) /\ w.log[p] = v.log[p]
        BY <1>1, <1>2, <1>7
    <2>2. /\ IsLastTransfer(v, v.log[p].last_from_trx,
                    <<v.log[p].from_name, v.log[p].type_name>>, p)
          /\ IsLastTransfer(v, v.log[p].last_to_trx,
                    <<v.log[p].to_name, v.log[p].type_name>>, p)
        BY <2>1, <1>0, <1>7 DEF Linked, Kind
    <2>. QED
        BY <2>1, <2>2, <1>0, LastFrame
<1>8. Linked(w)
    BY <1>6, <1>7 DEF Linked
<1>9. StampSound(w)
    BY <1>4 DEF StampSound
<1>. QED
    BY <1>3, <1>8, <1>9

(* An account whose last transfer is the same keeps its balance.           *)
LEMMA BalanceFrame ==
    ASSUME NEW v, LayerOK(v), IndexSound(v), NEW w, NEW r, Grown(w, v, r),
           NEW n, NEW s,
           get_name_index(w, n) = get_name_index(v, n),
           AccountKey(w, n, s) = AccountKey(v, n, s),
           get_last_transfer_index(w, AccountKey(v, n, s)) =
               get_last_transfer_index(v, AccountKey(v, n, s))
    PROVE  /\ get_balance(w, n, s) = get_balance(v, n, s)
           /\ IsNull(w, n, s) <=> IsNull(v, n, s)
<1>1. PICK p : p = get_last_transfer_index(v, AccountKey(v, n, s))
    OBVIOUS
<1>2. p # None => w.log[p] = v.log[p]
    BY <1>1 DEF IndexSound, get_last_transfer_index, Grown
<1>. QED
    BY <1>1, <1>2 DEF get_balance, IsNull

(* What the account index says of an account.                              *)
LEMMA BalanceFacts ==
    ASSUME NEW v, LayerOK(v), IndexSound(v), NEW n, NEW s
    PROVE  /\ get_balance(v, n, s) \in Amount
           /\ get_name_index(v, n) = None \/ get_name_index(v, s) = None =>
                  IsNull(v, n, s)
           /\ IsNull(v, n, s) => get_balance(v, n, s) = 0
<1>0. v.log \in Seq(Record) /\ None \notin 1 .. Len(v.log)
    BY DEF LayerOK, None
<1>1. PICK p : p = get_last_transfer_index(v, AccountKey(v, n, s))
    OBVIOUS
<1>2. p # None => /\ AccountKey(v, n, s) \in DOMAIN v.transfers
                  /\ p \in 1 .. Len(v.log)
                  /\ Touches(v.log[p], AccountKey(v, n, s))
                  /\ Defines(v, get_name_index(v, n))
                  /\ Defines(v, get_name_index(v, s))
    BY <1>1 DEF IndexSound, get_last_transfer_index, AccountKey
<1>3. p # None => v.log[p] \in TransferLog
    BY <1>0, <1>2, ElementOfSeq, RecordKinds DEF Touches
<1>4. get_balance(v, n, s) \in Amount
    BY <1>1, <1>3, BoundAssumption DEF get_balance, TransferLog, Amount
<1>5. get_name_index(v, n) = None \/ get_name_index(v, s) = None => p = None
    BY <1>0, <1>2 DEF Defines
<1>. QED
    BY <1>1, <1>4, <1>5 DEF IsNull, get_balance

-----------------------------------------------------------------------------
(* A ledger after an issue.                                                *)
Books(K, B, O) == [key |-> K, bal |-> B, opened |-> O]
Issued(l, a, x) == [l EXCEPT !.bal[a] = x, !.opened = @ \cup {a}]

(* Changing the balances, or the opened accounts, of a ledger leaves its   *)
(* other parts.                                                            *)
LEMMA BooksExcept ==
    ASSUME NEW K, NEW B, NEW O, NEW y
    PROVE  /\ [Books(K, B, O) EXCEPT !.bal = y] = Books(K, y, O)
           /\ [Books(K, B, O) EXCEPT !.opened = y] = Books(K, B, y)
<1>1. [Books(K, B, O) EXCEPT !.bal = y] = Books(K, y, O)
    BY DEF Books
<1>2. [Books(K, B, O) EXCEPT !.opened = y] = Books(K, B, y)
    BY DEF Books
<1>. QED
    BY <1>1, <1>2

(* The parts of a ledger.                                                  *)
LEMMA BooksParts ==
    ASSUME NEW K, NEW B, NEW O
    PROVE  /\ Books(K, B, O).key = K
           /\ Books(K, B, O).bal = B
           /\ Books(K, B, O).opened = O
    BY DEF Books

(* The ledger with one balance set and its account opened, part by part.   *)
LEMMA LedgerExcept ==
    ASSUME NEW l, l = [key |-> l.key, bal |-> l.bal, opened |-> l.opened],
           NEW a, NEW x, NEW l2,
           l2 = [key |-> l.key, bal |-> [l.bal EXCEPT ![a] = x],
                 opened |-> l.opened \cup {a}]
    PROVE  l2 = Issued(l, a, x)
<1>1. PICK K, B, O : l = Books(K, B, O)
    BY DEF Books
<1>2. l.key = K /\ l.bal = B /\ l.opened = O
    BY <1>1, BooksParts
<1>3. PICK B2, y, l3 : B2 = [B EXCEPT ![a] = x] /\ y = O \cup {a}
                       /\ l3 = [l EXCEPT !.bal[a] = x]
    OBVIOUS
<1>4. l3 = [l EXCEPT !.bal = B2]
    BY <1>2, <1>3
<1>5. l3 = Books(K, B2, O)
    BY <1>1, <1>4, BooksExcept
<1>6. Issued(l, a, x) = [l3 EXCEPT !.opened = y]
    BY <1>2, <1>3 DEF Issued
<1>7. [l3 EXCEPT !.opened = y] = Books(K, B2, y)
    BY <1>5, BooksExcept
<1>8. l2 = Books(K, B2, y)
    BY <1>2, <1>3, Zenon DEF Books
<1>. QED
    BY <1>6, <1>7, <1>8

(* A ledger is made of the keys, the balances and the opened accounts.     *)
LEMMA LedgerSame ==
    ASSUME NEW v, NEW w,
           \A n \in Name : get_public_key_t(w, n) = get_public_key_t(v, n),
           \A n, s \in Name : /\ get_balance(w, n, s) = get_balance(v, n, s)
                              /\ IsNull(w, n, s) <=> IsNull(v, n, s)
    PROVE  LedgerOf(w) = LedgerOf(v)
<1>1. [n \in Name |-> get_public_key_t(w, n)] = [n \in Name |-> get_public_key_t(v, n)]
    OBVIOUS
<1>2. [a \in Account |-> get_balance(w, a[1], a[2])]
          = [a \in Account |-> get_balance(v, a[1], a[2])]
    BY DEF Account
<1>3. {a \in Account : ~IsNull(w, a[1], a[2])} = {a \in Account : ~IsNull(v, a[1], a[2])}
    BY DEF Account
<1>. QED
    BY <1>1, <1>2, <1>3, Zenon DEF LedgerOf

(* A start_trx or end_block record changes nothing but the log.            *)
LEMMA MarkStep ==
    ASSUME NEW v, Sound(v), NEW r \in StartTrx \cup EndBlock
    PROVE  LET w == Logged(v, r) IN
           /\ Sound(w) /\ Grown(w, v, r)
           /\ LedgerOf(w) = LedgerOf(v)
<1>0. /\ LayerOK(v) /\ NamesSound(v) /\ IndexSound(v)
      /\ r \in Record /\ r.kind # "define_name" /\ r.kind # "transfer_log"
    BY DEF Sound, Record, StartTrx, EndBlock
<1>1. PICK w : w = Logged(v, r)
    OBVIOUS
<1>2. LayerOK(w) /\ Grown(w, v, r) /\ w.names = v.names /\ w.transfers = v.transfers
    BY <1>0, <1>1, LoggedIs
<1>3. Sound(w)
    BY <1>0, <1>2, NamesKept, TransfersKept DEF Sound
<1>4. \A n : /\ get_name_index(w, n) = get_name_index(v, n)
             /\ get_public_key_t(w, n) = get_public_key_t(v, n)
    BY <1>0, <1>2, NameFrame
<1>5. ASSUME NEW n, NEW s
      PROVE  /\ get_balance(w, n, s) = get_balance(v, n, s)
             /\ IsNull(w, n, s) <=> IsNull(v, n, s)
    <2>1. AccountKey(w, n, s) = AccountKey(v, n, s)
        BY <1>4 DEF AccountKey
    <2>2. \A a : get_last_transfer_index(w, a) = get_last_transfer_index(v, a)
        BY <1>2 DEF get_last_transfer_index
    <2>. QED
        BY <2>1, <2>2, <1>0, <1>2, <1>4, BalanceFrame
<1>6. LedgerOf(w) = LedgerOf(v)
    BY <1>4, <1>5, LedgerSame
<1>. QED
    BY <1>1, <1>2, <1>3, <1>6

(* A define_name or update_name record gives one name its key, and leaves  *)
(* every account what it was: a name that is new has none.                 *)
LEMMA NameStep ==
    ASSUME NEW v, Sound(v), NEW n \in Name, NEW k \in Key \cup {NoKey},
           k \in Key \/ get_name_index(v, n) = None,
           NEW r, r = KeyRecord(v, n, k),
           NEW p, p = Len(v.log) + 1,
           NEW w, w = Named(v, n, r, p)
    PROVE  /\ Sound(w) /\ Grown(w, v, r)
           /\ r.kind \in {"define_name", "update_name"}
           /\ LedgerOf(w) = [LedgerOf(v) EXCEPT !.key[n] = k]
           /\ get_name_index(w, n) # None
           /\ \A m : m # n => get_name_index(w, m) = get_name_index(v, m)
<1>0. /\ LayerOK(v) /\ NamesSound(v) /\ IndexSound(v)
      /\ Len(v.log) \in Nat /\ p \in Nat
    BY NameFacts DEF Sound
<1>2. get_last_name_edit_index(v, n) = None <=> n \notin DOMAIN v.names
    BY <1>0, NameFacts DEF None
<1>3. /\ r \in Record /\ r.key = k
      /\ r.kind = IF n \in DOMAIN v.names THEN "update_name" ELSE "define_name"
      /\ n \notin DOMAIN v.names => r.name = n
      /\ n \in DOMAIN v.names => r.name_idx = get_name_index(v, n)
    <2>1. CASE n \notin DOMAIN v.names
        <3>1. r = [kind |-> "define_name", name |-> n, key |-> k]
            BY <1>2, <2>1, Zenon DEF KeyRecord
        <3>. QED
            BY <2>1, <3>1 DEF Record, DefineName
    <2>2. CASE n \in DOMAIN v.names
        <3>1. PICK e, i : /\ e = get_last_name_edit_index(v, n) /\ e \in Nat
                          /\ i = get_name_index(v, n) /\ i \in Nat /\ i # None
            BY <1>0, <2>2, NameFacts DEF None
        <3>2. r = [kind |-> "update_name", name_idx |-> i, key |-> k,
                   last_update_idx |-> e]
            BY <1>2, <2>2, <3>1, Zenon DEF KeyRecord
        <3>. QED
            BY <2>2, <3>1, <3>2 DEF Record, UpdateName
    <2>. QED
        BY <2>1, <2>2
<1>5. /\ LayerOK(w) /\ Grown(w, v, r)
      /\ w.transfers = v.transfers
      /\ DOMAIN w.names = DOMAIN v.names \cup {n}
      /\ w.names[n] = p
      /\ \A m \in DOMAIN v.names : m # n => w.names[m] = v.names[m]
    BY <1>0, <1>3, NamedIs
<1>6. /\ \A q \in 1 .. Len(v.log) : q \in 1 .. Len(w.log) /\ w.log[q] = v.log[q]
      /\ p \in 1 .. Len(w.log) /\ w.log[p] = r /\ p # None
      /\ p \notin 1 .. Len(v.log)
      /\ \A q \in 1 .. Len(w.log) : q \in 1 .. Len(v.log) \/ q = p
    BY <1>0, <1>5 DEF Grown, None
<1>7. /\ get_last_name_edit_index(w, n) = p
      /\ get_public_key_t(w, n) = k
      /\ n \in DOMAIN v.names => get_name_index(w, n) = get_name_index(v, n)
      /\ n \notin DOMAIN v.names => get_name_index(w, n) = p
    BY <1>3, <1>5, <1>6 DEF get_last_name_edit_index, get_public_key_t, get_name_index
<1>8. \A m : m # n => /\ get_name_index(w, m) = get_name_index(v, m)
                      /\ get_public_key_t(w, m) = get_public_key_t(v, m)
    BY <1>0, <1>5, NameFrame
<1>9. NamesSound(w)
    <2>1. \A q : Defines(v, q) => Defines(w, q)
        BY <1>6 DEF Defines, Kind
    <2>2. ASSUME NEW m \in DOMAIN w.names
          PROVE  /\ w.names[m] \in 1 .. Len(w.log)
                 /\ Kind(w, w.names[m]) \in {"define_name", "update_name"}
                 /\ Defines(w, get_name_index(w, m))
                 /\ w.log[get_name_index(w, m)].name = m
        <3>1. CASE m # n
            <4>1. PICK e, i : e = v.names[m] /\ i = get_name_index(v, m)
                OBVIOUS
            <4>2. m \in DOMAIN v.names /\ w.names[m] = e
                BY <3>1, <4>1, <1>5
            <4>3. /\ e \in 1 .. Len(v.log)
                  /\ Kind(v, e) \in {"define_name", "update_name"}
                  /\ Defines(v, i) /\ v.log[i].name = m
                BY <4>1, <4>2, <1>0 DEF NamesSound
            <4>4. e \in 1 .. Len(w.log) /\ Kind(w, e) = Kind(v, e)
                BY <4>3, <1>6 DEF Kind
            <4>5. Defines(w, i) /\ w.log[i].name = m
                BY <4>3, <2>1, <1>6 DEF Defines
            <4>6. get_name_index(w, m) = i
                BY <3>1, <4>1, <1>8
            <4>. QED
                BY <4>2, <4>3, <4>4, <4>5, <4>6
        <3>2. CASE m = n /\ n \in DOMAIN v.names
            <4>1. PICK i : i = get_name_index(v, n)
                OBVIOUS
            <4>2. i \in 1 .. Len(v.log) /\ Defines(v, i) /\ v.log[i].name = n
                BY <3>2, <4>1, <1>0, NameFacts
            <4>3. get_name_index(w, m) = i
                BY <3>2, <4>1, <1>7
            <4>4. Defines(w, i) /\ w.log[i].name = m
                BY <3>2, <4>2, <2>1, <1>6
            <4>5. w.names[m] = p /\ Kind(w, p) = r.kind
                BY <3>2, <1>5, <1>6 DEF Kind
            <4>. QED
                BY <3>2, <4>3, <4>4, <4>5, <1>3, <1>6
        <3>3. CASE m = n /\ n \notin DOMAIN v.names
            BY <3>3, <1>3, <1>5, <1>6, <1>7 DEF Kind, Defines
        <3>. QED
            BY <3>1, <3>2, <3>3
    <2>3. ASSUME NEW q \in 1 .. Len(w.log), Defines(w, q)
          PROVE  get_name_index(w, w.log[q].name) = q
        <3>1. CASE q \in 1 .. Len(v.log)
            <4>1. /\ w.log[q] = v.log[q] /\ Defines(v, q)
                  /\ get_name_index(v, v.log[q].name) = q
                BY <3>1, <2>3, <1>0, <1>6 DEF Defines, Kind, NamesSound
            <4>2. v.log[q].name = n => n \in DOMAIN v.names
                BY <4>1, <3>1, <1>0, NameFacts DEF None
            <4>. QED
                BY <4>1, <4>2, <1>7, <1>8
        <3>2. CASE q = p
            BY <3>2, <2>3, <1>3, <1>6, <1>7 DEF Defines, Kind
        <3>. QED
            BY <3>1, <3>2, <1>6
    <2>. QED
        BY <2>2, <2>3 DEF NamesSound
<1>10. Sound(w)
    BY <1>3, <1>5, <1>9, TransfersKept DEF Sound
<1>11. ASSUME NEW m, NEW s
       PROVE  /\ get_balance(w, m, s) = get_balance(v, m, s)
              /\ IsNull(w, m, s) <=> IsNull(v, m, s)
    <2>0. \A a : get_last_transfer_index(w, a) = get_last_transfer_index(v, a)
        BY <1>5 DEF get_last_transfer_index
    <2>1. CASE n \in DOMAIN v.names \/ (m # n /\ s # n)
        <3>1. /\ get_name_index(w, m) = get_name_index(v, m)
              /\ get_name_index(w, s) = get_name_index(v, s)
            BY <2>1, <1>7, <1>8
        <3>2. AccountKey(w, m, s) = AccountKey(v, m, s)
            BY <3>1 DEF AccountKey
        <3>. QED
            BY <2>0, <3>1, <3>2, <1>0, <1>5, BalanceFrame
    <2>2. CASE n \notin DOMAIN v.names /\ n \in {m, s}
        <3>1. /\ IsNull(v, m, s) /\ get_balance(v, m, s) = 0
            BY <2>2, <1>0, NameFacts, BalanceFacts
        <3>2. p \in {get_name_index(w, m), get_name_index(w, s)}
            BY <2>2, <1>7
        <3>3. AccountKey(w, m, s) \notin DOMAIN v.transfers
            BY <3>2, <1>0, <1>6 DEF AccountKey, IndexSound, Defines
        <3>4. IsNull(w, m, s)
            BY <3>3, <2>0 DEF IsNull, get_last_transfer_index
        <3>5. get_balance(w, m, s) = 0
            BY <3>4 DEF IsNull, get_balance
        <3>. QED
            BY <3>1, <3>4, <3>5
    <2>. QED
        BY <2>1, <2>2
<1>12. LedgerOf(w) = [LedgerOf(v) EXCEPT !.key[n] = k]
    <2>1. PICK K, B, O : /\ K = [m \in Name |-> get_public_key_t(v, m)]
                         /\ B = [a \in Account |-> get_balance(v, a[1], a[2])]
                         /\ O = {a \in Account : ~IsNull(v, a[1], a[2])}
        OBVIOUS
    <2>2. LedgerOf(v) = [key |-> K, bal |-> B, opened |-> O]
        BY <2>1, Zenon DEF LedgerOf
    <2>3. [m \in Name |-> get_public_key_t(w, m)] = [K EXCEPT ![n] = k]
        BY <2>1, <1>7, <1>8
    <2>4. [a \in Account |-> get_balance(w, a[1], a[2])] = B
        BY <2>1, <1>11
    <2>5. {a \in Account : ~IsNull(w, a[1], a[2])} = O
        BY <2>1, <1>11
    <2>6. PICK K2 : K2 = [K EXCEPT ![n] = k]
        OBVIOUS
    <2>7. LedgerOf(w) = [key |-> K2, bal |-> B, opened |-> O]
        BY <2>3, <2>4, <2>5, <2>6, Zenon DEF LedgerOf
    <2>. QED
        BY <2>2, <2>6, <2>7
<1>13. r.kind \in {"define_name", "update_name"} /\ get_name_index(w, n) # None
    BY <1>0, <1>3, <1>6, <1>7, NameFacts DEF None
<1>. QED
    BY <1>5, <1>8, <1>10, <1>12, <1>13

(* A command's records belong to the transaction that is open.             *)
LEMMA OpenKept ==
    ASSUME NEW v, NEW w, NEW r, Grown(w, v, r), NEW t, Open(v, t),
           r.kind \notin {"start_trx", "end_block"}
    PROVE  Open(w, t)
<1>1. /\ Len(v.log) \in Nat
      /\ Len(w.log) = Len(v.log) + 1
      /\ w.log[Len(v.log) + 1] = r
    BY DEF Grown
<1>2. \A q \in 1 .. Len(v.log) : w.log[q] = v.log[q]
    BY DEF Grown
<1>3. t \in 1 .. Len(v.log)
    BY DEF Open
<1>4. t \in 1 .. Len(w.log)
    BY <1>1, <1>3
<1>5. Kind(w, t) = "start_trx"
    BY <1>2, <1>3 DEF Open, Kind
<1>6. ASSUME NEW q \in t + 1 .. Len(w.log)
      PROVE  Kind(w, q) \notin {"start_trx", "end_block"}
    <2>1. CASE q = Len(v.log) + 1
        BY <1>1, <2>1 DEF Kind
    <2>2. CASE q # Len(v.log) + 1
        <3>1. q \in t + 1 .. Len(v.log) /\ q \in 1 .. Len(v.log)
            BY <1>1, <1>3, <2>2
        <3>2. Kind(v, q) \notin {"start_trx", "end_block"}
            BY <3>1 DEF Open
        <3>. QED
            BY <3>1, <3>2, <1>2 DEF Kind
    <2>. QED
        BY <2>1, <2>2
<1>. QED
    BY <1>4, <1>5, <1>6 DEF Open

(* A transaction is open when its start_trx record was just appended.      *)
LEMMA OpenBegun ==
    ASSUME NEW v, NEW w, NEW r \in StartTrx, Grown(w, v, r)
    PROVE  Open(w, Len(v.log) + 1)
    BY DEF Open, Kind, Grown, StartTrx

(* A transfer record gives the accounts of its payer and its payee the     *)
(* balances it holds, and becomes the last transfer of both.               *)
LEMMA TransferStep ==
    ASSUME NEW v, Sound(v), NEW f, NEW d, NEW s, NEW r \in TransferLog,
           r.type_name = get_name_index(v, s), r.type_name # None,
           r.from_name = get_name_index(v, f), r.from_name # None,
           r.to_name = get_name_index(v, d), r.to_name # None,
           IsLastTransfer(v, r.last_from_trx, <<r.from_name, r.type_name>>,
                          Len(v.log) + 1),
           IsLastTransfer(v, r.last_to_trx, <<r.to_name, r.type_name>>,
                          Len(v.log) + 1),
           Open(v, r.trx_idx)
    PROVE  LET w == Transferred(v, r, Len(v.log) + 1) IN
           /\ Sound(w) /\ Grown(w, v, r)
           /\ \A m : /\ get_name_index(w, m) = get_name_index(v, m)
                     /\ get_public_key_t(w, m) = get_public_key_t(v, m)
           /\ ~IsNull(w, f, s) /\ get_balance(w, f, s) = r.new_from_bal
           /\ ~IsNull(w, d, s) /\ (d # f => get_balance(w, d, s) = r.new_to_bal)
           /\ \A m, q : <<m, q>> \notin {<<f, s>>, <<d, s>>} =>
                  /\ get_balance(w, m, q) = get_balance(v, m, q)
                  /\ IsNull(w, m, q) <=> IsNull(v, m, q)
<1>0. /\ LayerOK(v) /\ NamesSound(v) /\ IndexSound(v) /\ StampSound(v) /\ Linked(v)
      /\ Len(v.log) \in Nat
      /\ r \in Record /\ r.kind = "transfer_log"
    BY NameFacts DEF Sound, Record, TransferLog
<1>1. PICK p : p = Len(v.log) + 1
    OBVIOUS
<1>2. PICK w : w = Transferred(v, r, p)
    OBVIOUS
<1>3. p \in Nat /\ p # None
    BY <1>0, <1>1 DEF None
<1>4. /\ LayerOK(w) /\ Grown(w, v, r)
      /\ w.names = v.names
      /\ DOMAIN w.transfers = DOMAIN v.transfers \cup Accounts(r)
      /\ \A a \in Accounts(r) : w.transfers[a] = p
      /\ \A a \in DOMAIN v.transfers :
             a \notin Accounts(r) => w.transfers[a] = v.transfers[a]
    <2>1. LayerOK(v) /\ r \in TransferLog /\ p \in Nat
        BY <1>0, <1>3
    <2>. QED
        BY <2>1, <1>2, TransferredIs
<1>5. /\ \A q \in 1 .. Len(v.log) : q \in 1 .. Len(w.log) /\ w.log[q] = v.log[q]
      /\ p \in 1 .. Len(w.log) /\ w.log[p] = r
      /\ \A q \in 1 .. Len(w.log) : q \in 1 .. Len(v.log) \/ q = p
      /\ Len(w.log) = p
    BY <1>0, <1>1, <1>4 DEF Grown
<1>6. \A m : /\ get_name_index(w, m) = get_name_index(v, m)
             /\ get_public_key_t(w, m) = get_public_key_t(v, m)
    BY <1>0, <1>4, NameFrame
<1>7. \A x, y : Touches(r, <<x, y>>) <=> <<x, y>> \in Accounts(r)
    BY <1>0 DEF Touches, Accounts
<1>8. NamesSound(w)
    BY <1>0, <1>4, NamesKept
<1>9. IndexSound(w)
    <2>1. \A q : Defines(v, q) => Defines(w, q)
        BY <1>5 DEF Defines, Kind
    <2>2. /\ Defines(v, r.type_name) /\ Defines(v, r.from_name)
          /\ Defines(v, r.to_name)
        BY <1>0, NameFacts
    <2>3. ASSUME NEW a \in DOMAIN w.transfers
          PROVE  /\ Defines(w, a[1]) /\ Defines(w, a[2])
                 /\ w.transfers[a] \in 1 .. Len(w.log)
                 /\ Touches(w.log[w.transfers[a]], a)
        <3>1. CASE a \in Accounts(r)
            <4>1. Defines(w, a[1]) /\ Defines(w, a[2])
                BY <2>1, <2>2, <3>1 DEF Accounts
            <4>2. Touches(r, a)
                BY <3>1, <1>0 DEF Accounts, Touches
            <4>. QED
                BY <4>1, <4>2, <3>1, <1>4, <1>5
        <3>2. CASE a \in DOMAIN v.transfers \ Accounts(r)
            <4>1. /\ Defines(v, a[1]) /\ Defines(v, a[2])
                  /\ v.transfers[a] \in 1 .. Len(v.log)
                  /\ Touches(v.log[v.transfers[a]], a)
                BY <3>2, <1>0 DEF IndexSound
            <4>. QED
                BY <4>1, <3>2, <2>1, <1>4, <1>5
        <3>. QED
            BY <3>1, <3>2, <1>4
    <2>. QED
        BY <2>3 DEF IndexSound
<1>10. StampSound(w)
    <2>1. ASSUME NEW q \in 1 .. Len(w.log), Kind(w, q) = "transfer_log"
          PROVE  LET t == w.log[q].trx_idx IN
                 /\ t \in 1 .. q - 1
                 /\ Kind(w, t) = "start_trx"
                 /\ \A i \in t + 1 .. q - 1 : Kind(w, i) \notin {"start_trx", "end_block"}
        <3>1. PICK t : t = w.log[q].trx_idx
            OBVIOUS
        <3>2. /\ t \in 1 .. q - 1
              /\ Kind(v, t) = "start_trx"
              /\ \A i \in t + 1 .. q - 1 : Kind(v, i) \notin {"start_trx", "end_block"}
            <4>1. CASE q \in 1 .. Len(v.log)
                BY <4>1, <2>1, <3>1, <1>0, <1>5 DEF StampSound, Kind
            <4>2. CASE q = p
                BY <4>2, <3>1, <1>0, <1>1, <1>5 DEF Open
            <4>. QED
                BY <4>1, <4>2, <1>5
        <3>3. \A i \in 1 .. q - 1 : Kind(w, i) = Kind(v, i)
            BY <1>0, <1>1, <1>5 DEF Kind
        <3>4. \A i \in t + 1 .. q - 1 : i \in 1 .. q - 1
            BY <3>2
        <3>. QED
            BY <3>1, <3>2, <3>3, <3>4
    <2>. QED
        BY <2>1 DEF StampSound
<1>11. Linked(w)
    <2>1. ASSUME NEW x \in Nat, NEW y \in Nat
          PROVE  IsLastTransfer(w, get_last_transfer_index(w, <<x, y>>), <<x, y>>,
                                Len(w.log) + 1)
        <3>1. CASE <<x, y>> \in Accounts(r)
            <4>1. get_last_transfer_index(w, <<x, y>>) = p
                BY <3>1, <1>4 DEF get_last_transfer_index
            <4>2. Touches(w.log[p], <<x, y>>)
                BY <3>1, <1>5, <1>7
            <4>. QED
                BY <4>1, <4>2, <1>3, <1>5 DEF IsLastTransfer
        <3>2. CASE <<x, y>> \notin Accounts(r)
            <4>1. get_last_transfer_index(w, <<x, y>>)
                      = get_last_transfer_index(v, <<x, y>>)
                BY <3>2, <1>4 DEF get_last_transfer_index
            <4>2. IsLastTransfer(v, get_last_transfer_index(v, <<x, y>>), <<x, y>>,
                                 Len(v.log) + 1)
                BY <1>0 DEF Linked
            <4>. QED
                BY <4>1, <4>2, <3>2, <1>4, <1>7, LastKept
        <3>. QED
            BY <3>1, <3>2
    <2>2. ASSUME NEW q \in 1 .. Len(w.log), Kind(w, q) = "transfer_log"
          PROVE  /\ IsLastTransfer(w, w.log[q].last_from_trx,
                        <<w.log[q].from_name, w.log[q].type_name>>, q)
                 /\ IsLastTransfer(w, w.log[q].last_to_trx,
                        <<w.log[q].to_name, w.log[q].type_name>>, q)
        <3>1. q \in 1 .. Len(v.log) + 1
            BY <1>1, <1>5
        <3>2. PICK u : u = w.log[q]
            OBVIOUS
        <3>3. /\ IsLastTransfer(v, u.last_from_trx, <<u.from_name, u.type_name>>, q)
              /\ IsLastTransfer(v, u.last_to_trx, <<u.to_name, u.type_name>>, q)
            <4>1. CASE q \in 1 .. Len(v.log)
                BY <4>1, <2>2, <3>2, <1>0, <1>5 DEF Linked, Kind
            <4>2. CASE q = p
                BY <4>2, <3>2, <1>1, <1>5
            <4>. QED
                BY <4>1, <4>2, <1>5
        <3>. QED
            BY <3>1, <3>2, <3>3, <1>4, LastFrame
    <2>. QED
        BY <2>1, <2>2 DEF Linked
<1>12. Sound(w)
    BY <1>4, <1>8, <1>9, <1>10, <1>11 DEF Sound
<1>13. \A m, q : AccountKey(w, m, q) = AccountKey(v, m, q)
    BY <1>6 DEF AccountKey
<1>14. ASSUME NEW m \in {f, d}
       PROVE  /\ ~IsNull(w, m, s)
              /\ get_balance(w, m, s) = IF r.from_name = get_name_index(v, m)
                                        THEN r.new_from_bal ELSE r.new_to_bal
    <2>1. AccountKey(v, m, s) \in Accounts(r)
        BY DEF AccountKey, Accounts
    <2>2. get_last_transfer_index(w, AccountKey(w, m, s)) = p
        BY <2>1, <1>4, <1>13 DEF get_last_transfer_index
    <2>. QED
        BY <2>2, <1>3, <1>5, <1>6 DEF IsNull, get_balance
<1>15. d # f => r.from_name # get_name_index(v, d)
    BY <1>0, NameFacts
<1>16. ASSUME NEW m, NEW q, <<m, q>> \notin {<<f, s>>, <<d, s>>}
       PROVE  /\ get_balance(w, m, q) = get_balance(v, m, q)
              /\ IsNull(w, m, q) <=> IsNull(v, m, q)
    <2>1. /\ get_name_index(v, q) = r.type_name => q = s
          /\ get_name_index(v, m) = r.from_name => m = f
          /\ get_name_index(v, m) = r.to_name => m = d
        BY <1>0, NameFacts
    <2>2. AccountKey(v, m, q) \notin Accounts(r)
        BY <2>1, <1>16 DEF AccountKey, Accounts
    <2>3. get_last_transfer_index(w, AccountKey(v, m, q))
              = get_last_transfer_index(v, AccountKey(v, m, q))
        BY <2>2, <1>4 DEF get_last_transfer_index
    <2>. QED
        BY <2>3, <1>0, <1>4, <1>6, <1>13, BalanceFrame
<1>17. /\ ~IsNull(w, f, s) /\ get_balance(w, f, s) = r.new_from_bal
       /\ ~IsNull(w, d, s) /\ (d # f => get_balance(w, d, s) = r.new_to_bal)
    BY <1>14, <1>15
<1>. QED
    BY <1>1, <1>2, <1>4, <1>6, <1>12, <1>16, <1>17, Zenon

-----------------------------------------------------------------------------
(* The two commands that append a transfer record.                         *)
LEMMA Remainder ==
    ASSUME NEW x \in Nat, NEW m \in Nat
    PROVE  /\ x % (m + 1) \in 0 .. m
           /\ x <= m => x % (m + 1) = x
    OBVIOUS

(* What the account index holds of an account is its last transfer, or     *)
(* None.                                                                   *)
LEMMA LastIs ==
    ASSUME NEW v, Sound(v), NEW m, NEW q
    PROVE  /\ get_last_transfer_index(v, AccountKey(v, m, q)) \in Nat
           /\ IsLastTransfer(v, get_last_transfer_index(v, AccountKey(v, m, q)),
                  <<get_name_index(v, m), get_name_index(v, q)>>, Len(v.log) + 1)
<1>1. /\ get_name_index(v, m) \in Nat /\ get_name_index(v, q) \in Nat
      /\ Len(v.log) \in Nat
    BY NameFacts DEF Sound
<1>2. IsLastTransfer(v, get_last_transfer_index(v, AccountKey(v, m, q)),
                  <<get_name_index(v, m), get_name_index(v, q)>>, Len(v.log) + 1)
    BY <1>1 DEF Sound, Linked, AccountKey
<1>. QED
    BY <1>1, <1>2 DEF IsLastTransfer, None

(* The parts of the ledger that a database stands for: the answers of its  *)
(* queries, for each name and account.                                     *)
LEMMA LedgerParts ==
    ASSUME NEW v
    PROVE  /\ LedgerOf(v) = [key |-> LedgerOf(v).key, bal |-> LedgerOf(v).bal,
                             opened |-> LedgerOf(v).opened]
           /\ LedgerOf(v).key = [n \in Name |-> LedgerOf(v).key[n]]
           /\ LedgerOf(v).bal = [a \in Account |-> LedgerOf(v).bal[a]]
           /\ LedgerOf(v).opened \subseteq Account
           /\ \A n \in Name : LedgerOf(v).key[n] = get_public_key_t(v, n)
           /\ \A n, s \in Name :
                 /\ LedgerOf(v).bal[<<n, s>>] = get_balance(v, n, s)
                 /\ <<n, s>> \in LedgerOf(v).opened <=> ~IsNull(v, n, s)
    BY DEF LedgerOf, Account

(* A ledger is its parts, at each name and each account.                   *)
LEMMA LedgerIs ==
    ASSUME NEW w, NEW K, NEW B, NEW O,
           K = [n \in Name |-> K[n]], B = [a \in Account |-> B[a]],
           O \subseteq Account,
           \A n \in Name : K[n] = get_public_key_t(w, n),
           \A n, s \in Name : /\ B[<<n, s>>] = get_balance(w, n, s)
                              /\ <<n, s>> \in O <=> ~IsNull(w, n, s)
    PROVE  LedgerOf(w) = [key |-> K, bal |-> B, opened |-> O]
<1>1. PICK K2, B2, O2 :
          /\ K2 = [n \in Name |-> get_public_key_t(w, n)]
          /\ B2 = [a \in Account |-> get_balance(w, a[1], a[2])]
          /\ O2 = {a \in Account : ~IsNull(w, a[1], a[2])}
    OBVIOUS
<1>2. K = K2
    BY <1>1
<1>3. B = B2
    <2>1. ASSUME NEW a \in Account
          PROVE  B[a] = get_balance(w, a[1], a[2])
        BY DEF Account
    <2>. QED
        BY <1>1, <2>1
<1>4. O = O2
    <2>1. ASSUME NEW a \in Account
          PROVE  a \in O <=> ~IsNull(w, a[1], a[2])
        BY DEF Account
    <2>. QED
        BY <1>1, <2>1
<1>5. LedgerOf(w) = [key |-> K2, bal |-> B2, opened |-> O2]
    BY <1>1, Zenon DEF LedgerOf
<1>. QED
    BY <1>2, <1>3, <1>4, <1>5

(* issue's record opens the stock's own account with the whole supply, and *)
(* changes nothing else that a query shows.                                *)
LEMMA IssueStep ==
    ASSUME NEW v, Sound(v), NEW s \in Name, IsNull(v, s, s),
           get_name_index(v, s) # None, NEW t, Open(v, t)
    PROVE  LET r == IssueRecord(v, s, t)
               w == Transferred(v, r, Len(v.log) + 1)
           IN  /\ r \in TransferLog /\ Sound(w) /\ Grown(w, v, r)
               /\ LedgerOf(w) = [key    |-> LedgerOf(v).key,
                                 bal    |-> [LedgerOf(v).bal EXCEPT
                                                 ![<<s, s>>] = MaxAmount],
                                 opened |-> LedgerOf(v).opened \cup {<<s, s>>}]
<1>1. PICK r : r = IssueRecord(v, s, t)
    OBVIOUS
<1>2. PICK i : i = get_name_index(v, s)
    OBVIOUS
<1>3. i \in Nat /\ i # None /\ t \in Nat /\ Len(v.log) \in Nat
    BY <1>2, NameFacts DEF Sound, Open
<1>4. r = [kind |-> "transfer_log", amount |-> MaxAmount,
           type_name |-> i, from_name |-> i, to_name |-> i,
           new_from_bal |-> MaxAmount, new_to_bal |-> MaxAmount,
           last_from_trx |-> None, last_to_trx |-> None, trx_idx |-> t]
    BY <1>1, <1>2, Zenon DEF IssueRecord
<1>5. r \in TransferLog
    BY <1>3, <1>4, BoundAssumption DEF TransferLog, Amount, None
<1>6. /\ r.type_name = i /\ r.from_name = i /\ r.to_name = i
      /\ r.new_from_bal = MaxAmount
      /\ r.last_from_trx = None /\ r.last_to_trx = None /\ r.trx_idx = t
    BY <1>4
<1>7. IsLastTransfer(v, None, <<i, i>>, Len(v.log) + 1)
    BY <1>2, LastIs DEF IsNull
<1>8. PICK w : w = Transferred(v, r, Len(v.log) + 1)
    OBVIOUS
<1>9. /\ Sound(w) /\ Grown(w, v, r)
      /\ \A m : get_public_key_t(w, m) = get_public_key_t(v, m)
      /\ ~IsNull(w, s, s) /\ get_balance(w, s, s) = MaxAmount
      /\ \A m, q : <<m, q>> # <<s, s>> =>
             /\ get_balance(w, m, q) = get_balance(v, m, q)
             /\ IsNull(w, m, q) <=> IsNull(v, m, q)
    BY <1>2, <1>3, <1>5, <1>6, <1>7, <1>8, TransferStep
<1>10. PICK K, B, O : /\ K = LedgerOf(v).key
                      /\ B = [LedgerOf(v).bal EXCEPT ![<<s, s>>] = MaxAmount]
                      /\ O = LedgerOf(v).opened \cup {<<s, s>>}
    OBVIOUS
<1>11. K = [n \in Name |-> K[n]] /\ \A n \in Name : K[n] = get_public_key_t(w, n)
    BY <1>9, <1>10, LedgerParts
<1>12. /\ B = [a \in Account |-> B[a]]
       /\ \A n, q \in Name : B[<<n, q>>] = get_balance(w, n, q)
    <2>1. PICK B0 : B0 = LedgerOf(v).bal
        OBVIOUS
    <2>2. /\ B0 = [a \in Account |-> B0[a]]
          /\ \A n, q \in Name : B0[<<n, q>>] = get_balance(v, n, q)
        BY <2>1, LedgerParts
    <2>3. B = [B0 EXCEPT ![<<s, s>>] = MaxAmount]
        BY <1>10, <2>1
    <2>4. B = [a \in Account |-> B[a]]
        BY <2>2, <2>3
    <2>5. ASSUME NEW n \in Name, NEW q \in Name
          PROVE  B[<<n, q>>] = get_balance(w, n, q)
        <3>1. <<n, q>> \in Account /\ <<s, s>> \in Account
            BY DEF Account
        <3>2. CASE <<n, q>> = <<s, s>>
            BY <3>1, <3>2, <2>2, <2>3, <1>9
        <3>3. CASE <<n, q>> # <<s, s>>
            BY <3>1, <3>3, <2>2, <2>3, <1>9
        <3>. QED
            BY <3>2, <3>3
    <2>. QED
        BY <2>4, <2>5
<1>13. O \subseteq Account /\ \A n, q \in Name : <<n, q>> \in O <=> ~IsNull(w, n, q)
    BY <1>9, <1>10, LedgerParts DEF Account
<1>14. LedgerOf(w) = [key |-> K, bal |-> B, opened |-> O]
    BY <1>11, <1>12, <1>13, LedgerIs
<1>. QED
    BY <1>1, <1>5, <1>8, <1>9, <1>10, <1>14, Zenon

(* transfer_balance's record moves its units between two known names, with *)
(* no wrap when they hold no more than the supply together.                *)
LEMMA PayStep ==
    ASSUME NEW v, Sound(v), NEW f \in Name, NEW d \in Name, NEW s \in Name,
           get_name_index(v, f) # None, get_name_index(v, d) # None,
           get_name_index(v, s) # None,
           NEW n \in Amount, n <= get_balance(v, f, s),
           d # f => get_balance(v, f, s) + get_balance(v, d, s) <= MaxAmount,
           NEW t, Open(v, t)
    PROVE  LET r == TransferRecord(v, f, d, s, n, t)
               w == Transferred(v, r, Len(v.log) + 1)
           IN  /\ r \in TransferLog /\ Sound(w) /\ Grown(w, v, r)
               /\ LedgerOf(w) = [key    |-> LedgerOf(v).key,
                                 bal    |-> LP!Moved(LedgerOf(v).bal, f, d, s, n),
                                 opened |-> LedgerOf(v).opened
                                                \cup {<<f, s>>, <<d, s>>}]
<1>1. PICK r : r = TransferRecord(v, f, d, s, n, t)
    OBVIOUS
<1>2. PICK i, j, k, x, y, a, b :
          /\ i = get_name_index(v, s) /\ j = get_name_index(v, f)
          /\ k = get_name_index(v, d)
          /\ x = get_balance(v, f, s) - n
          /\ y = (get_balance(v, d, s) + n) % (MaxAmount + 1)
          /\ a = get_last_transfer_index(v, AccountKey(v, f, s))
          /\ b = get_last_transfer_index(v, AccountKey(v, d, s))
    OBVIOUS
<1>3. /\ i \in Nat /\ i # None /\ j \in Nat /\ j # None /\ k \in Nat /\ k # None
      /\ t \in Nat /\ Len(v.log) \in Nat
    BY <1>2, NameFacts DEF Sound, Open
<1>4. a \in Nat /\ b \in Nat
    BY <1>2, LastIs
<1>5. /\ get_balance(v, f, s) \in Amount /\ get_balance(v, d, s) \in Amount
    BY BalanceFacts DEF Sound
<1>6. x \in Amount /\ y \in Amount
    <2>1. /\ MaxAmount \in Nat /\ n \in Nat /\ get_balance(v, d, s) \in Nat
          /\ get_balance(v, d, s) + n \in Nat
        BY <1>5, BoundAssumption DEF Amount
    <2>2. y \in Amount
        BY <2>1, <1>2, Remainder DEF Amount
    <2>3. x \in Amount
        BY <1>2, <1>5, BoundAssumption DEF Amount
    <2>. QED
        BY <2>2, <2>3
<1>7. d # f => y = get_balance(v, d, s) + n
    BY <1>2, <1>5, Remainder, BoundAssumption DEF Amount
<1>8. r = [kind |-> "transfer_log", amount |-> n,
           type_name |-> i, from_name |-> j, to_name |-> k,
           new_from_bal |-> x, new_to_bal |-> y,
           last_from_trx |-> a, last_to_trx |-> b, trx_idx |-> t]
    BY <1>1, <1>2, Zenon DEF TransferRecord
<1>9. r \in TransferLog
    BY <1>3, <1>4, <1>6, <1>8 DEF TransferLog
<1>10. /\ r.type_name = i /\ r.from_name = j /\ r.to_name = k
       /\ r.new_from_bal = x /\ r.new_to_bal = y
       /\ r.last_from_trx = a /\ r.last_to_trx = b /\ r.trx_idx = t
    BY <1>8
<1>11. /\ IsLastTransfer(v, a, <<j, i>>, Len(v.log) + 1)
       /\ IsLastTransfer(v, b, <<k, i>>, Len(v.log) + 1)
    BY <1>2, LastIs
<1>12. PICK w : w = Transferred(v, r, Len(v.log) + 1)
    OBVIOUS
<1>13. /\ Sound(w) /\ Grown(w, v, r)
       /\ \A m : get_public_key_t(w, m) = get_public_key_t(v, m)
       /\ ~IsNull(w, f, s) /\ get_balance(w, f, s) = x
       /\ ~IsNull(w, d, s) /\ (d # f => get_balance(w, d, s) = y)
       /\ \A m, q : <<m, q>> \notin {<<f, s>>, <<d, s>>} =>
              /\ get_balance(w, m, q) = get_balance(v, m, q)
              /\ IsNull(w, m, q) <=> IsNull(v, m, q)
    BY <1>2, <1>3, <1>9, <1>10, <1>11, <1>12, TransferStep
<1>14. PICK K, B, O : /\ K = LedgerOf(v).key
                      /\ B = LP!Moved(LedgerOf(v).bal, f, d, s, n)
                      /\ O = LedgerOf(v).opened \cup {<<f, s>>, <<d, s>>}
    OBVIOUS
<1>15. K = [m \in Name |-> K[m]] /\ \A m \in Name : K[m] = get_public_key_t(w, m)
    BY <1>13, <1>14, LedgerParts
<1>16. /\ B = [c \in Account |-> B[c]]
       /\ \A m, q \in Name : B[<<m, q>>] = get_balance(w, m, q)
    <2>1. PICK B0 : B0 = LedgerOf(v).bal
        OBVIOUS
    <2>2. \A m, q \in Name : B0[<<m, q>>] = get_balance(v, m, q)
        BY <2>1, LedgerParts
    <2>3. B = [c \in Account |->
                   CASE c = <<f, s>> -> B0[c] - n
                     [] c = <<d, s>> /\ d # f -> B0[c] + n
                     [] OTHER -> B0[c]]
        BY <1>14, <2>1 DEF LP!Moved, LP!Account, Account
    <2>4. ASSUME NEW m \in Name, NEW q \in Name
          PROVE  B[<<m, q>>] = get_balance(w, m, q)
        <3>0. <<m, q>> \in Account
            BY DEF Account
        <3>1. CASE <<m, q>> = <<f, s>>
            BY <3>0, <3>1, <2>2, <2>3, <1>2, <1>13
        <3>2. CASE <<m, q>> # <<f, s>> /\ <<m, q>> = <<d, s>>
            BY <3>0, <3>2, <2>2, <2>3, <1>7, <1>13
        <3>3. CASE <<m, q>> # <<f, s>> /\ <<m, q>> # <<d, s>>
            BY <3>0, <3>3, <2>2, <2>3, <1>13
        <3>. QED
            BY <3>1, <3>2, <3>3
    <2>. QED
        BY <2>3, <2>4
<1>17. O \subseteq Account /\ \A m, q \in Name : <<m, q>> \in O <=> ~IsNull(w, m, q)
    BY <1>13, <1>14, LedgerParts DEF Account
<1>18. LedgerOf(w) = [key |-> K, bal |-> B, opened |-> O]
    BY <1>15, <1>16, <1>17, LedgerIs
<1>. QED
    BY <1>1, <1>9, <1>12, <1>13, <1>14, <1>18, Zenon

-----------------------------------------------------------------------------
(* The inductive invariant.  What the view holds of an account must agree  *)
(* with the ledger's supply, or an addition could wrap; and the stamp of   *)
(* the next transfer must be that of the open transaction.                 *)
LogInv ==
    /\ LayerOK(local)
    /\ Sound(base) /\ Sound(view)
    /\ applying \in BOOLEAN
    /\ signers \subseteq Key
    /\ gen \in Generator \cup {EmptyName}
    /\ trx_pos \in 0 .. MaxLog
    /\ applying => Open(view, trx_pos)

DatabaseInv == LogInv /\ LP!SupplyInv

(* The empty log is sound, and stands for the empty ledger.                *)
LEMMA EmptySound ==
    /\ LayerOK(EmptyLayer) /\ Sound(EmptyLayer)
    /\ Stacked(EmptyLayer, EmptyLayer) = EmptyLayer
    /\ LedgerOf(EmptyLayer) = LP!EmptyLedger
<1>1. /\ EmptyLayer.log = << >> /\ EmptyLayer.names = EmptyIndex
      /\ EmptyLayer.transfers = EmptyIndex
      /\ DOMAIN EmptyIndex = {} /\ Len(EmptyLayer.log) = 0
    BY DEF EmptyLayer, EmptyIndex
<1>2. LayerOK(EmptyLayer)
    <2>1. EmptyLayer = [log |-> << >>, names |-> EmptyIndex, transfers |-> EmptyIndex]
        BY DEF EmptyLayer
    <2>2. << >> \in Seq(Record) /\ IsIndex(EmptyIndex, Name)
          /\ IsIndex(EmptyIndex, Nat \X Nat)
        BY EmptySeq DEF IsIndex, EmptyIndex
    <2>. QED
        BY <2>1, <2>2, <1>1 DEF LayerOK
<1>3. /\ NamesSound(EmptyLayer) /\ IndexSound(EmptyLayer) /\ StampSound(EmptyLayer)
    BY <1>1 DEF NamesSound, IndexSound, StampSound
<1>4. Linked(EmptyLayer)
    BY <1>1 DEF Linked, IsLastTransfer, get_last_transfer_index, None
<1>5. /\ \A n : get_public_key_t(EmptyLayer, n) = Unregistered
      /\ \A n, s : /\ IsNull(EmptyLayer, n, s)
                   /\ get_balance(EmptyLayer, n, s) = 0
    BY <1>1 DEF get_public_key_t, get_last_name_edit_index, IsNull, get_balance,
                get_last_transfer_index
<1>6. LedgerOf(EmptyLayer) = LP!EmptyLedger
    <2>1. PICK K, B, O : /\ K = [n \in Name |-> Unregistered]
                         /\ B = [a \in Account |-> 0] /\ O = {}
        OBVIOUS
    <2>2. LedgerOf(EmptyLayer) = [key |-> K, bal |-> B, opened |-> O]
        <3>1. K = [n \in Name |-> K[n]] /\ B = [a \in Account |-> B[a]]
              /\ O \subseteq Account
            BY <2>1
        <3>2. /\ \A n \in Name : K[n] = get_public_key_t(EmptyLayer, n)
              /\ \A n, s \in Name :
                    /\ B[<<n, s>>] = get_balance(EmptyLayer, n, s)
                    /\ <<n, s>> \in O <=> ~IsNull(EmptyLayer, n, s)
            BY <2>1, <1>5 DEF Account
        <3>. QED
            BY <3>1, <3>2, LedgerIs
    <2>. QED
        BY <2>1, <2>2, Zenon DEF LP!EmptyLedger, LP!Account, Account
<1>7. Stacked(EmptyLayer, EmptyLayer) = EmptyLayer
    BY <1>2, StackedEmpty
<1>. QED
    BY <1>2, <1>3, <1>4, <1>6, <1>7 DEF Sound

(* A layer written to is a layer, and shows what was written.              *)
LEMMA WriteLogged ==
    ASSUME NEW b, NEW l, LayerOK(b), LayerOK(l), NEW r \in Record,
           NEW l2, l2 = Logged(l, r)
    PROVE  LayerOK(l2) /\ Stacked(b, l2) = Logged(Stacked(b, l), r)
    BY LoggedIs, StackedAppended

(* Writing a name's record to the open layer is writing it to the whole.   *)
LEMMA WriteNamed ==
    ASSUME NEW b, NEW l, LayerOK(b), LayerOK(l), NEW r \in Record,
           NEW n \in Name, NEW pos \in Nat, NEW l2, l2 = Named(l, n, r, pos)
    PROVE  LayerOK(l2) /\ Stacked(b, l2) = Named(Stacked(b, l), n, r, pos)
<1>1. LayerOK(l2)
    BY NamedIs
<1>. QED
    BY <1>1, StackedAppended

(* Writing a transfer to the open layer is writing it to the whole.        *)
LEMMA WriteTransferred ==
    ASSUME NEW b, NEW l, LayerOK(b), LayerOK(l), NEW r \in TransferLog,
           NEW pos \in Nat, NEW l2, l2 = Transferred(l, r, pos)
    PROVE  LayerOK(l2) /\ Stacked(b, l2) = Transferred(Stacked(b, l), r, pos)
<1>1. LayerOK(l2)
    BY TransferredIs
<1>2. r \in Record
    BY DEF Record
<1>. QED
    BY <1>1, <1>2, StackedAppended

(* A name is registered when the name index knows it.                      *)
LEMMA Registered ==
    ASSUME NEW v, Sound(v), NEW n
    PROVE  /\ get_public_key_t(v, n) # Unregistered <=> get_name_index(v, n) # None
           /\ get_name_index(v, n) # None => n \in Name
<1>1. LayerOK(v) /\ NamesSound(v)
    BY DEF Sound
<1>. QED
    BY <1>1, NameFacts, KeyAssumption DEF None

-----------------------------------------------------------------------------
(* The steps.  Each keeps LogInv, and is a step of the ledger.             *)
LEMMA InitOK == Init => LogInv /\ LP!Init
<1> SUFFICES ASSUME Init PROVE LogInv /\ LP!Init
    OBVIOUS
<1>1. base = EmptyLayer /\ view = EmptyLayer /\ local = EmptyLayer
    BY EmptySound DEF Init, view
<1>2. LogInv
    <2>1. Sound(base) /\ Sound(view) /\ LayerOK(local)
        BY <1>1, EmptySound
    <2>2. trx_pos \in 0 .. MaxLog
        BY BoundAssumption DEF Init, None
    <2>. QED
        BY <2>1, <2>2 DEF Init, LogInv
<1>3. LedgerOf(base) = LP!EmptyLedger /\ LedgerOf(view) = LP!EmptyLedger
    BY <1>1, EmptySound
<1>. QED
    BY <1>2, <1>3 DEF Init, LP!Init

(* apply(signed_transaction) starts: its start_trx record changes nothing  *)
(* that the ledger shows.                                                  *)
LEMMA BeginTrxStep ==
    ASSUME LogInv, NEW sigs \in SUBSET Key, NEW g \in Generator, BeginTrx(sigs, g)
    PROVE  LogInv' /\ LP!BeginTrx(sigs, g)
<1> DEFINE r == [kind |-> "start_trx"]
<1>1. /\ r \in StartTrx \cup EndBlock /\ r \in StartTrx /\ r \in Record
      /\ LayerOK(base) /\ LayerOK(local) /\ Sound(view)
    BY DEF StartTrx, Record, LogInv, Sound
<1>2. PICK v, v2 : v = view /\ v2 = view'
    OBVIOUS
<1>3. local' = Logged(local, r) /\ base' = base
    BY DEF BeginTrx
<1>4. LayerOK(local') /\ v2 = Logged(v, r)
    BY <1>1, <1>2, <1>3, WriteLogged DEF view
<1>5. Sound(v2) /\ Grown(v2, v, r) /\ LedgerOf(v2) = LedgerOf(v)
    BY <1>1, <1>2, <1>4, MarkStep
<1>6. Open(v2, Len(v.log) + 1) /\ Len(v.log) \in Nat
    BY <1>1, <1>5, OpenBegun DEF Grown
<1>7. LogInv'
    BY <1>1, <1>2, <1>3, <1>4, <1>5, <1>6, BoundAssumption
       DEF LogInv, BeginTrx, size, Sound
<1>8. LedgerOf(base)' = LedgerOf(base) /\ LedgerOf(view)' = LedgerOf(view)
    BY <1>2, <1>3, <1>5
<1>. QED
    BY <1>7, <1>8 DEF BeginTrx, LP!BeginTrx

(* apply(register_name) is the ledger's RegisterName.                      *)
LEMMA RegisterNameStep ==
    ASSUME LogInv, NEW n \in Name, NEW k \in Key, RegisterName(n, k)
    PROVE  LogInv' /\ LP!RegisterName(n, k)
<1>1. /\ LayerOK(base) /\ LayerOK(local) /\ Sound(view) /\ LayerOK(view)
    BY DEF LogInv, Sound
<1>2. PICK v, v2 : v = view /\ v2 = view'
    OBVIOUS
<1>3. PICK r, p : r = KeyRecord(v, n, k) /\ p = Len(v.log) + 1
    OBVIOUS
<1>4. local' = Named(local, n, r, p) /\ base' = base
    BY <1>2, <1>3 DEF RegisterName, size
<1>5. PICK w : w = Named(v, n, r, p)
    OBVIOUS
<1>6. /\ Sound(w) /\ Grown(w, v, r) /\ r.kind \in {"define_name", "update_name"}
      /\ LedgerOf(w) = [LedgerOf(v) EXCEPT !.key[n] = k]
    BY <1>1, <1>2, <1>3, <1>5, NameStep
<1>7. r \in Record /\ p \in Nat
    BY <1>3, <1>6 DEF Grown
<1>8. LayerOK(local') /\ v2 = w
    BY <1>1, <1>2, <1>4, <1>5, <1>7, WriteNamed DEF view
<1>9. Open(v, trx_pos)
    BY <1>2 DEF LogInv, RegisterName
<1>10. Open(v2, trx_pos)
    BY <1>6, <1>8, <1>9, OpenKept
<1>11. LogInv'
    BY <1>1, <1>2, <1>4, <1>6, <1>8, <1>10 DEF LogInv, RegisterName
<1>12. /\ LedgerOf(base)' = LedgerOf(base)
       /\ LedgerOf(view)' = [LedgerOf(view) EXCEPT !.key[n] = k]
    BY <1>2, <1>4, <1>6, <1>8
<1>13. LedgerOf(view).key[n] = get_public_key_t(view, n)
    BY LedgerParts
<1>. QED
    BY <1>11, <1>12, <1>13 DEF RegisterName, LP!RegisterName, LP!Registered

(* apply(issue) is the ledger's Issue.                                     *)
LEMMA IssueNameStep ==
    ASSUME LogInv, NEW s \in Name, Issue(s)
    PROVE  LogInv' /\ LP!Issue(s)
<1>1. /\ LayerOK(base) /\ LayerOK(local) /\ Sound(view)
    BY DEF LogInv, Sound
<1>2. PICK v, v2, t : v = view /\ v2 = view' /\ t = trx_pos
    OBVIOUS
<1>3. PICK r, p : r = IssueRecord(v, s, t) /\ p = Len(v.log) + 1
    OBVIOUS
<1>4. local' = Transferred(local, r, p) /\ base' = base
    BY <1>2, <1>3 DEF Issue, size
<1>5. PICK w : w = Transferred(v, r, p)
    OBVIOUS
<1>6. Open(v, t) /\ IsNull(v, s, s)
    BY <1>2 DEF LogInv, Issue
<1>7. get_name_index(v, s) # None
    <2>1. get_public_key_t(v, s) # Unregistered
        BY <1>2, KeyAssumption DEF LogInv, Issue
    <2>. QED
        BY <2>1, <1>1, <1>2, Registered
<1>8. /\ r \in TransferLog /\ Sound(w) /\ Grown(w, v, r)
      /\ LedgerOf(w) = [key    |-> LedgerOf(v).key,
                        bal    |-> [LedgerOf(v).bal EXCEPT ![<<s, s>>] = MaxAmount],
                        opened |-> LedgerOf(v).opened \cup {<<s, s>>}]
    BY <1>1, <1>2, <1>3, <1>5, <1>6, <1>7, IssueStep
<1>9. p \in Nat /\ r.kind = "transfer_log"
    BY <1>3, <1>8 DEF Grown, TransferLog
<1>10. LayerOK(local') /\ v2 = w
    BY <1>1, <1>2, <1>4, <1>5, <1>8, <1>9, WriteTransferred DEF view
<1>11. Open(v2, t)
    BY <1>6, <1>8, <1>9, <1>10, OpenKept
<1>12. LogInv'
    BY <1>1, <1>2, <1>4, <1>8, <1>10, <1>11 DEF LogInv, Issue
<1>13. LedgerOf(w) = [LedgerOf(v) EXCEPT !.bal[<<s, s>>] = MaxAmount,
                                        !.opened = @ \cup {<<s, s>>}]
    <2>1. LedgerOf(w) = Issued(LedgerOf(v), <<s, s>>, MaxAmount)
        <3>1. PICK a, l1, l2 : a = <<s, s>> /\ l1 = LedgerOf(v) /\ l2 = LedgerOf(w)
            OBVIOUS
        <3>2. l1 = [key |-> l1.key, bal |-> l1.bal, opened |-> l1.opened]
            BY <3>1, LedgerParts, Zenon
        <3>3. l2 = [key |-> l1.key, bal |-> [l1.bal EXCEPT ![a] = MaxAmount],
                    opened |-> l1.opened \cup {a}]
            BY <3>1, <1>8, Zenon
        <3>4. l2 = Issued(l1, a, MaxAmount)
            BY <3>2, <3>3, LedgerExcept, Zenon
        <3>. QED
            BY <3>1, <3>4, Zenon
    <2>. QED
        BY <2>1, Zenon DEF Issued
<1>14. /\ LedgerOf(base)' = LedgerOf(base) /\ LedgerOf(view)' = LedgerOf(w)
    BY <1>2, <1>4, <1>10
<1>15. /\ LedgerOf(view).key[s] = get_public_key_t(view, s)
       /\ <<s, s>> \notin LedgerOf(view).opened
    BY <1>2, <1>6, LedgerParts
<1>. QED
    BY <1>2, <1>12, <1>13, <1>14, <1>15 DEF Issue, LP!Issue

(* Two accounts of a stock that is backed hold no more than its supply:    *)
(* their sum does not wrap.                                                *)
LEMMA NoWrap == LP!SupplyInv => LP!NoCounterfeit
    BY LP!BackedPair, NameAssumption, KeyAssumption, BoundAssumption

(* What the conditions of a transfer say of the view, and of the ledger.   *)
LEMMA MayPay ==
    ASSUME DatabaseInv, NEW f \in Name, NEW t \in Name \cup {EmptyName},
           NEW s \in Name, NEW n \in Amount, MayTransfer(f, t, s, n)
    PROVE  /\ get_name_index(view, f) # None /\ get_name_index(view, s) # None
           /\ n <= get_balance(view, f, s)
           /\ \A d \in Name : d # f =>
                  get_balance(view, f, s) + get_balance(view, d, s) <= MaxAmount
           /\ Open(view, trx_pos)
           /\ applying /\ (t # EmptyName => f # t)
           /\ LP!Registered(s) /\ LedgerOf(view).key[f] \in signers
           /\ n <= LedgerOf(view).bal[<<f, s>>]
<1>1. Sound(view) /\ signers \subseteq Key
    BY DEF DatabaseInv, LogInv
<1>2. /\ get_public_key_t(view, s) # Unregistered
      /\ get_public_key_t(view, f) # Unregistered
    BY <1>1, KeyAssumption DEF MayTransfer
<1>3. get_name_index(view, f) # None /\ get_name_index(view, s) # None
    BY <1>1, <1>2, Registered
<1>4. /\ LedgerOf(view).key[f] = get_public_key_t(view, f)
      /\ LedgerOf(view).key[s] = get_public_key_t(view, s)
      /\ \A d \in Name : LedgerOf(view).bal[<<d, s>>] = get_balance(view, d, s)
    BY LedgerParts
<1>5. \A d \in Name : d # f =>
          LedgerOf(view).bal[<<f, s>>] + LedgerOf(view).bal[<<d, s>>] <= MaxAmount
    <2>0. LP!SupplyInv
        BY DEF DatabaseInv
    <2>1. LP!NoCounterfeit
        BY <2>0, NoWrap
    <2>. QED
        BY <2>1, Zenon DEF LP!NoCounterfeit
<1>6. LP!Registered(s)
    BY <1>2, <1>4 DEF LP!Registered
<1>. QED
    BY <1>3, <1>4, <1>5, <1>6 DEF MayTransfer, DatabaseInv, LogInv

(* apply(transfer) to a registered name is the ledger's Transfer.          *)
LEMMA TransferToNameStep ==
    ASSUME DatabaseInv, NEW f \in Name, NEW t \in Name \cup {EmptyName},
           NEW s \in Name, NEW n \in Amount, TransferToName(f, t, s, n)
    PROVE  LogInv' /\ LP!Transfer(f, t, s, n)
<1>1. /\ LayerOK(base) /\ LayerOK(local) /\ Sound(view) /\ LogInv
    BY DEF DatabaseInv, LogInv, Sound
<1>2. PICK v, v2, at, d : v = view /\ v2 = view' /\ at = trx_pos
                          /\ d = Destination(t)
    OBVIOUS
<1>3. /\ MayTransfer(f, t, s, n) /\ get_name_index(v, d) # None
      /\ UNCHANGED <<base, applying, signers, gen, trx_pos>>
    BY <1>2 DEF TransferToName
<1>4. /\ get_name_index(v, f) # None /\ get_name_index(v, s) # None
      /\ n <= get_balance(v, f, s)
      /\ \A e \in Name : e # f => get_balance(v, f, s) + get_balance(v, e, s) <= MaxAmount
      /\ Open(v, at)
    BY <1>2, <1>3, MayPay
<1>5. d \in Name
    BY <1>1, <1>2, <1>3, Registered
<1>6. PICK r, p, w : /\ r = TransferRecord(v, f, d, s, n, at)
                     /\ p = Len(v.log) + 1
                     /\ w = Transferred(v, r, p)
    OBVIOUS
<1>7. local' = Transferred(local, r, p)
    BY <1>2, <1>6 DEF TransferToName, size
<1>8. /\ r \in TransferLog /\ Sound(w) /\ Grown(w, v, r)
      /\ LedgerOf(w) = [key    |-> LedgerOf(v).key,
                        bal    |-> LP!Moved(LedgerOf(v).bal, f, d, s, n),
                        opened |-> LedgerOf(v).opened \cup {<<f, s>>, <<d, s>>}]
    BY <1>1, <1>2, <1>3, <1>4, <1>5, <1>6, PayStep
<1>9. p \in Nat /\ r.kind = "transfer_log"
    BY <1>6, <1>8 DEF Grown, TransferLog
<1>10. LayerOK(local') /\ v2 = w
    BY <1>1, <1>2, <1>3, <1>6, <1>7, <1>8, <1>9, WriteTransferred DEF view
<1>11. Open(v2, at)
    BY <1>4, <1>8, <1>9, <1>10, OpenKept
<1>12. LogInv'
    BY <1>1, <1>2, <1>3, <1>8, <1>10, <1>11 DEF LogInv
<1>13. LP!Registered(d)
    <2>1. get_public_key_t(v, d) # Unregistered
        BY <1>1, <1>2, <1>3, Registered
    <2>. QED
        BY <2>1, <1>2, <1>5, LedgerParts DEF LP!Registered
<1>14. LedgerOf(base)' = LedgerOf(base) /\ LedgerOf(view)' = LedgerOf(w)
    BY <1>2, <1>3, <1>10
<1>15. d = IF t = EmptyName THEN gen ELSE t
    BY <1>2 DEF Destination
<1>16. /\ applying /\ (t # EmptyName => f # t)
       /\ LP!Registered(s) /\ LedgerOf(view).key[f] \in signers
       /\ n <= LedgerOf(view).bal[<<f, s>>]
    BY <1>3, MayPay
<1>17. LedgerOf(view)' =
           [key    |-> IF LP!Registered(d) THEN LedgerOf(view).key
                       ELSE [LedgerOf(view).key EXCEPT ![d] = NoKey],
            bal    |-> LP!Moved(LedgerOf(view).bal, f, d, s, n),
            opened |-> LedgerOf(view).opened \cup {<<f, s>>, <<d, s>>}]
    BY <1>2, <1>8, <1>13, <1>14, Zenon
<1>. QED
    BY <1>3, <1>5, <1>12, <1>13, <1>14, <1>15, <1>16, <1>17, Zenon DEF LP!Transfer

(* The address of a key nobody registered becomes a name without a key.    *)
LEMMA NewAddressStep ==
    ASSUME NEW v, Sound(v), NEW d \in Name, get_name_index(v, d) = None,
           NEW a, a = AddressRecord(d), NEW p, p = Len(v.log) + 1,
           NEW u, u = Named(v, d, a, p)
    PROVE  /\ Sound(u) /\ Grown(u, v, a) /\ a.kind \in {"define_name", "update_name"}
           /\ LedgerOf(u) = [LedgerOf(v) EXCEPT !.key[d] = NoKey]
           /\ get_name_index(u, d) # None
           /\ \A m : m # d => get_name_index(u, m) = get_name_index(v, m)
<1>1. LayerOK(v) /\ NamesSound(v)
    BY DEF Sound
<1>2. get_last_name_edit_index(v, d) = None
    BY <1>1, NameFacts DEF None
<1>3. PICK k : k = NoKey
    OBVIOUS
<1>4. a = KeyRecord(v, d, k)
    BY <1>2, <1>3, Zenon DEF KeyRecord, AddressRecord
<1>5. k \in Key \cup {NoKey}
    BY <1>3
<1>6. /\ Sound(u) /\ Grown(u, v, a) /\ a.kind \in {"define_name", "update_name"}
      /\ LedgerOf(u) = [LedgerOf(v) EXCEPT !.key[d] = k]
      /\ get_name_index(u, d) # None
      /\ \A m : m # d => get_name_index(u, m) = get_name_index(v, m)
    BY <1>4, <1>5, NameStep
<1>. QED
    BY <1>3, <1>6

(* apply(transfer) to such an address, which writes two records, is the    *)
(* ledger's Transfer in one step.                                          *)
LEMMA TransferToAddressStep ==
    ASSUME DatabaseInv, NEW f \in Name, NEW t \in Name \cup {EmptyName},
           NEW s \in Name, NEW n \in Amount, TransferToAddress(f, t, s, n)
    PROVE  LogInv' /\ LP!Transfer(f, t, s, n)
<1>1. /\ LayerOK(base) /\ LayerOK(local) /\ Sound(view) /\ LogInv
      /\ LayerOK(view) /\ NamesSound(view)
    BY DEF DatabaseInv, LogInv, Sound
<1>2. PICK v, v2, at, d : v = view /\ v2 = view' /\ at = trx_pos
                          /\ d = Destination(t)
    OBVIOUS
<1>3. PICK a, p, l : a = AddressRecord(d) /\ p = Len(v.log) + 1
                     /\ l = Named(local, d, a, p)
    OBVIOUS
<1>4. /\ MayTransfer(f, t, s, n) /\ get_name_index(v, d) = None
      /\ d \in Address /\ d \in Name
      /\ UNCHANGED <<base, applying, signers, gen, trx_pos>>
    BY <1>2, NameAssumption DEF TransferToAddress
<1>5. /\ get_name_index(v, f) # None /\ get_name_index(v, s) # None
      /\ n <= get_balance(v, f, s)
      /\ \A e \in Name : e # f => get_balance(v, f, s) + get_balance(v, e, s) <= MaxAmount
      /\ Open(v, at)
    BY <1>2, <1>4, MayPay
<1>6. PICK u : u = Named(v, d, a, p)
    OBVIOUS
<1>7. /\ Sound(u) /\ Grown(u, v, a) /\ a.kind \in {"define_name", "update_name"}
      /\ LedgerOf(u) = [LedgerOf(v) EXCEPT !.key[d] = NoKey]
      /\ get_name_index(u, d) # None
      /\ \A m : m # d => get_name_index(u, m) = get_name_index(v, m)
    <2>1. Sound(v) /\ d \in Name /\ get_name_index(v, d) = None
        BY <1>1, <1>2, <1>4
    <2>. QED
        BY <2>1, <1>3, <1>6, NewAddressStep
<1>8. a \in Record /\ p \in Nat
    BY <1>3, <1>7 DEF Grown
<1>9. LayerOK(l) /\ Stacked(base, l) = u
    BY <1>1, <1>2, <1>3, <1>4, <1>6, <1>8, WriteNamed DEF view
<1>10. Open(u, at) /\ Len(u.log) = p /\ p + 1 \in Nat
    BY <1>3, <1>5, <1>7, <1>8, OpenKept DEF Grown
<1>11. /\ LedgerOf(u).key = [LedgerOf(v).key EXCEPT ![d] = NoKey]
       /\ LedgerOf(u).bal = LedgerOf(v).bal
       /\ LedgerOf(u).opened = LedgerOf(v).opened
    BY <1>7, LedgerParts
<1>12. \A m \in Name : get_balance(u, m, s) = get_balance(v, m, s)
    <2>1. PICK B : B = LedgerOf(v).bal
        OBVIOUS
    <2>2. /\ \A m \in Name : B[<<m, s>>] = get_balance(v, m, s)
          /\ \A m \in Name : LedgerOf(u).bal[<<m, s>>] = get_balance(u, m, s)
        BY <2>1, LedgerParts
    <2>. QED
        BY <2>1, <2>2, <1>11
<1>13. /\ get_name_index(u, f) # None /\ get_name_index(u, s) # None
       /\ n <= get_balance(u, f, s)
       /\ d # f => get_balance(u, f, s) + get_balance(u, d, s) <= MaxAmount
    BY <1>4, <1>5, <1>7, <1>12
<1>14. PICK r, q, w : /\ r = TransferRecord(u, f, d, s, n, at)
                      /\ q = Len(u.log) + 1
                      /\ w = Transferred(u, r, q)
    OBVIOUS
<1>15. /\ r \in TransferLog /\ Sound(w) /\ Grown(w, u, r)
       /\ LedgerOf(w) = [key    |-> LedgerOf(u).key,
                         bal    |-> LP!Moved(LedgerOf(u).bal, f, d, s, n),
                         opened |-> LedgerOf(u).opened \cup {<<f, s>>, <<d, s>>}]
    <2>1. /\ Sound(u) /\ d \in Name /\ get_name_index(u, d) # None /\ Open(u, at)
        BY <1>4, <1>7, <1>10
    <2>. QED
        BY <2>1, <1>13, <1>14, PayStep
<1>16. local' = Transferred(l, r, p + 1)
    <2>1. size + 1 = p /\ size + 2 = p + 1
        BY <1>2, <1>3, <1>8, <1>7 DEF size, Grown
    <2>2. local' = Transferred(Named(local, d, a, size + 1),
                      TransferRecord(Stacked(base, Named(local, d, a, size + 1)),
                                     f, d, s, n, at), size + 2)
        BY <1>2, <1>3, Zenon DEF TransferToAddress
    <2>. QED
        BY <2>1, <2>2, <1>3, <1>9, <1>14
<1>17. LayerOK(local') /\ v2 = w
    BY <1>1, <1>2, <1>4, <1>9, <1>10, <1>14, <1>15, <1>16, WriteTransferred DEF view
<1>18. Open(v2, at)
    BY <1>10, <1>15, <1>17, OpenKept DEF TransferLog
<1>19. LogInv'
    BY <1>1, <1>2, <1>4, <1>15, <1>17, <1>18 DEF LogInv
<1>20. ~LP!Registered(d)
    <2>1. get_public_key_t(v, d) = Unregistered
        BY <1>1, <1>2, <1>4, Registered
    <2>. QED
        BY <2>1, <1>2, <1>4, LedgerParts DEF LP!Registered
<1>21. LedgerOf(base)' = LedgerOf(base) /\ LedgerOf(view)' = LedgerOf(w)
    BY <1>2, <1>4, <1>17
<1>22. d = IF t = EmptyName THEN gen ELSE t
    BY <1>2 DEF Destination
<1>23. /\ applying /\ (t # EmptyName => f # t)
       /\ LP!Registered(s) /\ LedgerOf(view).key[f] \in signers
       /\ n <= LedgerOf(view).bal[<<f, s>>]
    BY <1>4, MayPay
<1>24. LedgerOf(view)' =
           [key    |-> IF LP!Registered(d) THEN LedgerOf(view).key
                       ELSE [LedgerOf(view).key EXCEPT ![d] = NoKey],
            bal    |-> LP!Moved(LedgerOf(view).bal, f, d, s, n),
            opened |-> LedgerOf(view).opened \cup {<<f, s>>, <<d, s>>}]
    BY <1>2, <1>11, <1>15, <1>20, <1>21, Zenon
<1>. QED
    BY <1>4, <1>19, <1>20, <1>21, <1>22, <1>23, <1>24, Zenon DEF LP!Transfer

(* When apply returns, its local variables are gone and the log is left as *)
(* it is.                                                                  *)
LEMMA ReturnStep ==
    ASSUME Return, LayerOK(local'), Sound(base'), Sound(view')
    PROVE  LogInv'
<1>1. trx_pos' \in 0 .. MaxLog
    BY BoundAssumption DEF Return, None
<1>2. applying' = FALSE /\ signers' = {} /\ gen' = EmptyName
    BY DEF Return
<1>. QED
    BY <1>1, <1>2, Zenon DEF LogInv

(* apply(signed_transaction) returns true: the ledger's EndTrx.            *)
LEMMA EndTrxStep ==
    ASSUME LogInv, EndTrx
    PROVE  LogInv' /\ LP!EndTrx
<1>1. base' = base /\ local' = local /\ view' = view
    BY DEF EndTrx, view
<1>2. LogInv'
    BY <1>1, ReturnStep DEF EndTrx, LogInv
<1>. QED
    BY <1>1, <1>2 DEF EndTrx, Return, LP!EndTrx, LP!Return

(* The end_block record changes nothing that the ledger shows.             *)
LEMMA ApplyBlockStep ==
    ASSUME LogInv, ApplyBlock
    PROVE  LogInv' /\ UNCHANGED LP!vars
<1> DEFINE r == [kind |-> "end_block"]
<1>1. /\ r \in StartTrx \cup EndBlock /\ r \in Record
      /\ LayerOK(base) /\ LayerOK(local) /\ Sound(view)
    BY DEF EndBlock, Record, LogInv, Sound
<1>2. PICK v, v2 : v = view /\ v2 = view'
    OBVIOUS
<1>3. /\ local' = Logged(local, r) /\ base' = base
      /\ ~applying /\ UNCHANGED <<applying, signers, gen, trx_pos>>
    BY DEF ApplyBlock
<1>4. LayerOK(local') /\ v2 = Logged(v, r)
    BY <1>1, <1>2, <1>3, WriteLogged DEF view
<1>5. Sound(v2) /\ LedgerOf(v2) = LedgerOf(v)
    BY <1>1, <1>2, <1>4, MarkStep
<1>6. LogInv'
    BY <1>2, <1>3, <1>4, <1>5 DEF LogInv
<1>7. LedgerOf(base)' = LedgerOf(base) /\ LedgerOf(view)' = LedgerOf(view)
    BY <1>2, <1>3, <1>5
<1>. QED
    BY <1>3, <1>6, <1>7 DEF LP!vars

(* commit moves the whole layer below: the ledger's Commit.                *)
LEMMA CommitStep ==
    ASSUME LogInv, Commit
    PROVE  LogInv' /\ LP!Commit
<1>1. /\ base' = view /\ local' = EmptyLayer
      /\ ~applying /\ UNCHANGED <<applying, signers, gen, trx_pos>>
    BY DEF Commit, view
<1>2. LayerOK(view)
    BY DEF LogInv, Sound
<1>3. view' = view
    BY <1>1, <1>2, StackedEmpty DEF view
<1>4. LogInv'
    BY <1>1, <1>3, EmptySound DEF LogInv
<1>. QED
    BY <1>1, <1>3, <1>4 DEF LP!Commit

(* An abort drops the whole layer: the ledger's Discard.                   *)
LEMMA DiscardStep ==
    ASSUME LogInv, Discard
    PROVE  LogInv' /\ LP!Discard
<1>1. base' = base /\ local' = EmptyLayer
    BY DEF Discard
<1>2. LayerOK(base)
    BY DEF LogInv, Sound
<1>3. view' = base
    BY <1>1, <1>2, StackedEmpty DEF view
<1>4. LogInv'
    BY <1>1, <1>3, EmptySound, ReturnStep DEF Discard, LogInv
<1>. QED
    BY <1>1, <1>3, <1>4 DEF Discard, Return, LP!Discard, LP!Return

(* Every step of the database is a step of the ledger, or changes nothing  *)
(* that the ledger shows.                                                  *)
LEMMA DatabaseStep ==
    DatabaseInv /\ [Next]_vars => LogInv' /\ [LP!Next]_(LP!vars)
<1> SUFFICES ASSUME DatabaseInv, [Next]_vars
             PROVE  LogInv' /\ [LP!Next]_(LP!vars)
    OBVIOUS
<1>0. LogInv
    BY DEF DatabaseInv
<1>1. ASSUME NEW sigs \in SUBSET Key, NEW g \in Generator, BeginTrx(sigs, g)
      PROVE  LogInv' /\ LP!Next
    <2>1. LogInv' /\ LP!BeginTrx(sigs, g)
        BY <1>0, <1>1, BeginTrxStep
    <2>2. g \in Name \cup {EmptyName}
        BY BoundAssumption
    <2>. QED
        BY <2>1, <2>2 DEF LP!Next
<1>2. ASSUME NEW n \in Name, NEW k \in Key, RegisterName(n, k)
      PROVE  LogInv' /\ LP!Next
    <2>1. LogInv' /\ LP!RegisterName(n, k)
        BY <1>0, <1>2, RegisterNameStep
    <2>. QED
        BY <2>1 DEF LP!Next
<1>3. ASSUME NEW s \in Name, Issue(s)
      PROVE  LogInv' /\ LP!Next
    <2>1. LogInv' /\ LP!Issue(s)
        BY <1>0, <1>3, IssueNameStep
    <2>. QED
        BY <2>1 DEF LP!Next
<1>4. ASSUME NEW f \in Name, NEW t \in Name \cup {EmptyName}, NEW s \in Name,
             NEW n \in Amount,
             TransferToName(f, t, s, n) \/ TransferToAddress(f, t, s, n)
      PROVE  LogInv' /\ LP!Next
    <2>1. LogInv' /\ LP!Transfer(f, t, s, n)
        BY <1>4, TransferToNameStep, TransferToAddressStep
    <2>2. n \in LP!Amount
        BY DEF LP!Amount, Amount
    <2>. QED
        BY <2>1, <2>2 DEF LP!Next
<1>5. ASSUME EndTrx PROVE LogInv' /\ LP!Next
    BY <1>0, <1>5, EndTrxStep DEF LP!Next
<1>6. ASSUME ApplyBlock PROVE LogInv' /\ UNCHANGED LP!vars
    BY <1>0, <1>6, ApplyBlockStep
<1>7. ASSUME Commit PROVE LogInv' /\ LP!Next
    BY <1>0, <1>7, CommitStep DEF LP!Next
<1>8. ASSUME Discard PROVE LogInv' /\ LP!Next
    BY <1>0, <1>8, DiscardStep DEF LP!Next
<1>9. ASSUME UNCHANGED vars PROVE LogInv' /\ UNCHANGED LP!vars
    <2>1. base' = base /\ local' = local /\ view' = view
          /\ UNCHANGED <<applying, signers, gen, trx_pos>>
        BY <1>9 DEF vars, view
    <2>2. LogInv'
        BY <1>0, <2>1 DEF LogInv
    <2>. QED
        BY <2>1, <2>2 DEF LP!vars
<1>. QED
    BY <1>1, <1>2, <1>3, <1>4, <1>5, <1>6, <1>7, <1>8, <1>9 DEF Next

(* A step of the ledger that the log stands for keeps the supply of every  *)
(* stock.                                                                  *)
LEMMA SupplyKept == LP!SupplyInv /\ [LP!Next]_(LP!vars) => LP!SupplyInv'
    BY LP!SupplyStep, NameAssumption, KeyAssumption, BoundAssumption

(* The empty ledger backs every stock.                                     *)
LEMMA SupplyStarts == LP!Init => LP!SupplyInv
<1>1. LP!EmptyLedger \in LP!LedgerState /\ LP!Sound(LP!EmptyLedger)
    BY LP!EmptyLedgerSound, NameAssumption, KeyAssumption, BoundAssumption
<1>. QED
    BY <1>1 DEF LP!Init, LP!SupplyInv, LP!TypeOK

(* DatabaseInv is an inductive invariant of the state database.            *)
LEMMA DatabaseInvariant == Spec => []DatabaseInv
<1>1. Init => DatabaseInv
    BY InitOK, SupplyStarts DEF DatabaseInv
<1>2. DatabaseInv /\ [Next]_vars => DatabaseInv'
    BY DatabaseStep, SupplyKept DEF DatabaseInv
<1>. QED
    BY <1>1, <1>2, PTL DEF Spec

(* The indices of the log, below the open layer and through it, lead to    *)
(* the record that last gave a name its key and to the last transfer of an *)
(* account, and a transfer is stamped with its own transaction's start:    *)
(* the queries of state_database never read a record of the wrong kind.    *)
THEOREM LogIsSound == Spec => []LogSound
<1>1. DatabaseInv => LogSound
    BY DEF DatabaseInv, LogInv, Sound, LogSound, TypeOK, Consistent
<1>. QED
    BY <1>1, DatabaseInvariant, PTL

(* transfer::previous, from the account index back through the log, misses *)
(* no transfer of any account.                                             *)
LEMMA LinkedIsComplete ==
    ASSUME NEW v, Sound(v)
    PROVE  HistoryComplete(v)
<1>0. v.log \in Seq(Record) /\ Len(v.log) \in Nat
    BY LenProperties DEF Sound, LayerOK
<1>1. ASSUME NEW p \in 1 .. Len(v.log), Kind(v, p) = "transfer_log",
             NEW a \in Accounts(v.log[p]), v.log[p].from_name # v.log[p].to_name
      PROVE  IsLastTransfer(v, previous(v, p, a[1]), a, p)
    <2>1. PICK r : r = v.log[p]
        OBVIOUS
    <2>2. /\ IsLastTransfer(v, r.last_from_trx, <<r.from_name, r.type_name>>, p)
          /\ IsLastTransfer(v, r.last_to_trx, <<r.to_name, r.type_name>>, p)
        BY <1>1, <2>1 DEF Sound, Linked
    <2>3. r.last_from_trx < p /\ r.last_to_trx < p
        BY <2>2 DEF IsLastTransfer, None
    <2>4. CASE a = <<r.to_name, r.type_name>>
        <3>1. previous(v, p, a[1]) = r.last_to_trx
            BY <1>1, <2>1, <2>3, <2>4 DEF previous
        <3>. QED
            BY <3>1, <2>2, <2>4
    <2>5. CASE a = <<r.from_name, r.type_name>>
        <3>1. previous(v, p, a[1]) = r.last_from_trx
            BY <1>1, <2>1, <2>3, <2>5 DEF previous
        <3>. QED
            BY <3>1, <2>2, <2>5
    <2>. QED
        BY <1>1, <2>1, <2>4, <2>5 DEF Accounts
<1>2. ASSUME NEW x \in 1 .. Len(v.log), NEW y \in 1 .. Len(v.log)
      PROVE  IsLastTransfer(v, get_last_transfer_index(v, <<x, y>>), <<x, y>>,
                            Len(v.log) + 1)
    BY <1>0 DEF Sound, Linked
<1>. QED
    BY <1>1, <1>2 DEF Sound, Linked, HistoryComplete

(* No account's history has a gap, below the open layer or through it.     *)
THEOREM HistoryHasNoGap == Spec => []History
<1>1. DatabaseInv => History
    BY LinkedIsComplete DEF DatabaseInv, LogInv, History
<1>. QED
    BY <1>1, DatabaseInvariant, PTL

(* transfer_balance's uint64 addition new_to_bal += amnt never wraps: what *)
(* two accounts of a stock hold together was issued.                       *)
THEOREM AdditionsNeverWrap == Spec => []LP!NoCounterfeit
<1>1. DatabaseInv => LP!NoCounterfeit
    BY NoWrap DEF DatabaseInv
<1>. QED
    BY <1>1, DatabaseInvariant, PTL

(* What the steps are in LP they are in L: the two instances of the ledger *)
(* have the same parameters.                                               *)
LEMMA SameInit == LP!Init => L!Init
<1>. QED
    BY Zenon DEF LP!Init, L!Init, LP!EmptyLedger, L!EmptyLedger, LP!Account,
                 L!Account

(* A transaction begins the same.                                          *)
LEMMA SameBeginTrx ==
    ASSUME NEW sigs, NEW g, LP!BeginTrx(sigs, g) PROVE L!BeginTrx(sigs, g)
<1>. QED
    BY Zenon DEF LP!BeginTrx, L!BeginTrx

(* A name is registered the same.                                          *)
LEMMA SameRegisterName ==
    ASSUME NEW n, NEW k, LP!RegisterName(n, k) PROVE L!RegisterName(n, k)
<1>. QED
    BY Zenon DEF LP!RegisterName, L!RegisterName, LP!Registered, L!Registered

(* A stock is issued the same.                                             *)
LEMMA SameIssue ==
    ASSUME NEW s, LP!Issue(s) PROVE L!Issue(s)
<1>. QED
    BY Zenon DEF LP!Issue, L!Issue

(* Units move the same.                                                    *)
LEMMA SameTransfer ==
    ASSUME NEW f, NEW t, NEW s, NEW n, LP!Transfer(f, t, s, n)
    PROVE  L!Transfer(f, t, s, n)
<1>. QED
    BY Zenon DEF LP!Transfer, L!Transfer, LP!Registered, L!Registered,
                 LP!Moved, L!Moved, LP!Account, L!Account

(* apply returns, a layer is committed and one is aborted the same.        *)
LEMMA SameReturns ==
    /\ LP!EndTrx => L!EndTrx
    /\ LP!Commit => L!Commit
    /\ LP!Discard => L!Discard
<1>. QED
    BY Zenon DEF LP!EndTrx, L!EndTrx, LP!Commit, L!Commit, LP!Discard,
                 L!Discard, LP!Return, L!Return

(* Every step of the one is a step of the other.                           *)
LEMMA SameNext == [LP!Next]_(LP!vars) => [L!Next]_(L!vars)
<1>1. ASSUME LP!Next PROVE L!Next
    <2>1. LP!Amount = L!Amount
        BY DEF LP!Amount, L!Amount
    <2>. QED
        BY <1>1, <2>1, SameBeginTrx, SameRegisterName, SameIssue, SameTransfer,
           SameReturns, Zenon DEF LP!Next, L!Next
<1>2. UNCHANGED LP!vars => UNCHANGED L!vars
    BY Zenon DEF LP!vars, L!vars
<1>. QED
    BY <1>1, <1>2, Zenon

(* The log and its indices implement the ledger: every command has its     *)
(* effect on keys and balances and no other, no uint64 addition wraps, and *)
(* commit and abort keep or drop a whole layer.                            *)
THEOREM LogImplementsLedger == Spec => ImplementsLedger
<1>1. Init => L!Init
    BY InitOK, SameInit, Zenon
<1>2. DatabaseInv /\ [Next]_vars => [L!Next]_(L!vars)
    BY DatabaseStep, SameNext, Zenon
<1>. QED
    BY <1>1, <1>2, DatabaseInvariant, PTL DEF Spec, ImplementsLedger, L!Spec

(* The names and accounts that a step of the ledger changes between two    *)
(* commands, or in one, and by whose signature.                            *)
Approved(l, m) ==
    \A n \in Name :
        /\ \/ l.key[n] \in {m.key[n], Unregistered}
           \/ l.key[n] \in signers
           \/ n = EncodeAddress[m.key[n]]
        /\ \A s \in Name :
              m.bal[<<n, s>>] < l.bal[<<n, s>>] => l.key[n] \in signers

(* No command of the ledger takes a name, or a unit, from a holder who did *)
(* not sign, save that an address goes to the key it encodes.              *)
LEMMA LedgerApproves ==
    ASSUME LP!SupplyInv, LP!Next, applying, applying'
    PROVE  Approved(LedgerOf(view), LedgerOf(view'))
<1>1. PICK l : l = LedgerOf(view)
    OBVIOUS
<1>2. PICK m : m = LedgerOf(view')
    OBVIOUS
<1>3. /\ l.key \in [Name -> Key \cup {NoKey, Unregistered}]
      /\ l.bal \in [Name \X Name -> 0 .. MaxAmount]
      /\ MaxAmount \in Nat
      /\ l = [key |-> l.key, bal |-> l.bal, opened |-> l.opened]
    BY <1>1, BoundAssumption
    DEF LP!SupplyInv, LP!TypeOK, LP!LedgerState, LP!Account, LP!Amount
<1>4. LedgerOf(view)' = m
    BY <1>2
<1>5. CASE m = l
    BY <1>1, <1>2, <1>3, <1>5 DEF Approved
<1>6. ASSUME NEW n \in Name, NEW k \in Key, LP!RegisterName(n, k)
      PROVE  Approved(l, m)
    <2>1. m = [l EXCEPT !.key[n] = k]
        BY <1>1, <1>4, <1>6, Zenon DEF LP!RegisterName
    <2>2. n = EncodeAddress[k] \/ l.key[n] = Unregistered \/ l.key[n] \in signers
        BY <1>1, <1>6 DEF LP!RegisterName, LP!Registered
    <2>3. m.key = [l.key EXCEPT ![n] = k] /\ m.bal = l.bal
        BY <1>3, <2>1
    <2>. QED
        BY <1>3, <2>2, <2>3 DEF Approved
<1>7. ASSUME NEW s \in Name, LP!Issue(s)
      PROVE  Approved(l, m)
    <2>1. m = [l EXCEPT !.bal[<<s, s>>] = MaxAmount,
                        !.opened = @ \cup {<<s, s>>}]
        BY <1>1, <1>4, <1>7, Zenon DEF LP!Issue
    <2>2. m.key = l.key /\ m.bal = [l.bal EXCEPT ![<<s, s>>] = MaxAmount]
        BY <1>3, <2>1
    <2>. QED
        BY <1>3, <2>2 DEF Approved
<1>8. ASSUME NEW f \in Name, NEW t \in Name \cup {EmptyName}, NEW s \in Name,
             NEW n \in LP!Amount, LP!Transfer(f, t, s, n)
      PROVE  Approved(l, m)
    <2>1. PICK d : d = IF t = EmptyName THEN gen ELSE t
        OBVIOUS
    <2>2. /\ l.key[f] \in signers /\ d \in Name
          /\ m = [key    |-> IF l.key[d] # Unregistered THEN l.key
                            ELSE [l.key EXCEPT ![d] = NoKey],
                  bal    |-> LP!Moved(l.bal, f, d, s, n),
                  opened |-> l.opened \cup {<<f, s>>, <<d, s>>}]
        BY <1>1, <1>4, <1>8, <2>1, Zenon DEF LP!Transfer, LP!Registered
    <2>3. \A x \in Name : l.key[x] \in {m.key[x], Unregistered}
        BY <1>3, <2>2
    <2>4. ASSUME NEW x \in Name, NEW y \in Name, m.bal[<<x, y>>] < l.bal[<<x, y>>]
          PROVE  l.key[x] \in signers
        <3>1. m.bal[<<x, y>>] = LP!Moved(l.bal, f, d, s, n)[<<x, y>>]
            BY <2>2
        <3>2. l.bal[<<x, y>>] \in Nat /\ n \in Nat
            BY <1>3 DEF LP!Amount
        <3>3. x = f
            BY <2>4, <3>1, <3>2 DEF LP!Moved, LP!Account
        <3>. QED
            BY <2>2, <3>3
    <2>. QED
        BY <2>3, <2>4 DEF Approved
<1>9. LP!EndTrx \/ LP!Discard => FALSE
    BY DEF LP!EndTrx, LP!Discard, LP!Return
<1>10. (\E sigs \in SUBSET Key, g \in Name \cup {EmptyName} : LP!BeginTrx(sigs, g))
           => FALSE
    BY DEF LP!BeginTrx
<1>11. LP!Commit => FALSE
    BY DEF LP!Commit
<1>. QED
    BY <1>1, <1>2, <1>6, <1>7, <1>8, <1>9, <1>10, <1>11, Zenon DEF LP!Next

(* What a transaction takes from a name or an account, its holder signed.  *)
THEOREM HoldersApprove == Spec => HolderApproves
<1>1. ASSUME DatabaseInv, [Next]_vars, applying, applying', NEW n \in Name
      PROVE  LET k == get_public_key_t(view, n)
                 approved == k \in signers
             IN  /\ k \in {get_public_key_t(view', n), Unregistered}
                    \/ approved \/ n = EncodeAddress[get_public_key_t(view', n)]
                 /\ \A s \in Name :
                       get_balance(view', n, s) < get_balance(view, n, s)
                           => approved
    <2>1. PICK v, w : v = view /\ w = view'
        OBVIOUS
    <2>2. Approved(LedgerOf(v), LedgerOf(w))
        <3>1. [LP!Next]_(LP!vars) /\ LP!SupplyInv
            BY <1>1, DatabaseStep, Zenon DEF DatabaseInv
        <3>2. CASE LP!Next
            BY <1>1, <2>1, <3>1, <3>2, LedgerApproves
        <3>3. CASE UNCHANGED LP!vars
            <4>1. LedgerOf(w) = LedgerOf(v)
                BY <2>1, <3>3 DEF LP!vars
            <4>2. LedgerOf(v).bal \in [Name \X Name -> 0 .. MaxAmount]
                BY <2>1, <3>1
                DEF LP!SupplyInv, LP!TypeOK, LP!LedgerState, LP!Account, LP!Amount
            <4>. QED
                BY <4>1, <4>2, BoundAssumption DEF Approved
        <3>. QED
            BY <3>1, <3>2, <3>3
    <2>3. /\ LedgerOf(v).key[n] = get_public_key_t(v, n)
          /\ LedgerOf(w).key[n] = get_public_key_t(w, n)
          /\ \A s \in Name :
                /\ LedgerOf(v).bal[<<n, s>>] = get_balance(v, n, s)
                /\ LedgerOf(w).bal[<<n, s>>] = get_balance(w, n, s)
        BY <1>1, LedgerParts
    <2>4. /\ get_public_key_t(v, n) \in {get_public_key_t(w, n), Unregistered}
             \/ get_public_key_t(v, n) \in signers
             \/ n = EncodeAddress[get_public_key_t(w, n)]
          /\ \A s \in Name :
                get_balance(w, n, s) < get_balance(v, n, s)
                    => get_public_key_t(v, n) \in signers
        BY <1>1, <2>2, <2>3 DEF Approved
    <2>. QED
        BY <2>1, <2>4, Zenon
<1>2. DatabaseInv /\ [Next]_vars =>
          [ \A n \in Name :
              LET k == get_public_key_t(view, n)
                  approved == k \in signers
              IN  applying /\ applying' =>
                  /\ k \in {get_public_key_t(view', n), Unregistered}
                     \/ approved
                     \/ n = EncodeAddress[get_public_key_t(view', n)]
                  /\ \A s \in Name :
                        get_balance(view', n, s) < get_balance(view, n, s)
                            => approved
          ]_vars
    BY <1>1, Zenon
<1>. QED
    BY <1>2, DatabaseInvariant, PTL DEF Spec, HolderApproves
=============================================================================
