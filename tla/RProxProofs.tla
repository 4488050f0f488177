---------------------------- MODULE RProxProofs ----------------------------
(***************************************************************************)
(* What the two proxies say to each other can be read, arrives in order,   *)
(* and takes neither down unless something failed: for any number of       *)
(* connections and of chunks.                                              *)
(***************************************************************************)
EXTENDS RProx, TLAPS, SequenceTheorems, WellFoundedInduction

(***************************************************************************)
(* Sequences of handlers or messages, by the sets they are in.             *)
(***************************************************************************)
None(w, S) == \A i \in 1 .. Len(w) : w[i] \notin S
Single(w, S) == \A i, j \in 1 .. Len(w) : w[i] \in S /\ w[j] \in S => i = j

(* Nothing of B comes after something of A.                                *)
Ends(w, A, B) ==
    \A i, j \in 1 .. Len(w) : i < j /\ w[i] \in A => w[j] \notin B

(* Something of A comes before anything of B.                              *)
Leads(w, A, B) ==
    \A j \in 1 .. Len(w) : w[j] \in B => \E i \in 1 .. Len(w) : i < j /\ w[i] \in A

Sealeds == [msg : Message, enc : BOOLEAN]
Early == {x \in Sealeds : ~x.enc \/ x.msg.id \in {Hello.id, CreateServer.id}}
Creates(c) == {x \in Sealeds : x.msg.id = "create_connection" /\ x.msg.con = c}
Closes(c) == {x \in Sealeds : x.msg.id = "connection_status" /\ x.msg.con = c}
Carries(c) == {x \in Sealeds : x.msg.id = "forward_write" /\ x.msg.con = c}
About(c) == Closes(c) \cup Carries(c)

Controls == {h \in Handlers : h.kind = "control"}
Accepts == {h \in Handlers : h.kind = "accept" /\ h.ok}
AcceptsOf(c) == {h \in Accepts : h.con = c}
Reads(c) == {h \in Handlers : h.kind = "read" /\ h.con = c}
HasRead(c) == {h \in Reads(c) : h.ok}
Writes(c) == {h \in Handlers : h.kind = "write" /\ h.con = c}

(* The chunks of c on a wire follow one another; done of them have arrived *)
(* and none is beyond top.                                                 *)
Flow(w, c, done, top) ==
    /\ done <= top
    /\ \A i \in 1 .. Len(w) : w[i] \in Carries(c) =>
          /\ done < w[i].msg.data /\ w[i].msg.data <= top
          /\ \A j \in 1 .. Len(w) : w[j] \in Carries(c) /\ j < i =>
                w[j].msg.data < w[i].msg.data
          /\ w[i].msg.data # done + 1 =>
                \E j \in 1 .. Len(w) : /\ w[j] \in Carries(c) /\ j < i
                                       /\ w[j].msg.data + 1 = w[i].msg.data

(* All up to top have arrived or are on the wire.                          *)
Full(w, c, done, top) ==
    done # top => \E i \in 1 .. Len(w) : w[i] \in Carries(c) /\ w[i].msg.data = top

-----------------------------------------------------------------------------
ControlInv ==
    \A s \in Side :
        /\ Single(queue[s], Controls)
        /\ control[s] # "ready" => None(queue[s], Controls)
        /\ ~None(queue[s], Controls) /\ wire[Peer(s)] = << >> => lost

FaultInv ==
    /\ \A s \in Side : ~linked[s] => lost
    /\ acceptor = "closed" => lost
    /\ \A s \in Side : dead[s] \in {"freed", "no acceptor"} => lost

(* The sequence has nothing, or just x.                                    *)
AtMost(w, x) == w = << >> \/ w = <<x>>

(* The phases of the handshake: home's key, the relay's key, the request   *)
(* for a port, and thereafter.                                             *)
HelloOut ==
    /\ dh["relay"] = "none" /\ dh["home"] = "sent" /\ acceptor = "none"
    /\ wire["relay"] = << >>
    /\ AtMost(wire["home"], Sealed(Hello, FALSE))

HelloBack ==
    /\ dh["relay"] = "shared" /\ dh["home"] = "sent" /\ acceptor = "none"
    /\ AtMost(wire["relay"], Sealed(Hello, FALSE))
    /\ wire["home"] = << >>

Mapping ==
    /\ dh["relay"] = "shared" /\ dh["home"] = "shared" /\ acceptor = "none"
    /\ wire["relay"] = << >>
    /\ AtMost(wire["home"], Sealed(CreateServer, TRUE))

Mapped ==
    /\ dh["relay"] = "shared" /\ dh["home"] = "shared" /\ acceptor # "none"
    /\ None(wire["relay"], Early) /\ None(wire["home"], Early)

HandshakeInv ==
    /\ HelloOut \/ HelloBack \/ Mapping \/ Mapped
    /\ \A c \in Con : None(wire["home"], Creates(c))

FreshInv ==
    /\ \A s \in Side, c \in Con :
        /\ sock[s][c] = "none" =>
            /\ c \notin pcons[s] /\ c \notin reading[s]
            /\ got[s][c] = << >> /\ taken[s][c] = 0
            /\ None(queue[s], Reads(c)) /\ None(queue[s], Writes(c))
            /\ None(wire[s], About(c))
        /\ sock[s][c] # "open" => writing[s][c] = << >>
    /\ \A c \in Con :
        /\ sock["home"][c] # "none" => sock["relay"][c] # "none"
        /\ sock["home"][c] \in {"none", "refused"} => outside["home"][c] = "none"
        /\ outside["relay"][c] = "none" => sock["relay"][c] = "none"
        /\ acceptor = "none" => outside["relay"][c] = "none"

CreateInv ==
    \A c \in Con :
        /\ Single(wire["relay"], Creates(c))
        /\ ~None(wire["relay"], Creates(c)) =>
            /\ sock["relay"][c] # "none" /\ sock["home"][c] = "none"
            /\ c \in pcons["relay"] \/ lost

AcceptInv ==
    /\ Single(queue["relay"], Accepts)
    /\ acceptor \in {"none", "armed"} => None(queue["relay"], Accepts)
    /\ \A c \in Con : ~None(queue["relay"], AcceptsOf(c)) =>
        sock["relay"][c] = "none" /\ outside["relay"][c] # "none"

(* One read of each connection is under way or handled at a time.          *)
OneRead(s, c) ==
    /\ Single(queue[s], Reads(c))
    /\ c \in reading[s] => None(queue[s], Reads(c))

TokenInv ==
    ~lost => \A s \in Side, c \in Con :
        /\ OneRead(s, c)
        /\ ~None(queue[s], Writes(c)) => s \in failed
        /\ s \notin failed /\ (c \in reading[s] \/ ~None(queue[s], Reads(c))) =>
            /\ c \in pcons[Peer(s)] \/ ~None(wire[s], Creates(c))
            /\ None(wire[s], Closes(c))

WireInv ==
    \A s \in Side, c \in Con : s \notin failed =>
        /\ c \in pcons[Peer(s)] \/ Leads(wire[s], Creates(c), About(c))
        /\ Ends(wire[s], Closes(c), About(c))

(* How many chunks an end has received, or will once writes are done.      *)
Arrived(s, c) == Len(got[s][c]) + Len(writing[s][c])

(* How many chunks were forwarded: all that were taken, but for one that   *)
(* is being handled.                                                       *)
Fed(s, c) == IF None(queue[s], HasRead(c)) THEN taken[s][c] ELSE taken[s][c] - 1

(* An end that what comes is for.                                          *)
Receives(s, c) ==
    sock[s][c] \in {"none", "open"} /\ outside[s][c] # "closed" /\ dead[s] # "unknown"

IsChunk(x, c, top) == x = <<c, x[2]>> /\ x[2] \in 1 .. top

(* What g has of c's chunks: each once, none beyond top, and after all     *)
(* before it but those of P.                                               *)
Delivered(g, P, c, top) ==
    \A i \in 1 .. Len(g) :
        /\ IsChunk(g[i], c, top)
        /\ \A j \in 1 .. i - 1 : g[j] # g[i]
        /\ \A d \in 1 .. g[i][2] - 1 : d \in P \/ \E j \in 1 .. i - 1 : g[j] = <<c, d>>

(* With w, in whose order writes were begun, g has all of a beginning of   *)
(* them; what is in w was passed only by what may pass it.                 *)
Waiting(g, w, P, c) ==
    /\ \A i \in 1 .. Len(g) : IsChunk(g[i], c, Len(g) + Len(w))
    /\ \A i \in 1 .. Len(w) : IsChunk(w[i], c, Len(g) + Len(w))
    /\ \A i, j \in 1 .. Len(w) : i < j => w[i][2] < w[j][2]
    /\ \A i \in 1 .. Len(g), j \in 1 .. Len(w) :
          g[i][2] < w[j][2] \/ (w[j][2] \in P /\ g[i] # w[j])
    /\ \A d \in 1 .. Len(g) + Len(w) :
          \/ \E i \in 1 .. Len(g) : g[i] = <<c, d>>
          \/ \E i \in 1 .. Len(w) : w[i] = <<c, d>>

OrderInv ==
    \A s \in Side, c \in Con :
        /\ Delivered(got[s][c], part[s][c], c, sent[Peer(s)][c])
        /\ Receives(s, c) =>
            /\ Waiting(got[s][c], writing[s][c], part[s][c], c)
            /\ Flow(wire[Peer(s)], c, Arrived(s, c), taken[Peer(s)][c])
            /\ ~lost =>
                /\ Flow(wire[Peer(s)], c, Arrived(s, c), Fed(Peer(s), c))
                /\ Full(wire[Peer(s)], c, Arrived(s, c), Fed(Peer(s), c))

ProxyInv ==
    /\ TypeOK /\ ControlInv /\ FaultInv /\ HandshakeInv /\ FreshInv
    /\ CreateInv /\ AcceptInv /\ TokenInv /\ WireInv /\ OrderInv
    /\ DiesOfFaults

-----------------------------------------------------------------------------
(***************************************************************************)
(* What becomes of them as a sequence loses its head, gets one more, is    *)
(* joined to another or is cut.                                            *)
(***************************************************************************)
(* v is w without its head x, w with x at its end, w and u, a part of w.   *)
Pops(v, w, x) ==
    /\ \A S : /\ None(w, S) <=> x \notin S /\ None(v, S)
              /\ Single(w, S) => Single(v, S)
              /\ Single(w, S) /\ x \in S => None(v, S)
    /\ \A A, B : /\ Ends(w, A, B) => Ends(v, A, B)
                 /\ Ends(w, A, B) /\ x \in A => None(v, B)
                 /\ Leads(w, A, B) => x \notin B
                 /\ Leads(w, A, B) /\ x \notin A => Leads(v, A, B)
                 /\ None(v, B) => Leads(v, A, B)

Pushes(v, w, x) ==
    /\ \A S : /\ None(v, S) <=> x \notin S /\ None(w, S)
              /\ Single(w, S) /\ x \notin S => Single(v, S)
              /\ None(w, S) => Single(v, S)
    /\ \A A, B : /\ Ends(w, A, B) /\ (x \in B => None(w, A)) => Ends(v, A, B)
                 /\ Leads(w, A, B) /\ (x \in B => ~None(w, A)) => Leads(v, A, B)

Joins(v, w, u) ==
    \A S : /\ None(v, S) <=> None(w, S) /\ None(u, S)
           /\ Single(w, S) /\ None(u, S) => Single(v, S)
           /\ None(w, S) /\ Single(u, S) => Single(v, S)

Cuts(v, w) ==
    /\ \A S : /\ None(w, S) => None(v, S)
              /\ Single(w, S) => Single(v, S)
    /\ \A A, B : /\ Ends(w, A, B) => Ends(v, A, B)
                 /\ Leads(w, A, B) => Leads(v, A, B)

(***************************************************************************)
(* What an end has received and what is being written to it.               *)
(***************************************************************************)
(* What is removed from a sequence leaves the others in their order.       *)
LEMMA Removed ==
    ASSUME NEW S, NEW w \in Seq(S), NEW k \in 1 .. Len(w)
    PROVE  /\ RemoveAt(w, k) \in Seq(S) /\ Len(RemoveAt(w, k)) = Len(w) - 1
           /\ \A i \in 1 .. Len(w) - 1 :
                RemoveAt(w, k)[i] = IF i < k THEN w[i] ELSE w[i + 1]
<1>. DEFINE a == SubSeq(w, 1, k - 1)
            b == SubSeq(w, k + 1, Len(w))
<1>1. /\ a \in Seq(S) /\ Len(a) = k - 1 /\ \A i \in 1 .. k - 1 : a[i] = w[i]
      /\ b \in Seq(S) /\ Len(b) = Len(w) - k
      /\ \A i \in 1 .. Len(w) - k : b[i] = w[i + k]
  <2>1. PICK n \in Nat : n = Len(w)
      OBVIOUS
  <2>2. /\ a \in Seq(S) /\ Len(a) = k - 1 /\ \A i \in 1 .. k - 1 : a[i] = w[i]
      BY <2>1
  <2>3. /\ b \in Seq(S) /\ Len(b) = n - k
        /\ \A i \in 1 .. n - k : b[i] = w[k + 1 + i - 1]
      BY <2>1
  <2>4. \A i \in 1 .. n - k : k + 1 + i - 1 = i + k
      BY <2>1
  <2>. QED
      BY <2>1, <2>2, <2>3, <2>4
<1>2. RemoveAt(w, k) = a \o b
    BY DEF RemoveAt
<1>. HIDE DEF a, b
<1>3. Len(w) \in Nat /\ k \in 1 .. Len(w)
    OBVIOUS
<1>4. /\ a \o b \in Seq(S) /\ Len(a \o b) = Len(w) - 1
      /\ \A i \in 1 .. Len(w) - 1 :
            (a \o b)[i] = IF i < k THEN a[i] ELSE b[i - (k - 1)]
  <2>1. /\ a \o b \in Seq(S) /\ Len(a \o b) = Len(a) + Len(b)
        /\ \A i \in 1 .. Len(a) + Len(b) :
              (a \o b)[i] = IF i <= Len(a) THEN a[i] ELSE b[i - Len(a)]
      BY <1>1, ConcatProperties, Zenon
  <2>2. PICK n \in Nat : n = Len(w)
      BY <1>3
  <2>3. (k - 1) + (n - k) = n - 1
      BY <1>3, <2>2
  <2>4. Len(a) + Len(b) = n - 1
      BY <1>1, <2>2, <2>3
  <2>5. \A i \in 1 .. n - 1 : i <= k - 1 <=> i < k
      BY <1>3
  <2>. QED
      BY <1>1, <2>1, <2>2, <2>4, <2>5
<1>5. \A i \in 1 .. Len(w) - 1 :
        (a \o b)[i] = IF i < k THEN w[i] ELSE w[i + 1]
  <2>1. SUFFICES ASSUME NEW i \in 1 .. Len(w) - 1
                 PROVE  (a \o b)[i] = IF i < k THEN w[i] ELSE w[i + 1]
      OBVIOUS
  <2>2. CASE i < k
      BY <1>1, <1>3, <1>4, <2>2
  <2>3. CASE ~(i < k)
    <3>1. i - (k - 1) \in 1 .. Len(w) - k /\ (i - (k - 1)) + k = i + 1
        BY <1>3, <2>3
    <3>. QED
        BY <1>1, <1>4, <2>3, <3>1
  <2>. QED
      BY <2>2, <2>3
<1>. QED
    BY <1>2, <1>4, <1>5

(* An end sends more, or a write takes one more call.                      *)
LEMMA DeliveredMore ==
    ASSUME NEW g, NEW P, NEW Q, NEW c, NEW top \in Nat, NEW more \in Nat,
           Delivered(g, P, c, top), P \subseteq Q, top <= more
    PROVE  Delivered(g, Q, c, more)
<1>1. \A x : IsChunk(x, c, top) => IsChunk(x, c, more)
    BY DEF IsChunk
<1>. QED
    BY <1>1 DEF Delivered

(* So does what is being written, as a write takes one more call.          *)
LEMMA WaitingMore ==
    ASSUME NEW g, NEW w, NEW P, NEW Q, NEW c,
           Waiting(g, w, P, c), P \subseteq Q
    PROVE  Waiting(g, w, Q, c)
BY DEF Waiting

(* With m chunks received and n being written, what Waiting says of them.  *)
Between(g, m, w, n, P, c) ==
    /\ \A i \in 1 .. m : IsChunk(g[i], c, m + n)
    /\ \A i \in 1 .. n : IsChunk(w[i], c, m + n)
    /\ \A i, j \in 1 .. n : i < j => w[i][2] < w[j][2]
    /\ \A i \in 1 .. m, j \in 1 .. n :
          g[i][2] < w[j][2] \/ (w[j][2] \in P /\ g[i] # w[j])
    /\ \A d \in 1 .. m + n :
          \/ \E i \in 1 .. m : g[i] = <<c, d>>
          \/ \E i \in 1 .. n : w[i] = <<c, d>>

(* The write of the chunk after all of them is begun.                      *)
LEMMA BetweenPushed ==
    ASSUME NEW c, NEW g, NEW m \in Nat, NEW w, NEW n \in Nat, NEW P, NEW v,
           Between(g, m, w, n, P, c),
           v[n + 1] = <<c, m + n + 1>>, \A i \in 1 .. n : v[i] = w[i]
    PROVE  Between(g, m, v, n + 1, P, c)
<1>1. \A i \in 1 .. n + 1 : i \in 1 .. n \/ i = n + 1
    OBVIOUS
<1>2. \A d \in 1 .. m + (n + 1) : d \in 1 .. m + n \/ d = m + n + 1
    OBVIOUS
<1>3. PICK e : e = <<c, m + n + 1>>
    OBVIOUS
<1>4. e[2] = m + n + 1 /\ IsChunk(e, c, m + (n + 1)) /\ v[n + 1] = e
    BY <1>3 DEF IsChunk
<1>5. \A x : IsChunk(x, c, m + n) => IsChunk(x, c, m + (n + 1)) /\ x[2] < m + n + 1
    BY DEF IsChunk
<1>6. /\ \A i \in 1 .. m : IsChunk(g[i], c, m + (n + 1)) /\ g[i][2] < e[2]
      /\ \A i \in 1 .. n + 1 : IsChunk(v[i], c, m + (n + 1))
      /\ \A i \in 1 .. n : v[i][2] < e[2]
    BY <1>1, <1>4, <1>5 DEF Between
<1>7. \A i, j \in 1 .. n + 1 : i < j => v[i][2] < v[j][2]
  <2>1. SUFFICES ASSUME NEW i \in 1 .. n + 1, NEW j \in 1 .. n + 1, i < j
                 PROVE  v[i][2] < v[j][2]
      OBVIOUS
  <2>2. i \in 1 .. n
      BY <2>1
  <2>3. CASE j \in 1 .. n
      BY <2>1, <2>2, <2>3 DEF Between
  <2>4. CASE j = n + 1
      BY <1>4, <1>6, <2>2, <2>4
  <2>. QED
      BY <1>1, <2>3, <2>4
<1>8. \A i \in 1 .. m, j \in 1 .. n + 1 :
        g[i][2] < v[j][2] \/ (v[j][2] \in P /\ g[i] # v[j])
    BY <1>1, <1>4, <1>6 DEF Between
<1>9. \A d \in 1 .. m + (n + 1) :
        \/ \E i \in 1 .. m : g[i] = <<c, d>>
        \/ \E i \in 1 .. n + 1 : v[i] = <<c, d>>
  <2>1. SUFFICES ASSUME NEW d \in 1 .. m + (n + 1)
                 PROVE  \/ \E i \in 1 .. m : g[i] = <<c, d>>
                        \/ \E i \in 1 .. n + 1 : v[i] = <<c, d>>
      OBVIOUS
  <2>2. CASE d \in 1 .. m + n
    <3>1. CASE \E i \in 1 .. m : g[i] = <<c, d>>
        BY <3>1
    <3>2. CASE \E i \in 1 .. n : w[i] = <<c, d>>
      <4>1. PICK i \in 1 .. n : w[i] = <<c, d>>
          BY <3>2
      <4>2. i \in 1 .. n + 1 /\ v[i] = <<c, d>>
          BY <4>1
      <4>. QED
          BY <4>2
    <3>. QED
        BY <2>2, <3>1, <3>2 DEF Between
  <2>3. CASE d = m + n + 1
    <3>1. n + 1 \in 1 .. n + 1 /\ v[n + 1] = <<c, d>>
        BY <2>3
    <3>. QED
        BY <3>1
  <2>. QED
      BY <1>2, <2>2, <2>3
<1>. QED
    BY <1>6, <1>7, <1>8, <1>9 DEF Between

(* Without its k-th element, w is v; with x at its end, g is h.            *)
Drops(v, w, n, k) == \A i \in 1 .. n - 1 : v[i] = IF i < k THEN w[i] ELSE w[i + 1]
Gains(h, g, m, x) == h[m + 1] = x /\ \A i \in 1 .. m : h[i] = g[i]

(* The k-th write may take bytes before those ahead of it are done.        *)
Passes(w, k, P) == \A j \in 1 .. k - 1 : w[j][2] \in P

(* Of what g has, nothing is x, and all before it is there or in P.        *)
Fits(g, m, x, P, c) ==
    /\ \A i \in 1 .. m : g[i] # x
    /\ \A d \in 1 .. x[2] - 1 : d \in P \/ \E j \in 1 .. m : g[j] = <<c, d>>

(* A write is done that only those before it may have had to wait for.     *)
LEMMA BetweenDone ==
    ASSUME NEW c, NEW g, NEW m \in Nat, NEW w, NEW n \in Nat, NEW P,
           Between(g, m, w, n, P, c), NEW k \in 1 .. n,
           Passes(w, k, P),
           NEW v, Drops(v, w, n, k), NEW h, Gains(h, g, m, w[k])
    PROVE  Between(h, m + 1, v, n - 1, P, c) /\ Fits(g, m, w[k], P, c)
<1>. USE DEF Drops, Gains, Passes
<1>0. (m + 1) + (n - 1) = m + n
    OBVIOUS
<1>1. \A i \in 1 .. m + 1 : i \in 1 .. m \/ i = m + 1
    OBVIOUS
<1>2. PICK x : x = w[k]
    OBVIOUS
<1>3. /\ \A i \in 1 .. n : w[i] = <<c, w[i][2]>> /\ w[i][2] \in 1 .. m + n
      /\ \A i \in 1 .. m : g[i] = <<c, g[i][2]>> /\ g[i][2] \in 1 .. m + n
    BY DEF Between, IsChunk
<1>4. ASSUME NEW i \in 1 .. n - 1
      PROVE  \E j \in 1 .. n :
               v[i] = w[j] /\ j # k /\ j = IF i < k THEN i ELSE i + 1
  <2>1. CASE i < k
    <3>1. i \in 1 .. n /\ v[i] = w[i] /\ i # k
        BY <2>1
    <3>. QED
        BY <2>1, <3>1
  <2>2. CASE ~(i < k)
    <3>1. i + 1 \in 1 .. n /\ v[i] = w[i + 1] /\ i + 1 # k
        BY <2>2
    <3>. QED
        BY <2>2, <3>1
  <2>. QED
      BY <2>1, <2>2
<1>5. /\ \A i \in 1 .. m + 1 : IsChunk(h[i], c, m + n)
      /\ \A i \in 1 .. n - 1 : IsChunk(v[i], c, m + n)
  <2>1. \A i \in 1 .. m + 1 : IsChunk(h[i], c, m + n)
      BY <1>1 DEF Between
  <2>2. \A i \in 1 .. n - 1 : IsChunk(v[i], c, m + n)
      BY <1>4 DEF Between
  <2>. QED
      BY <2>1, <2>2
<1>6. \A i, j \in 1 .. n - 1 : i < j => v[i][2] < v[j][2]
  <2>1. SUFFICES ASSUME NEW i \in 1 .. n - 1, NEW j \in 1 .. n - 1, i < j
                 PROVE  v[i][2] < v[j][2]
      OBVIOUS
  <2>2. PICK a \in 1 .. n : v[i] = w[a] /\ a = IF i < k THEN i ELSE i + 1
      BY <1>4
  <2>3. PICK b \in 1 .. n : v[j] = w[b] /\ b = IF j < k THEN j ELSE j + 1
      BY <1>4
  <2>4. a < b
      BY <2>1, <2>2, <2>3
  <2>. QED
      BY <2>2, <2>3, <2>4 DEF Between
<1>7. \A j \in 1 .. n - 1 : x[2] < v[j][2] \/ (v[j][2] \in P /\ x # v[j])
  <2>1. SUFFICES ASSUME NEW j \in 1 .. n - 1
                 PROVE  x[2] < v[j][2] \/ (v[j][2] \in P /\ x # v[j])
      OBVIOUS
  <2>2. PICK b \in 1 .. n : v[j] = w[b] /\ b # k
      BY <1>4
  <2>3. CASE k < b
      BY <1>2, <2>2, <2>3 DEF Between
  <2>4. CASE b < k
    <3>1. w[b][2] \in P
      <4>1. b \in 1 .. k - 1
          BY <2>4
      <4>. QED
          BY <4>1
    <3>2. w[b][2] < w[k][2] /\ w[b][2] \in Int /\ w[k][2] \in Int
        BY <1>3, <2>4 DEF Between
    <3>3. w[b] # w[k]
        BY <3>2
    <3>. QED
        BY <1>2, <2>2, <3>1, <3>3
  <2>. QED
      BY <2>2, <2>3, <2>4
<1>8. \A i \in 1 .. m + 1, j \in 1 .. n - 1 :
        h[i][2] < v[j][2] \/ (v[j][2] \in P /\ h[i] # v[j])
  <2>1. SUFFICES ASSUME NEW i \in 1 .. m + 1, NEW j \in 1 .. n - 1
                 PROVE  h[i][2] < v[j][2] \/ (v[j][2] \in P /\ h[i] # v[j])
      OBVIOUS
  <2>2. CASE i \in 1 .. m
    <3>1. PICK b \in 1 .. n : v[j] = w[b]
        BY <1>4
    <3>2. g[i][2] < w[b][2] \/ (w[b][2] \in P /\ g[i] # w[b])
        BY <2>2 DEF Between
    <3>. QED
        BY <2>2, <3>1, <3>2
  <2>3. CASE i = m + 1
      BY <1>2, <1>7, <2>3
  <2>. QED
      BY <1>1, <2>2, <2>3
<1>9. \A d \in 1 .. m + n :
        \/ \E i \in 1 .. m + 1 : h[i] = <<c, d>>
        \/ \E i \in 1 .. n - 1 : v[i] = <<c, d>>
  <2>1. SUFFICES ASSUME NEW d \in 1 .. m + n
                 PROVE  \/ \E i \in 1 .. m + 1 : h[i] = <<c, d>>
                        \/ \E i \in 1 .. n - 1 : v[i] = <<c, d>>
      OBVIOUS
  <2>2. CASE \E i \in 1 .. m : g[i] = <<c, d>>
    <3>1. PICK i \in 1 .. m : g[i] = <<c, d>>
        BY <2>2
    <3>2. i \in 1 .. m + 1 /\ h[i] = <<c, d>>
        BY <3>1
    <3>. QED
        BY <3>2
  <2>3. CASE \E i \in 1 .. n : w[i] = <<c, d>>
    <3>1. PICK i \in 1 .. n : w[i] = <<c, d>>
        BY <2>3
    <3>2. CASE i = k
      <4>1. m + 1 \in 1 .. m + 1 /\ h[m + 1] = <<c, d>>
          BY <3>1, <3>2
      <4>. QED
          BY <4>1
    <3>3. CASE i < k
      <4>1. i \in 1 .. n - 1 /\ v[i] = <<c, d>>
          BY <3>1, <3>3
      <4>. QED
          BY <4>1
    <3>4. CASE k < i
      <4>1. i - 1 \in 1 .. n - 1 /\ ~(i - 1 < k) /\ (i - 1) + 1 = i
          BY <3>4
      <4>2. v[i - 1] = <<c, d>>
          BY <3>1, <4>1
      <4>. QED
          BY <4>1, <4>2
    <3>. QED
        BY <3>2, <3>3, <3>4
  <2>. QED
      BY <2>2, <2>3 DEF Between
<1>10. Between(h, m + 1, v, n - 1, P, c)
    BY <1>0, <1>5, <1>6, <1>8, <1>9 DEF Between
<1>11. \A i \in 1 .. m : g[i] # w[k]
  <2>1. SUFFICES ASSUME NEW i \in 1 .. m PROVE g[i] # w[k]
      OBVIOUS
  <2>2. g[i][2] < w[k][2] \/ g[i] # w[k]
      BY DEF Between
  <2>3. g[i][2] \in Int
      BY <1>3
  <2>. QED
      BY <2>2, <2>3
<1>12. ASSUME NEW d \in 1 .. w[k][2] - 1
       PROVE  d \in P \/ \E j \in 1 .. m : g[j] = <<c, d>>
  <2>1. d \in 1 .. m + n /\ d < w[k][2] /\ w[k][2] \in Int
      BY <1>3
  <2>2. CASE \E j \in 1 .. m : g[j] = <<c, d>>
      BY <2>2
  <2>3. CASE \E i \in 1 .. n : w[i] = <<c, d>>
    <3>1. PICK i \in 1 .. n : w[i] = <<c, d>>
        BY <2>3
    <3>2. w[i][2] = d
        BY <3>1
    <3>3. ~(k < i) /\ i # k
        BY <2>1, <3>2 DEF Between
    <3>4. i \in 1 .. k - 1
        BY <3>3
    <3>. QED
        BY <3>2, <3>4
  <2>. QED
      BY <2>1, <2>2, <2>3 DEF Between
<1>. QED
    BY <1>10, <1>11, <1>12 DEF Fits

(* Waiting is about all of both sequences.                                 *)
LEMMA WaitingIs ==
    ASSUME NEW g, NEW w, NEW P, NEW c
    PROVE  Waiting(g, w, P, c) <=> Between(g, Len(g), w, Len(w), P, c)
BY Zenon DEF Waiting, Between

(* The next chunk's write is begun.                                        *)
LEMMA WaitingPushed ==
    ASSUME NEW c \in Con, NEW g \in Seq(Con \X Nat), NEW w \in Seq(Con \X Nat),
           NEW P, Waiting(g, w, P, c)
    PROVE  Waiting(g, Append(w, <<c, Len(g) + Len(w) + 1>>), P, c)
<1>1. Len(g) \in Nat /\ Len(w) \in Nat
    BY LenProperties
<1>2. PICK e : e = <<c, Len(g) + Len(w) + 1>>
    OBVIOUS
<1>3. PICK v : v = Append(w, e)
    OBVIOUS
<1>4. Len(v) = Len(w) + 1 /\ v[Len(w) + 1] = e /\ \A i \in 1 .. Len(w) : v[i] = w[i]
  <2>1. e \in Con \X Nat
      BY <1>1, <1>2
  <2>. QED
      BY <1>3, <2>1, AppendProperties
<1>5. Between(g, Len(g), w, Len(w), P, c)
    BY WaitingIs
<1>6. Between(g, Len(g), v, Len(w) + 1, P, c)
    BY <1>1, <1>2, <1>4, <1>5, BetweenPushed
<1>. QED
    BY <1>2, <1>3, <1>4, <1>6, WaitingIs

(* A write is done: what it was for is received.                           *)
LEMMA WaitingDone ==
    ASSUME NEW c \in Con, NEW g \in Seq(Con \X Nat), NEW w \in Seq(Con \X Nat),
           NEW P, Waiting(g, w, P, c), NEW k \in 1 .. Len(w), Passes(w, k, P)
    PROVE  /\ Waiting(Append(g, w[k]), RemoveAt(w, k), P, c)
           /\ Len(Append(g, w[k])) + Len(RemoveAt(w, k)) = Len(g) + Len(w)
           /\ \A top \in Nat : Len(g) + Len(w) <= top /\ Delivered(g, P, c, top)
                => Delivered(Append(g, w[k]), P, c, top)
<1>1. PICK m \in Nat : m = Len(g)
    BY LenProperties
<1>2. PICK n \in Nat : n = Len(w)
    BY LenProperties
<1>3. PICK v : v = RemoveAt(w, k)
    OBVIOUS
<1>4. PICK h : h = Append(g, w[k])
    OBVIOUS
<1>5. /\ Len(v) = n - 1
      /\ \A i \in 1 .. n - 1 : v[i] = IF i < k THEN w[i] ELSE w[i + 1]
    BY <1>2, <1>3, Removed
<1>6. Len(h) = m + 1 /\ h[m + 1] = w[k] /\ \A i \in 1 .. m : h[i] = g[i]
  <2>1. w[k] \in Con \X Nat
      BY ElementOfSeq
  <2>. QED
      BY <1>1, <1>4, <2>1, AppendProperties
<1>7. Between(g, m, w, n, P, c) /\ k \in 1 .. n
    BY <1>1, <1>2, WaitingIs
<1>8. /\ Between(h, m + 1, v, n - 1, P, c)
      /\ \A i \in 1 .. m : g[i] # w[k]
      /\ \A d \in 1 .. w[k][2] - 1 :
           d \in P \/ \E j \in 1 .. m : g[j] = <<c, d>>
  <2>1. Drops(v, w, n, k) /\ Gains(h, g, m, w[k]) /\ Passes(w, k, P)
      BY <1>5, <1>6 DEF Drops, Gains
  <2>2. Between(h, m + 1, v, n - 1, P, c) /\ Fits(g, m, w[k], P, c)
      BY <1>7, <2>1, BetweenDone, Zenon
  <2>. QED
      BY <2>2 DEF Fits
<1>9. Waiting(h, v, P, c) /\ Len(h) + Len(v) = m + n
  <2>1. (m + 1) + (n - 1) = m + n
      OBVIOUS
  <2>. QED
      BY <1>5, <1>6, <1>8, <2>1, WaitingIs
<1>10. ASSUME NEW top \in Nat, m + n <= top, Delivered(g, P, c, top)
       PROVE  Delivered(h, P, c, top)
  <2>1. IsChunk(w[k], c, top)
    <3>1. IsChunk(w[k], c, m + n)
        BY <1>7 DEF Between
    <3>2. \A x : IsChunk(x, c, m + n) => IsChunk(x, c, top)
        BY <1>10 DEF IsChunk
    <3>. QED
        BY <3>1, <3>2
  <2>2. ASSUME NEW i \in 1 .. m + 1
        PROVE  /\ IsChunk(h[i], c, top)
               /\ \A j \in 1 .. i - 1 : h[j] # h[i]
               /\ \A d \in 1 .. h[i][2] - 1 :
                    d \in P \/ \E j \in 1 .. i - 1 : h[j] = <<c, d>>
    <3>1. CASE i = m + 1
      <4>1. h[i] = w[k] /\ i - 1 = m
          BY <1>6, <3>1
      <4>2. \A j \in 1 .. i - 1 : j \in 1 .. m /\ h[j] = g[j]
          BY <1>6, <4>1
      <4>3. \A j \in 1 .. i - 1 : h[j] # h[i]
          BY <1>8, <4>1, <4>2
      <4>4. \A d \in 1 .. h[i][2] - 1 :
              d \in P \/ \E j \in 1 .. i - 1 : h[j] = <<c, d>>
        <5>1. \A j \in 1 .. m : j \in 1 .. i - 1 /\ h[j] = g[j]
            BY <1>6, <4>1
        <5>2. \A d \in 1 .. h[i][2] - 1 :
                d \in P \/ \E j \in 1 .. m : g[j] = <<c, d>>
            BY <1>8, <4>1
        <5>. QED
            BY <5>1, <5>2, Zenon
      <4>. QED
          BY <2>1, <4>1, <4>3, <4>4
    <3>2. CASE i \in 1 .. m
      <4>1. /\ IsChunk(g[i], c, top)
            /\ \A j \in 1 .. i - 1 : g[j] # g[i]
            /\ \A d \in 1 .. g[i][2] - 1 :
                 d \in P \/ \E j \in 1 .. i - 1 : g[j] = <<c, d>>
          BY <1>1, <1>10, <3>2, Zenon DEF Delivered
      <4>2. h[i] = g[i] /\ \A j \in 1 .. i - 1 : j \in 1 .. m /\ h[j] = g[j]
          BY <1>6, <3>2
      <4>. QED
          BY <4>1, <4>2, Zenon
    <3>3. i \in 1 .. m \/ i = m + 1
        OBVIOUS
    <3>. QED
        BY <3>1, <3>2, <3>3, Zenon
  <2>. QED
      BY <1>6, <2>2 DEF Delivered
<1>. QED
    BY <1>1, <1>2, <1>3, <1>4, <1>9, <1>10

(* Nothing is in the empty sequence.                                       *)
LEMMA NothingIn ==
    ASSUME NEW w, w = << >>
    PROVE  /\ \A S : None(w, S) /\ Single(w, S)
           /\ \A A, B : Ends(w, A, B) /\ Leads(w, A, B)
<1>1. Len(w) = 0
    OBVIOUS
<1>. QED
    BY <1>1 DEF None, Single, Ends, Leads

(* A sequence that loses its head.                                         *)
LEMMA Popped ==
    ASSUME NEW T, NEW w \in Seq(T), w # << >>,
           NEW v, v = Tail(w), NEW x, x = Head(w)
    PROVE  v \in Seq(T) /\ x \in T /\ Pops(v, w, x)
<1>1. /\ v \in Seq(T) /\ x \in T
      /\ Len(w) \in Nat /\ Len(w) # 0 /\ Len(v) = Len(w) - 1
      /\ \A i \in 1 .. Len(v) : v[i] = w[i + 1]
    BY HeadTailProperties, EmptySeq, LenProperties
<1>2. x = w[1]
    BY <1>1
<1>3. /\ \A i \in 1 .. Len(v) : i + 1 \in 1 .. Len(w) /\ i + 1 # 1 /\ 1 < i + 1
      /\ \A i \in 1 .. Len(w) : i # 1 => i - 1 \in 1 .. Len(v) /\ w[i] = v[i - 1]
      /\ 1 \in 1 .. Len(w)
      /\ \A i, j \in 1 .. Len(v) : i < j <=> i + 1 < j + 1
      /\ \A i, j \in 1 .. Len(v) : i + 1 = j + 1 => i = j
    BY <1>1
<1>4. ASSUME NEW S
      PROVE  /\ None(w, S) <=> x \notin S /\ None(v, S)
             /\ Single(w, S) => Single(v, S)
             /\ Single(w, S) /\ x \in S => None(v, S)
    <2>1. None(w, S) <=> x \notin S /\ None(v, S)
        BY <1>1, <1>2, <1>3 DEF None
    <2>2. Single(w, S) => Single(v, S)
        BY <1>1, <1>3 DEF Single
    <2>3. Single(w, S) /\ x \in S => None(v, S)
        BY <1>1, <1>2, <1>3 DEF Single, None
    <2>. QED
        BY <2>1, <2>2, <2>3
<1>5. ASSUME NEW A, NEW B
      PROVE  /\ Ends(w, A, B) => Ends(v, A, B)
             /\ Ends(w, A, B) /\ x \in A => None(v, B)
             /\ Leads(w, A, B) => x \notin B
             /\ Leads(w, A, B) /\ x \notin A => Leads(v, A, B)
             /\ None(v, B) => Leads(v, A, B)
    <2>1. Ends(w, A, B) => Ends(v, A, B)
        BY <1>1, <1>3 DEF Ends
    <2>2. Ends(w, A, B) /\ x \in A => None(v, B)
        BY <1>1, <1>2, <1>3 DEF Ends, None
    <2>3. Leads(w, A, B) => x \notin B
        BY <1>2, <1>3 DEF Leads
    <2>4. ASSUME Leads(w, A, B), x \notin A, NEW j \in 1 .. Len(v), v[j] \in B
          PROVE  \E i \in 1 .. Len(v) : i < j /\ v[i] \in A
        <3>1. w[j + 1] \in B /\ j + 1 \in 1 .. Len(w)
            BY <1>1, <1>3, <2>4
        <3>2. PICK i \in 1 .. Len(w) : i < j + 1 /\ w[i] \in A
            BY <2>4, <3>1 DEF Leads
        <3>3. i # 1
            BY <1>2, <2>4, <3>2
        <3>4. i - 1 \in 1 .. Len(v) /\ v[i - 1] \in A /\ i - 1 < j
            BY <1>1, <1>3, <3>2, <3>3
        <3>. QED
            BY <3>4
    <2>5. None(v, B) => Leads(v, A, B)
        BY DEF None, Leads
    <2>. QED
        BY <2>1, <2>2, <2>3, <2>4, <2>5 DEF Leads
<1>. QED
    BY <1>1, <1>4, <1>5 DEF Pops

(* A sequence that gets one more.                                          *)
LEMMA Pushed ==
    ASSUME NEW T, NEW w \in Seq(T), NEW x \in T, NEW v, v = Append(w, x)
    PROVE  v \in Seq(T) /\ v # << >> /\ Pushes(v, w, x)
<1>1. /\ v \in Seq(T) /\ v # << >>
      /\ Len(w) \in Nat /\ Len(v) = Len(w) + 1
      /\ \A i \in 1 .. Len(w) : v[i] = w[i]
      /\ v[Len(v)] = x
    BY AppendProperties, LenProperties
<1>2. /\ \A i \in 1 .. Len(w) : i \in 1 .. Len(v) /\ i # Len(v) /\ i < Len(v)
      /\ \A i \in 1 .. Len(v) : i = Len(v) \/ i \in 1 .. Len(w)
      /\ Len(v) \in 1 .. Len(v)
      /\ \A i \in 1 .. Len(v) : ~(Len(v) < i)
    BY <1>1
<1>3. ASSUME NEW S
      PROVE  /\ None(v, S) <=> x \notin S /\ None(w, S)
             /\ Single(w, S) /\ x \notin S => Single(v, S)
             /\ None(w, S) => Single(v, S)
    BY <1>1, <1>2 DEF None, Single
<1>4. ASSUME NEW A, NEW B
      PROVE  /\ Ends(w, A, B) /\ (x \in B => None(w, A)) => Ends(v, A, B)
             /\ Leads(w, A, B) /\ (x \in B => ~None(w, A)) => Leads(v, A, B)
    <2>1. Ends(w, A, B) /\ (x \in B => None(w, A)) => Ends(v, A, B)
        BY <1>1, <1>2 DEF Ends, None
    <2>2. Leads(w, A, B) /\ (x \in B => ~None(w, A)) => Leads(v, A, B)
        BY <1>1, <1>2 DEF Leads, None
    <2>. QED
        BY <2>1, <2>2
<1>. QED
    BY <1>1, <1>3, <1>4 DEF Pushes

(* Two sequences one after the other.                                      *)
LEMMA Joined ==
    ASSUME NEW T, NEW w \in Seq(T), NEW u \in Seq(T), NEW v, v = w \o u
    PROVE  v \in Seq(T) /\ Joins(v, w, u)
<1>1. /\ v \in Seq(T)
      /\ Len(w) \in Nat /\ Len(u) \in Nat /\ Len(v) = Len(w) + Len(u)
      /\ \A i \in 1 .. Len(v) : v[i] = IF i <= Len(w) THEN w[i] ELSE u[i - Len(w)]
    BY ConcatProperties, LenProperties
<1>2. /\ \A i \in 1 .. Len(w) : i \in 1 .. Len(v) /\ v[i] = w[i]
      /\ \A i \in 1 .. Len(u) : Len(w) + i \in 1 .. Len(v) /\ v[Len(w) + i] = u[i]
      /\ \A i \in 1 .. Len(v) :
            \/ i \in 1 .. Len(w)
            \/ i - Len(w) \in 1 .. Len(u) /\ v[i] = u[i - Len(w)]
      /\ \A i, j \in 1 .. Len(v) : i - Len(w) = j - Len(w) => i = j
    BY <1>1
<1>3. ASSUME NEW S
      PROVE  /\ None(v, S) <=> None(w, S) /\ None(u, S)
             /\ Single(w, S) /\ None(u, S) => Single(v, S)
             /\ None(w, S) /\ Single(u, S) => Single(v, S)
    <2>1. None(v, S) <=> None(w, S) /\ None(u, S)
        BY <1>2 DEF None
    <2>2. Single(w, S) /\ None(u, S) => Single(v, S)
        BY <1>2 DEF None, Single
    <2>3. None(w, S) /\ Single(u, S) => Single(v, S)
        BY <1>2 DEF None, Single
    <2>. QED
        BY <2>1, <2>2, <2>3
<1>. QED
    BY <1>1, <1>3 DEF Joins

(* A sequence of which only a part is left.                                *)
LEMMA Cut ==
    ASSUME NEW T, NEW w \in Seq(T), NEW n \in 0 .. Len(w),
           NEW v, v = SubSeq(w, 1, n)
    PROVE  v \in Seq(T) /\ Cuts(v, w)
<1>1. /\ v \in Seq(T) /\ Len(v) = n /\ n \in Nat
      /\ Len(w) \in Nat /\ n <= Len(w)
      /\ \A i \in 1 .. n : v[i] = w[i]
    <2>1. Len(w) \in Nat /\ n \in Int /\ \A i \in 1 .. n : w[i] \in T
        BY LenProperties, ElementOfSeq
    <2>2. /\ v \in Seq(T) /\ Len(v) = IF 1 <= n THEN n - 1 + 1 ELSE 0
          /\ \A i \in 1 .. n - 1 + 1 : v[i] = w[1 + i - 1]
        BY <2>1, SubSeqProperties
    <2>. QED
        BY <2>1, <2>2
<1>2. \A i \in 1 .. Len(v) : i \in 1 .. Len(w) /\ v[i] = w[i]
    BY <1>1
<1>3. \A i \in 1 .. Len(w), j \in 1 .. Len(v) : i < j => i \in 1 .. Len(v)
    BY <1>1
<1>4. \A S : /\ None(w, S) => None(v, S)
             /\ Single(w, S) => Single(v, S)
    BY <1>2 DEF None, Single
<1>5. \A A, B : Ends(w, A, B) => Ends(v, A, B)
    BY <1>2 DEF Ends
<1>6. \A A, B : Leads(w, A, B) => Leads(v, A, B)
    BY <1>2, <1>3 DEF Leads
<1>. QED
    BY <1>1, <1>4, <1>5, <1>6 DEF Cuts

(* The chunks of a connection stay in order as others leave, as the next   *)
(* one does, as one that follows is sent, and as some are lost.            *)
LEMMA FlowPopped ==
    ASSUME NEW w \in Seq(Sealeds), w # << >>, NEW v, v = Tail(w),
           NEW x, x = Head(w), NEW c, NEW d \in Nat, NEW top \in Nat,
           Flow(w, c, d, top)
    PROVE  /\ x \notin Carries(c) =>
                /\ Flow(v, c, d, top)
                /\ Full(w, c, d, top) => Full(v, c, d, top)
           /\ x \in Carries(c) =>
                /\ x.msg.data = d + 1
                /\ Flow(v, c, d + 1, top)
                /\ Full(w, c, d, top) => Full(v, c, d + 1, top)
<1>1. /\ Len(w) \in Nat /\ Len(w) # 0 /\ Len(v) = Len(w) - 1
      /\ \A i \in 1 .. Len(v) : v[i] = w[i + 1]
    BY HeadTailProperties, EmptySeq, LenProperties
<1>2. x = w[1]
    OBVIOUS
<1>3. /\ \A i \in 1 .. Len(v) : i + 1 \in 1 .. Len(w) /\ i + 1 # 1 /\ 1 < i + 1
      /\ \A i \in 1 .. Len(w) : i # 1 => i - 1 \in 1 .. Len(v) /\ w[i] = v[i - 1]
      /\ 1 \in 1 .. Len(w)
      /\ \A i, j \in 1 .. Len(v) : i < j <=> i + 1 < j + 1
      /\ \A i, j \in 1 .. Len(v) : i + 1 = j + 1 => i = j
      /\ \A j \in 1 .. Len(w) : ~(j < 1)
    BY <1>1
<1>. DEFINE G(i) == w[i] \in Carries(c)
            D(i) == w[i].msg.data
<1>4. /\ d <= top
      /\ \A i \in 1 .. Len(w) : G(i) =>
            /\ d < D(i) /\ D(i) <= top
            /\ \A j \in 1 .. Len(w) : G(j) /\ j < i => D(j) < D(i)
            /\ D(i) # d + 1 =>
                  \E j \in 1 .. Len(w) : G(j) /\ j < i /\ D(j) + 1 = D(i)
    BY DEF Flow
<1>5. \A i \in 1 .. Len(w) : G(i) => D(i) \in Nat
    <2>1. \A i \in 1 .. Len(w) : G(i) => w[i].msg \in Message /\ w[i].msg.id = "forward_write"
        BY DEF Carries, Sealeds
    <2>2. \A m \in Message : m.id = "forward_write" => m.data \in Nat
        BY DEF Message, Hello, CreateServer
    <2>. QED
        BY <2>1, <2>2
<1>6. \A i \in 1 .. Len(v) : /\ v[i] \in Carries(c) <=> G(i + 1)
                             /\ v[i].msg.data = D(i + 1)
    BY <1>1
<1>7. CASE x \notin Carries(c)
    <2>0. ~G(1)
        BY <1>2, <1>7
    <2>. HIDE DEF G, D
    <2>1. ASSUME NEW i \in 1 .. Len(v), G(i + 1)
          PROVE  /\ d < D(i + 1) /\ D(i + 1) <= top
                 /\ \A j \in 1 .. Len(v) : G(j + 1) /\ j < i => D(j + 1) < D(i + 1)
                 /\ D(i + 1) # d + 1 =>
                      \E j \in 1 .. Len(v) : /\ G(j + 1) /\ j < i
                                             /\ D(j + 1) + 1 = D(i + 1)
        <3>1. i + 1 \in 1 .. Len(w)
            BY <1>3
        <3>2. \A j \in 1 .. Len(v) : G(j + 1) /\ j < i => D(j + 1) < D(i + 1)
            BY <3>1, <2>1, <1>3, <1>4
        <3>3. ASSUME D(i + 1) # d + 1
              PROVE  \E j \in 1 .. Len(v) : /\ G(j + 1) /\ j < i
                                            /\ D(j + 1) + 1 = D(i + 1)
            <4>1. PICK j \in 1 .. Len(w) : G(j) /\ j < i + 1 /\ D(j) + 1 = D(i + 1)
                BY <3>1, <2>1, <3>3, <1>4
            <4>2. j # 1 /\ j - 1 \in 1 .. Len(v) /\ j - 1 < i /\ (j - 1) + 1 = j
                BY <2>0, <4>1, <1>3
            <4>. QED
                BY <4>1, <4>2
        <3>. QED
            BY <3>1, <3>2, <3>3, <2>1, <1>4
    <2>2. Flow(v, c, d, top)
        BY <1>4, <1>6, <2>1 DEF Flow
    <2>3. ASSUME Full(w, c, d, top), d # top
          PROVE  \E i \in 1 .. Len(v) : G(i + 1) /\ D(i + 1) = top
        <3>1. PICK i \in 1 .. Len(w) : G(i) /\ D(i) = top
            BY <2>3 DEF Full, G, D
        <3>2. i # 1 /\ i - 1 \in 1 .. Len(v) /\ (i - 1) + 1 = i
            BY <2>0, <3>1, <1>3
        <3>. QED
            BY <3>1, <3>2
    <2>4. Full(w, c, d, top) => Full(v, c, d, top)
        BY <1>6, <2>3 DEF Full
    <2>. QED
        BY <1>7, <2>2, <2>4
<1>8. CASE x \in Carries(c)
    <2>0. G(1) /\ x.msg.data = D(1)
        BY <1>2, <1>8
    <2>. HIDE DEF G, D
    <2>1. D(1) = d + 1
        BY <2>0, <1>3, <1>4
    <2>2. d + 1 <= top
        BY <2>0, <2>1, <1>3, <1>4
    <2>3. ASSUME NEW i \in 1 .. Len(v), G(i + 1)
          PROVE  /\ d + 1 < D(i + 1) /\ D(i + 1) <= top
                 /\ \A j \in 1 .. Len(v) : G(j + 1) /\ j < i => D(j + 1) < D(i + 1)
                 /\ D(i + 1) # (d + 1) + 1 =>
                      \E j \in 1 .. Len(v) : /\ G(j + 1) /\ j < i
                                             /\ D(j + 1) + 1 = D(i + 1)
        <3>1. i + 1 \in 1 .. Len(w) /\ 1 < i + 1
            BY <1>3
        <3>2. \A j \in 1 .. Len(v) : G(j + 1) /\ j < i => D(j + 1) < D(i + 1)
            BY <3>1, <2>3, <1>3, <1>4
        <3>3. D(1) < D(i + 1)
            BY <3>1, <2>0, <2>3, <1>3, <1>4
        <3>4. ASSUME D(i + 1) # (d + 1) + 1
              PROVE  \E j \in 1 .. Len(v) : /\ G(j + 1) /\ j < i
                                            /\ D(j + 1) + 1 = D(i + 1)
            <4>0. D(i + 1) # d + 1
                BY <2>1, <3>1, <3>3, <1>3, <1>5, <2>0, <2>3
            <4>1. PICK j \in 1 .. Len(w) : G(j) /\ j < i + 1 /\ D(j) + 1 = D(i + 1)
                BY <3>1, <2>3, <4>0, <1>4
            <4>2. j # 1
                BY <2>1, <3>4, <4>1
            <4>3. j - 1 \in 1 .. Len(v) /\ j - 1 < i /\ (j - 1) + 1 = j
                BY <4>1, <4>2, <1>3
            <4>. QED
                BY <4>1, <4>3
        <3>. QED
            BY <3>1, <3>2, <3>3, <3>4, <2>1, <2>3, <1>4
    <2>4. Flow(v, c, d + 1, top)
        BY <2>2, <1>6, <2>3 DEF Flow
    <2>5. ASSUME Full(w, c, d, top), d + 1 # top
          PROVE  \E i \in 1 .. Len(v) : G(i + 1) /\ D(i + 1) = top
        <3>1. PICK i \in 1 .. Len(w) : G(i) /\ D(i) = top
            BY <2>2, <2>5 DEF Full, G, D
        <3>2. i # 1 /\ i - 1 \in 1 .. Len(v) /\ (i - 1) + 1 = i
            BY <2>1, <2>5, <3>1, <1>3
        <3>. QED
            BY <3>1, <3>2
    <2>6. Full(w, c, d, top) => Full(v, c, d + 1, top)
        BY <1>6, <2>5 DEF Full
    <2>. QED
        BY <1>8, <2>0, <2>1, <2>4, <2>6
<1>. QED
    BY <1>7, <1>8

(* Something else is sent, or the chunk after the last.                    *)
LEMMA FlowPushed ==
    ASSUME NEW w \in Seq(Sealeds), NEW x \in Sealeds, NEW v, v = Append(w, x),
           NEW c, NEW d \in Nat, NEW top \in Nat, Flow(w, c, d, top)
    PROVE  /\ x \notin Carries(c) =>
                /\ Flow(v, c, d, top)
                /\ Full(w, c, d, top) => Full(v, c, d, top)
           /\ x \in Carries(c) /\ x.msg.data = top + 1 /\ Full(w, c, d, top) =>
                Flow(v, c, d, top + 1) /\ Full(v, c, d, top + 1)
<1>1. /\ Len(w) \in Nat /\ Len(v) = Len(w) + 1
      /\ \A i \in 1 .. Len(w) : v[i] = w[i]
      /\ v[Len(v)] = x
    BY AppendProperties, LenProperties
<1>2. /\ \A i \in 1 .. Len(w) : i \in 1 .. Len(v) /\ i # Len(v) /\ i < Len(v)
      /\ \A i \in 1 .. Len(v) : i = Len(v) \/ i \in 1 .. Len(w)
      /\ Len(v) \in 1 .. Len(v)
      /\ \A i \in 1 .. Len(v) : ~(Len(v) < i)
    BY <1>1
<1>. DEFINE G(i) == v[i] \in Carries(c)
            D(i) == v[i].msg.data
<1>3. \A i \in 1 .. Len(w) : /\ w[i] \in Carries(c) <=> G(i)
                             /\ w[i].msg.data = D(i)
    BY <1>1
<1>4. /\ d <= top
      /\ \A i \in 1 .. Len(w) : G(i) =>
            /\ d < D(i) /\ D(i) <= top
            /\ \A j \in 1 .. Len(w) : G(j) /\ j < i => D(j) < D(i)
            /\ D(i) # d + 1 =>
                  \E j \in 1 .. Len(w) : G(j) /\ j < i /\ D(j) + 1 = D(i)
    <2>. HIDE DEF G, D
    <2>. QED
        BY <1>3 DEF Flow
<1>5. Full(w, c, d, top) =>
        (d # top => \E i \in 1 .. Len(w) : G(i) /\ D(i) = top)
    <2>. HIDE DEF G, D
    <2>. QED
        BY <1>3 DEF Full
<1>6. ASSUME x \notin Carries(c)
      PROVE  /\ Flow(v, c, d, top)
             /\ Full(w, c, d, top) => Full(v, c, d, top)
    <2>1. ~G(Len(v))
        BY <1>1, <1>6
    <2>. HIDE DEF G, D
    <2>2. \A i \in 1 .. Len(v) : G(i) =>
            /\ d < D(i) /\ D(i) <= top
            /\ \A j \in 1 .. Len(v) : G(j) /\ j < i => D(j) < D(i)
            /\ D(i) # d + 1 =>
                  \E j \in 1 .. Len(v) : G(j) /\ j < i /\ D(j) + 1 = D(i)
        BY <2>1, <1>2, <1>4
    <2>3. Flow(v, c, d, top)
        BY <2>2, <1>4 DEF Flow, G, D
    <2>4. Full(w, c, d, top) => Full(v, c, d, top)
        BY <1>2, <1>5 DEF Full, G, D
    <2>. QED
        BY <2>3, <2>4
<1>7. ASSUME x \in Carries(c), x.msg.data = top + 1, Full(w, c, d, top)
      PROVE  Flow(v, c, d, top + 1) /\ Full(v, c, d, top + 1)
    <2>1. G(Len(v)) /\ D(Len(v)) = top + 1
        BY <1>1, <1>7
    <2>. HIDE DEF G, D
    <2>2. d <= top + 1
        BY <1>4
    <2>3. ASSUME NEW i \in 1 .. Len(v), G(i)
          PROVE  /\ d < D(i) /\ D(i) <= top + 1
                 /\ \A j \in 1 .. Len(v) : G(j) /\ j < i => D(j) < D(i)
                 /\ D(i) # d + 1 =>
                      \E j \in 1 .. Len(v) : G(j) /\ j < i /\ D(j) + 1 = D(i)
        <3>0. \A j \in 1 .. Len(w) : G(j) => D(j) \in Nat
            <4>1. \A j \in 1 .. Len(w) :
                    w[j] \in Carries(c) => w[j].msg \in Message /\ w[j].msg.id = "forward_write"
                BY DEF Carries, Sealeds
            <4>2. \A m \in Message : m.id = "forward_write" => m.data \in Nat
                BY DEF Message, Hello, CreateServer
            <4>. QED
                BY <4>1, <4>2, <1>3
        <3>1. CASE i \in 1 .. Len(w)
            <4>1. d < D(i) /\ D(i) <= top + 1
                BY <3>0, <3>1, <2>3, <1>4
            <4>2. \A j \in 1 .. Len(v) : G(j) /\ j < i => D(j) < D(i)
                BY <3>1, <2>3, <1>2, <1>4
            <4>3. D(i) # d + 1 =>
                    \E j \in 1 .. Len(v) : G(j) /\ j < i /\ D(j) + 1 = D(i)
                BY <3>1, <2>3, <1>2, <1>4
            <4>. QED
                BY <4>1, <4>2, <4>3
        <3>2. CASE i = Len(v)
            <4>1. D(i) = top + 1
                BY <2>1, <3>2
            <4>2. \A j \in 1 .. Len(v) : G(j) /\ j < i => D(j) < D(i)
                BY <3>0, <3>2, <4>1, <1>2, <1>4
            <4>3. ASSUME D(i) # d + 1
                  PROVE  \E j \in 1 .. Len(v) : G(j) /\ j < i /\ D(j) + 1 = D(i)
                <5>1. PICK j \in 1 .. Len(w) : G(j) /\ D(j) = top
                    BY <4>1, <4>3, <1>5, <1>7
                <5>. QED
                    BY <5>1, <4>1, <3>2, <1>2
            <4>. QED
                BY <4>1, <4>2, <4>3, <1>4
        <3>. QED
            BY <3>1, <3>2, <1>2
    <2>4. Flow(v, c, d, top + 1)
        BY <2>2, <2>3 DEF Flow, G, D
    <2>5. Full(v, c, d, top + 1)
        BY <2>1, <1>2 DEF Full, G, D
    <2>. QED
        BY <2>4, <2>5
<1>. QED
    BY <1>6, <1>7

(* Of the chunks a part is left, or one more may be forwarded.             *)
LEMMA FlowCut ==
    ASSUME NEW w \in Seq(Sealeds), NEW n \in 0 .. Len(w),
           NEW v, v = SubSeq(w, 1, n),
           NEW c, NEW d \in Nat, NEW top \in Nat, Flow(w, c, d, top)
    PROVE  Flow(v, c, d, top)
<1>1. Len(v) = n /\ n \in Nat /\ n <= Len(w) /\ Len(w) \in Nat
      /\ \A i \in 1 .. n : v[i] = w[i]
    <2>1. Len(w) \in Nat /\ n \in Int /\ \A i \in 1 .. n : w[i] \in Sealeds
        BY LenProperties, ElementOfSeq
    <2>2. /\ Len(v) = IF 1 <= n THEN n - 1 + 1 ELSE 0
          /\ \A i \in 1 .. n - 1 + 1 : v[i] = w[1 + i - 1]
        BY <2>1, SubSeqProperties
    <2>. QED
        BY <2>1, <2>2
<1>2. /\ \A i \in 1 .. Len(v) : i \in 1 .. Len(w) /\ v[i] = w[i]
      /\ \A i \in 1 .. Len(v), j \in 1 .. Len(w) : j < i => j \in 1 .. Len(v)
    BY <1>1
<1>. QED
    BY <1>2 DEF Flow

(* One more may be forwarded.                                              *)
LEMMA FlowMore ==
    ASSUME NEW w \in Seq(Sealeds), NEW c, NEW d \in Nat, NEW top \in Nat,
           Flow(w, c, d, top)
    PROVE  Flow(w, c, d, top + 1)
<1>1. \A j \in 1 .. Len(w) : w[j] \in Carries(c) => w[j].msg.data \in Nat
    <2>1. \A j \in 1 .. Len(w) :
            w[j] \in Carries(c) => w[j].msg \in Message /\ w[j].msg.id = "forward_write"
        BY DEF Carries, Sealeds
    <2>2. \A m \in Message : m.id = "forward_write" => m.data \in Nat
        BY DEF Message, Hello, CreateServer
    <2>. QED
        BY <2>1, <2>2
<1>2. \A n \in Nat : n <= top => n <= top + 1
    OBVIOUS
<1>3. ASSUME NEW i \in 1 .. Len(w), w[i] \in Carries(c)
      PROVE  w[i].msg.data <= top + 1
    BY <1>1, <1>2, <1>3 DEF Flow
<1>. QED
    BY <1>2, <1>3 DEF Flow

-----------------------------------------------------------------------------
(* A set of numbers that is not empty has a least one.                     *)
LEMMA LeastOf ==
    ASSUME NEW N \in SUBSET Nat, N # {}
    PROVE  \E m \in N : \A k \in N : ~(k < m)
<1>. DEFINE less == OpToRel(<, Nat)
<1>1. IsWellFoundedOn(less, Nat)
    BY NatLessThanWellFounded
<1>2. \A x, y \in Nat : x < y => <<x, y>> \in less
    BY DEF OpToRel
<1>. HIDE DEF less
<1>3. \E m \in N : \A k \in N : <<k, m>> \notin less
    BY <1>1, WFMin
<1>. QED
    BY <1>2, <1>3

(* FlattenSeq puts together what the sequences have.                       *)
LEMMA FlattenIs ==
    ASSUME NEW T, NEW n \in Nat, NEW f \in [1 .. n -> Seq(T)]
    PROVE  FlattenSeq(f) \in Seq(T)
<1>. DEFINE Step(g, i) == IF i = 1 THEN f[i] ELSE g[i - 1] \o f[i]
            flatten[i \in 1 .. Len(f)] ==
                IF i = 1 THEN f[i] ELSE flatten[i - 1] \o f[i]
            Has(m) == \E g : g = [i \in 1 .. m |-> Step(g, i)]
<1>1. Len(f) = n
    OBVIOUS
<1>2. CASE n = 0
    <2>1. f = << >>
        BY <1>2
    <2>2. FlattenSeq(f) = f
        BY <1>1, <1>2 DEF FlattenSeq
    <2>3. << >> \in Seq(T)
        OBVIOUS
    <2>. HIDE DEF flatten
    <2>. QED
        BY <2>1, <2>2, <2>3, Zenon
<1>3. CASE n # 0
    <2>1. FlattenSeq(f) = flatten[n]
        BY <1>1, <1>3 DEF FlattenSeq
    <2>2. Has(0)
        <3>1. \A g : [i \in 1 .. 0 |-> Step(g, i)] = << >>
            OBVIOUS
        <3>. QED
            BY <3>1
    <2>3. ASSUME NEW m \in Nat, Has(m)
          PROVE  Has(m + 1)
        <3>1. PICK g : g = [i \in 1 .. m |-> Step(g, i)]
            BY <2>3
        <3>. DEFINE h == [i \in 1 .. m + 1 |-> Step(g, i)]
        <3>2. ASSUME NEW i \in 1 .. m + 1
              PROVE  h[i] = Step(h, i)
            <4>1. h[i] = Step(g, i)
                OBVIOUS
            <4>2. CASE i = 1
                BY <4>1, <4>2
            <4>3. CASE i # 1
                <5>1. i - 1 \in 1 .. m /\ i - 1 \in 1 .. m + 1
                    BY <4>3
                <5>2. h[i - 1] = Step(g, i - 1)
                    BY <5>1
                <5>3. g[i - 1] = Step(g, i - 1)
                    <6>. HIDE DEF Step
                    <6>. QED
                        BY <3>1, <5>1
                <5>4. h[i - 1] = g[i - 1]
                    BY <5>2, <5>3
                <5>. HIDE DEF h
                <5>. QED
                    BY <4>1, <4>3, <5>4
            <4>. QED
                BY <4>2, <4>3
        <3>3. h = [i \in 1 .. m + 1 |-> Step(h, i)]
            <4>1. h = [i \in 1 .. m + 1 |-> h[i]]
                OBVIOUS
            <4>. HIDE DEF Step, h
            <4>. QED
                BY <3>2, <4>1
        <3>. HIDE DEF h, Step
        <3>. QED
            BY <3>3
    <2>4. Has(n)
        <3>. HIDE DEF Has
        <3>. SUFFICES ASSUME ~Has(n) PROVE FALSE
            OBVIOUS
        <3>1. {m \in Nat : ~Has(m)} \in SUBSET Nat /\ {m \in Nat : ~Has(m)} # {}
            OBVIOUS
        <3>2. PICK m \in {k \in Nat : ~Has(k)} :
                        \A k \in {j \in Nat : ~Has(j)} : ~(k < m)
            BY <3>1, LeastOf
        <3>3. m # 0 /\ m - 1 \in Nat /\ (m - 1) + 1 = m /\ m - 1 < m
            BY <2>2, <3>2
        <3>4. Has(m - 1)
            BY <3>2, <3>3
        <3>5. Has((m - 1) + 1)
            BY <2>3, <3>3, <3>4
        <3>. QED
            BY <3>2, <3>3, <3>5
    <2>5. flatten = [i \in 1 .. n |-> Step(flatten, i)]
        <3>1. \E g : g = [i \in 1 .. n |-> Step(g, i)]
            BY <2>4
        <3>. HIDE DEF Step
        <3>2. (CHOOSE g : g = [i \in 1 .. n |-> Step(g, i)]) =
                [i \in 1 .. n |->
                    Step(CHOOSE g : g = [j \in 1 .. n |-> Step(g, j)], i)]
            BY <3>1
        <3>. USE DEF Step
        <3>3. flatten = CHOOSE g : g = [i \in 1 .. n |-> Step(g, i)]
            BY <1>1
        <3>. HIDE DEF Step, flatten
        <3>. QED
            BY <3>2, <3>3
    <2>6. \A i \in 1 .. n : flatten[i] = Step(flatten, i)
        <3>. HIDE DEF Step, flatten
        <3>. QED
            BY <2>5
    <2>. HIDE DEF flatten
    <2>7. ASSUME flatten[n] \notin Seq(T)
          PROVE  FALSE
        <3>. DEFINE N == {k \in 1 .. n : flatten[k] \notin Seq(T)}
        <3>1. N \in SUBSET Nat /\ n \in N
            BY <1>3, <2>7
        <3>. HIDE DEF N
        <3>2. PICK m \in N : \A k \in N : ~(k < m)
            BY <3>1, LeastOf
        <3>. USE DEF N, Step
        <3>3. CASE m = 1
            BY <2>6, <3>2, <3>3
        <3>4. CASE m # 1
            <4>1. m - 1 \in 1 .. n /\ m - 1 < m
                BY <3>2, <3>4
            <4>2. flatten[m - 1] \in Seq(T)
                BY <3>2, <4>1
            <4>3. flatten[m] = flatten[m - 1] \o f[m]
                BY <2>6, <3>2, <3>4
            <4>4. f[m] \in Seq(T)
                BY <3>2
            <4>. QED
                BY <3>2, <4>2, <4>3, <4>4, ConcatProperties
        <3>. QED
            BY <3>3, <3>4
    <2>. QED
        BY <1>3, <2>1, <2>7
<1>. QED
    BY <1>2, <1>3

-----------------------------------------------------------------------------
(* The two sides.                                                          *)
LEMMA PeerIs ==
    /\ Peer("relay") = "home" /\ Peer("home") = "relay"
    /\ \A s \in Side : /\ Peer(s) \in Side /\ Peer(s) # s /\ Peer(Peer(s)) = s
                       /\ \A t \in Side : t = s \/ t = Peer(s)
<1>1. Side = {"relay", "home"}
    BY DEF Side
<1>2. \A t \in Side : t # "relay" <=> t = "home"
    BY <1>1
<1>3. Peer("relay") = "home"
    BY <1>1, <1>2 DEF Peer
<1>4. \A t \in Side : t # "home" <=> t = "relay"
    BY <1>1
<1>5. Peer("home") = "relay"
    BY <1>1, <1>4 DEF Peer
<1>. QED
    BY <1>1, <1>3, <1>5

(* Which sets a handler is in.                                             *)
LEMMA HandlerIn ==
    ASSUME NEW h \in Handlers
    PROVE  /\ h.kind \in {"control", "accept", "read", "write"} /\ h.ok \in BOOLEAN
           /\ h.kind \in {"read", "write"} => h.con \in Con
           /\ h.kind = "accept" /\ h.ok => h.con \in Con
           /\ h.kind = "control" => h.ok
           /\ h \in Controls <=> h.kind = "control"
           /\ h \in Accepts <=> h.kind = "accept" /\ h.ok
           /\ \A c : /\ h \in AcceptsOf(c) <=> h.kind = "accept" /\ h.ok /\ h.con = c
                     /\ h \in Reads(c) <=> h.kind = "read" /\ h.con = c
                     /\ h \in HasRead(c) <=> h.kind = "read" /\ h.con = c /\ h.ok
                     /\ h \in Writes(c) <=> h.kind = "write" /\ h.con = c
<1>1. /\ h.kind \in {"control", "accept", "read", "write"} /\ h.ok \in BOOLEAN
      /\ h.kind \in {"read", "write"} => h.con \in Con
      /\ h.kind = "accept" /\ h.ok => h.con \in Con
      /\ h.kind = "control" => h.ok
    BY DEF Handlers
<1>2. /\ h \in Controls <=> h.kind = "control"
      /\ h \in Accepts <=> h.kind = "accept" /\ h.ok
    BY DEF Controls, Accepts
<1>3. \A c : /\ h \in AcceptsOf(c) <=> h.kind = "accept" /\ h.ok /\ h.con = c
             /\ h \in Reads(c) <=> h.kind = "read" /\ h.con = c
             /\ h \in HasRead(c) <=> h.kind = "read" /\ h.con = c /\ h.ok
             /\ h \in Writes(c) <=> h.kind = "write" /\ h.con = c
    BY DEF Accepts, AcceptsOf, Reads, HasRead, Writes
<1>. QED
    BY <1>1, <1>2, <1>3

(* The handlers that the actions post.                                     *)
LEMMA HandlerIs ==
    /\ \A k, c : \A ok \in BOOLEAN :
        /\ Handler(k, c, ok).kind = k /\ Handler(k, c, ok).con = c
        /\ Handler(k, c, ok).ok <=> ok
    /\ Handler("control", 0, TRUE) \in Handlers
    /\ Handler("accept", 0, FALSE) \in Handlers
    /\ \A c \in Con : /\ Handler("accept", c, TRUE) \in Handlers
                      /\ Handler("read", c, TRUE) \in Handlers
                      /\ Handler("read", c, FALSE) \in Handlers
                      /\ Handler("write", c, FALSE) \in Handlers
<1>1. \A k, c : \A ok \in BOOLEAN :
        /\ Handler(k, c, ok).kind = k /\ Handler(k, c, ok).con = c
        /\ Handler(k, c, ok).ok <=> ok
    BY DEF Handler
<1>2. /\ Handler("control", 0, TRUE) \in Handlers
      /\ Handler("accept", 0, FALSE) \in Handlers
    BY DEF Handler, Handlers
<1>3. \A c \in Con : /\ Handler("accept", c, TRUE) \in Handlers
                     /\ Handler("read", c, TRUE) \in Handlers
                     /\ Handler("read", c, FALSE) \in Handlers
                     /\ Handler("write", c, FALSE) \in Handlers
    BY DEF Handler, Handlers
<1>. QED
    BY <1>1, <1>2, <1>3

(* What a message has, and which sets it is in.                            *)
LEMMA MessageIs ==
    ASSUME NEW x \in Sealeds
    PROVE  /\ x.msg \in Message /\ x.enc \in BOOLEAN
           /\ x.msg.id \in {"create_connection", "connection_status", "forward_write"} =>
                x.msg.con \in Con
           /\ x.msg.id = "forward_write" => x.msg.data \in Nat
           /\ x \in Early <=>
                ~x.enc \/ x.msg.id = "init_diffie_hellman" \/ x.msg.id = "create_server"
           /\ \A c : /\ x \in Creates(c) <=>
                          x.msg.id = "create_connection" /\ x.msg.con = c
                     /\ x \in Closes(c) <=>
                          x.msg.id = "connection_status" /\ x.msg.con = c
                     /\ x \in Carries(c) <=>
                          x.msg.id = "forward_write" /\ x.msg.con = c
                     /\ x \in About(c) <=> x \in Closes(c) \/ x \in Carries(c)
<1>1. x.msg \in Message /\ x.enc \in BOOLEAN
    BY DEF Sealeds
<1>2. \A m \in Message :
        /\ m.id \in {"create_connection", "connection_status", "forward_write"} =>
             m.con \in Con
        /\ m.id = "forward_write" => m.data \in Nat
    BY DEF Message, Hello, CreateServer
<1>3. x \in Early <=>
        ~x.enc \/ x.msg.id = "init_diffie_hellman" \/ x.msg.id = "create_server"
    BY DEF Early, Hello, CreateServer
<1>4. \A c : /\ x \in Creates(c) <=>
                  x.msg.id = "create_connection" /\ x.msg.con = c
             /\ x \in Closes(c) <=>
                  x.msg.id = "connection_status" /\ x.msg.con = c
             /\ x \in Carries(c) <=>
                  x.msg.id = "forward_write" /\ x.msg.con = c
             /\ x \in About(c) <=> x \in Closes(c) \/ x \in Carries(c)
    BY DEF Creates, Closes, Carries, About
<1>. QED
    BY <1>1, <1>2, <1>3, <1>4

(* The messages that are sent.                                             *)
LEMMA SealedIs ==
    /\ \A m \in Message, e \in BOOLEAN : /\ Sealed(m, e) \in Sealeds
                                         /\ Sealed(m, e).msg = m /\ Sealed(m, e).enc = e
    /\ Hello \in Message /\ Hello.id = "init_diffie_hellman"
    /\ CreateServer \in Message /\ CreateServer.id = "create_server"
    /\ \A c \in Con :
        /\ Status(c) \in Message
        /\ Status(c).id = "connection_status" /\ Status(c).con = c
        /\ CreateConnection(c) \in Message
        /\ CreateConnection(c).id = "create_connection" /\ CreateConnection(c).con = c
        /\ \A d \in Nat :
            /\ ForwardWrite(c, d) \in Message
            /\ ForwardWrite(c, d).id = "forward_write" /\ ForwardWrite(c, d).con = c
            /\ ForwardWrite(c, d).data = d
<1>1. \A m \in Message, e \in BOOLEAN : /\ Sealed(m, e) \in Sealeds
                                        /\ Sealed(m, e).msg = m /\ Sealed(m, e).enc = e
    BY DEF Sealed, Sealeds
<1>2. /\ Hello \in Message /\ Hello.id = "init_diffie_hellman"
      /\ CreateServer \in Message /\ CreateServer.id = "create_server"
    BY DEF Message, Hello, CreateServer
<1>3. ASSUME NEW c \in Con
      PROVE  /\ Status(c) \in Message
             /\ Status(c).id = "connection_status" /\ Status(c).con = c
             /\ CreateConnection(c) \in Message
             /\ CreateConnection(c).id = "create_connection" /\ CreateConnection(c).con = c
    BY DEF Message, Status, CreateConnection
<1>4. ASSUME NEW c \in Con, NEW d \in Nat
      PROVE  /\ ForwardWrite(c, d) \in Message
             /\ ForwardWrite(c, d).id = "forward_write" /\ ForwardWrite(c, d).con = c
             /\ ForwardWrite(c, d).data = d
    BY DEF Message, ForwardWrite
<1>. QED
    BY <1>1, <1>2, <1>3, <1>4

(* A set of handlers or messages that has another.                         *)
LEMMA NoneWithin ==
    /\ \A w, c : None(w, Reads(c)) => None(w, HasRead(c))
    /\ \A w, c : None(w, Accepts) => None(w, AcceptsOf(c))
    /\ \A w \in Seq(Sealeds) : \A c :
        None(w, About(c)) <=> None(w, Closes(c)) /\ None(w, Carries(c))
    /\ \A w, c : ~None(w, AcceptsOf(c)) => ~None(w, Accepts)
<1>1. \A c : /\ \A x : x \in HasRead(c) => x \in Reads(c)
             /\ \A x : x \in AcceptsOf(c) => x \in Accepts
             /\ \A x : x \in About(c) <=> x \in Closes(c) \/ x \in Carries(c)
    BY DEF HasRead, AcceptsOf, About
<1>. QED
    BY <1>1 DEF None

-----------------------------------------------------------------------------
(***************************************************************************)
(* What a step does to a queue and to the wire.                            *)
(***************************************************************************)
Rest(s) == Tail(queue[s])

(* A handler leaves its queue, and more are posted.                        *)
LEMMA RanIs ==
    ASSUME TypeOK, NEW s \in Side, NEW more \in Seq(Handlers),
           queue[s] # << >>, Ran(s, more)
    PROVE  /\ queue' \in [Side -> Seq(Handlers)]
           /\ Now(s) \in Handlers
           /\ \A t \in Side : t # s => queue'[t] = queue[t]
           /\ \A S : /\ None(queue[s], S) <=> Now(s) \notin S /\ None(Rest(s), S)
                     /\ None(queue'[s], S) <=> None(Rest(s), S) /\ None(more, S)
                     /\ Single(queue[s], S) => Single(Rest(s), S)
                     /\ Single(queue[s], S) /\ Now(s) \in S => None(Rest(s), S)
                     /\ Single(Rest(s), S) /\ None(more, S) => Single(queue'[s], S)
                     /\ None(Rest(s), S) /\ Single(more, S) => Single(queue'[s], S)
<1>1. queue \in [Side -> Seq(Handlers)] /\ queue[s] \in Seq(Handlers)
    BY DEF TypeOK
<1>2. PICK q : q = Rest(s)
    OBVIOUS
<1>3. PICK h : h = Now(s)
    OBVIOUS
<1>4. q = Tail(queue[s]) /\ h = Head(queue[s])
    BY <1>2, <1>3 DEF Rest, Now
<1>5. PICK w : w = queue[s]
    OBVIOUS
<1>9. w \in Seq(Handlers) /\ w # << >> /\ q = Tail(w) /\ h = Head(w)
    BY <1>1, <1>4, <1>5
<1>10. q \in Seq(Handlers) /\ h \in Handlers /\ Pops(q, w, h)
    BY <1>9, Popped
<1>6. PICK v : v = q \o more
    OBVIOUS
<1>7. v \in Seq(Handlers) /\ Joins(v, q, more)
    BY <1>10, <1>6, Joined
<1>8. queue' = [queue EXCEPT ![s] = v]
    BY <1>4, <1>6 DEF Ran
<1>. QED
    BY <1>1, <1>2, <1>3, <1>5, <1>10, <1>7, <1>8 DEF Pops, Joins

(* One handler is posted.                                                  *)
LEMMA PostIs ==
    ASSUME TypeOK, NEW s \in Side, NEW h \in Handlers, Post(s, h)
    PROVE  /\ queue' \in [Side -> Seq(Handlers)]
           /\ \A t \in Side : t # s => queue'[t] = queue[t]
           /\ \A S : /\ None(queue'[s], S) <=> h \notin S /\ None(queue[s], S)
                     /\ Single(queue[s], S) /\ h \notin S => Single(queue'[s], S)
                     /\ None(queue[s], S) => Single(queue'[s], S)
<1>1. queue \in [Side -> Seq(Handlers)] /\ queue[s] \in Seq(Handlers)
    BY DEF TypeOK
<1>2. PICK v : v = Append(queue[s], h)
    OBVIOUS
<1>3. v \in Seq(Handlers) /\ Pushes(v, queue[s], h)
    BY <1>1, <1>2, Pushed
<1>4. queue' = [queue EXCEPT ![s] = v]
    BY <1>2 DEF Post
<1>. QED
    BY <1>1, <1>3, <1>4 DEF Pushes

(* No handler, or one, is posted along with those of a step.               *)
LEMMA MoreIs ==
    /\ << >> \in Seq(Handlers)
    /\ \A S : None(<< >>, S) /\ Single(<< >>, S)
    /\ \A h \in Handlers : /\ <<h>> \in Seq(Handlers)
                           /\ \A S : None(<<h>>, S) <=> h \notin S
                           /\ \A S : Single(<<h>>, S)
<1>1. \A S : None(<< >>, S) /\ Single(<< >>, S)
    BY NothingIn
<1>2. ASSUME NEW h \in Handlers
      PROVE  /\ <<h>> \in Seq(Handlers)
             /\ \A S : None(<<h>>, S) <=> h \notin S
             /\ \A S : Single(<<h>>, S)
    <2>1. PICK w : w = <<h>>
        OBVIOUS
    <2>2. w \in Seq(Handlers) /\ Len(w) = 1 /\ w[1] = h
        BY <2>1
    <2>3. \A i \in 1 .. Len(w) : i = 1
        BY <2>2
    <2>4. /\ \A S : None(w, S) <=> h \notin S
          /\ \A S : Single(w, S)
        BY <2>2, <2>3 DEF None, Single
    <2>. QED
        BY <2>1, <2>2, <2>4
<1>. QED
    BY <1>1, <1>2

(* A message is sent, but not over a connection that is broken.            *)
LEMMA SendIs ==
    ASSUME TypeOK, NEW s \in Side, NEW m \in Message, Send(s, m)
    PROVE  /\ wire' \in [Side -> Seq(Sealeds)]
           /\ Encrypted(s, m) \in Sealeds
           /\ Encrypted(s, m).msg = m /\ Encrypted(s, m).enc = (dh[s] = "shared")
           /\ wire'[Peer(s)] = wire[Peer(s)]
           /\ lost => wire' = wire
           /\ ~lost => wire'[s] = Append(wire[s], Encrypted(s, m))
<1>1. wire \in [Side -> Seq(Sealeds)] /\ wire[s] \in Seq(Sealeds)
    BY DEF TypeOK, Sealeds
<1>2. PICK x : x = Encrypted(s, m)
    OBVIOUS
<1>3. x \in Sealeds /\ x.msg = m /\ x.enc = (dh[s] = "shared")
    BY <1>2, SealedIs DEF Encrypted
<1>4. PICK v : v = Append(wire[s], x)
    OBVIOUS
<1>5. v \in Seq(Sealeds)
    BY <1>1, <1>3, <1>4, AppendProperties
<1>6. wire' = IF lost THEN wire ELSE [wire EXCEPT ![s] = v]
    BY <1>2, <1>4 DEF Send
<1>7. lost => wire' = wire
    BY <1>6
<1>8. ~lost => wire'[s] = v
    BY <1>1, <1>6
<1>9. wire' \in [Side -> Seq(Sealeds)] /\ wire'[Peer(s)] = wire[Peer(s)]
    BY <1>1, <1>5, <1>6, PeerIs
<1>. QED
    BY <1>2, <1>3, <1>4, <1>7, <1>8, <1>9

(* The first message of the other side is taken, and it may be answered.   *)
LEMMA ReceiveIs ==
    ASSUME TypeOK, NEW s \in Side, NEW id, NEW replies \in Seq(Sealeds),
           Receive(s, id, replies)
    PROVE  /\ queue[s] # << >> /\ Now(s).kind = "control" /\ dead[s] = "no"
           /\ control' = [control EXCEPT ![s] = "armed"]
           /\ wire' \in [Side -> Seq(Sealeds)]
           /\ wire[Peer(s)] \in Seq(Sealeds) /\ wire[Peer(s)] # << >>
           /\ Head(wire[Peer(s)]) \in Sealeds
           /\ Head(wire[Peer(s)]).msg = Msg(s) /\ Msg(s).id = id
           /\ wire'[Peer(s)] = Tail(wire[Peer(s)])
           /\ wire'[s] = IF lost THEN wire[s] ELSE wire[s] \o replies
<1>1. wire \in [Side -> Seq(Sealeds)] /\ wire[s] \in Seq(Sealeds)
      /\ wire[Peer(s)] \in Seq(Sealeds)
    BY PeerIs DEF TypeOK, Sealeds
<1>2. /\ queue[s] # << >> /\ Now(s).kind = "control" /\ dead[s] = "no"
      /\ control' = [control EXCEPT ![s] = "armed"]
      /\ wire[Peer(s)] # << >> /\ Msg(s).id = id
    BY DEF Receive, Runs
<1>3. PICK v : v = Tail(wire[Peer(s)])
    OBVIOUS
<1>4. PICK u : u = wire[s] \o replies
    OBVIOUS
<1>5. v \in Seq(Sealeds) /\ u \in Seq(Sealeds) /\ Head(wire[Peer(s)]) \in Sealeds
    BY <1>1, <1>2, <1>3, <1>4, HeadTailProperties, ConcatProperties
<1>6. PICK w : w = IF lost THEN wire[s] ELSE u
    OBVIOUS
<1>7. wire' = [wire EXCEPT ![Peer(s)] = v, ![s] = w]
    <2>1. wire' = [wire EXCEPT ![Peer(s)] = Tail(@),
                               ![s] = IF lost THEN @ ELSE @ \o replies]
        BY DEF Receive
    <2>2. [wire EXCEPT ![Peer(s)] = v][s] = wire[s]
        BY <1>1, PeerIs
    <2>. QED
        BY <2>1, <2>2, <1>3, <1>4, <1>6
<1>8. wire' \in [Side -> Seq(Sealeds)] /\ wire'[Peer(s)] = v /\ wire'[s] = w
    BY <1>1, <1>5, <1>6, <1>7, PeerIs
<1>. QED
    BY <1>1, <1>2, <1>3, <1>4, <1>5, <1>6, <1>8 DEF Msg

(* A message is sent while its control_connection is there: it is unless   *)
(* the connection is broken.                                               *)
LEMMA EchoIs ==
    ASSUME FaultInv, NEW s \in Side, NEW m, Echo(s, m)
    PROVE  \/ Send(s, m) /\ UNCHANGED dead
           \/ lost /\ UNCHANGED wire /\ dead' \in {dead, [dead EXCEPT ![s] = "freed"]}
<1>1. ~Held(s) => lost
    BY DEF Held, FaultInv
<1>. QED
    BY <1>1 DEF Echo

-----------------------------------------------------------------------------
(* What closing a socket posts: a read and the writes of its connection,   *)
(* as errors.                                                              *)
LEMMA AbortedIs ==
    ASSUME TypeOK, NEW s \in Side, NEW c \in Con
    PROVE  /\ Aborted(s, c) \in Seq(Handlers)
           /\ \A i \in 1 .. Len(Aborted(s, c)) :
                /\ Aborted(s, c)[i].kind \in {"read", "write"}
                /\ Aborted(s, c)[i].con = c /\ ~Aborted(s, c)[i].ok
                /\ Aborted(s, c)[i].kind = "read" => i = 1 /\ c \in reading[s]
                /\ Aborted(s, c)[i].kind = "write" => writing[s][c] # << >>
<1>. DEFINE r == IF c \in reading[s] THEN <<Handler("read", c, FALSE)>> ELSE << >>
            u == [i \in DOMAIN writing[s][c] |-> Handler("write", c, FALSE)]
<1>1. Aborted(s, c) = r \o u
    BY DEF Aborted
<1>2. PICK h : h = Handler("read", c, FALSE)
    OBVIOUS
<1>3. PICK g : g = Handler("write", c, FALSE)
    OBVIOUS
<1>4. /\ h \in Handlers /\ h.kind = "read" /\ h.con = c /\ ~h.ok
      /\ g \in Handlers /\ g.kind = "write" /\ g.con = c /\ ~g.ok
    <2>1. h \in Handlers /\ g \in Handlers
        BY <1>2, <1>3, HandlerIs
    <2>2. /\ h.kind = "read" /\ h.con = c /\ ~h.ok
          /\ g.kind = "write" /\ g.con = c /\ ~g.ok
        BY <1>2, <1>3 DEF Handler
    <2>. QED
        BY <2>1, <2>2
<1>5. /\ r \in Seq(Handlers) /\ Len(r) \in {0, 1}
      /\ Len(r) = 1 => c \in reading[s] /\ r[1] = h
    <2>1. r = IF c \in reading[s] THEN <<h>> ELSE << >>
        BY <1>2
    <2>. HIDE DEF r
    <2>. QED
        BY <1>4, <2>1
<1>6. /\ u \in Seq(Handlers) /\ Len(u) = Len(writing[s][c])
      /\ \A i \in 1 .. Len(u) : u[i] = g
    <2>1. PICK n : n = Len(writing[s][c])
        OBVIOUS
    <2>2. n \in Nat /\ DOMAIN writing[s][c] = 1 .. n
        <3>0. writing \in [Side -> [Con -> Seq(Con \X Nat)]]
            BY DEF TypeOK
        <3>1. writing[s][c] \in Seq(Con \X Nat)
            BY <3>0
        <3>. QED
            BY <2>1, <3>1, LenProperties
    <2>3. u = [i \in 1 .. n |-> g]
        BY <1>3, <2>2
    <2>. HIDE DEF u
    <2>. QED
        BY <1>4, <2>1, <2>2, <2>3
<1>7. Len(u) # 0 => writing[s][c] # << >>
    BY <1>6
<1>. HIDE DEF r, u
<1>8. PICK a : a = r \o u
    OBVIOUS
<1>9. /\ a \in Seq(Handlers) /\ Len(a) = Len(r) + Len(u)
      /\ \A i \in 1 .. Len(r) + Len(u) :
            a[i] = IF i <= Len(r) THEN r[i] ELSE u[i - Len(r)]
      /\ Len(r) \in Nat /\ Len(u) \in Nat
    <2>1. Len(r) \in Nat /\ Len(u) \in Nat
        BY <1>5, <1>6, LenProperties
    <2>. QED
        BY <2>1, <1>5, <1>6, <1>8, ConcatProperties
<1>10. ASSUME NEW i \in 1 .. Len(a)
       PROVE  \/ a[i] = h /\ i = 1 /\ c \in reading[s]
              \/ a[i] = g /\ writing[s][c] # << >>
    <2>1. CASE i <= Len(r)
        <3>1. i = 1 /\ Len(r) = 1
            BY <1>5, <1>9, <2>1
        <3>. QED
            BY <1>5, <1>9, <2>1, <3>1
    <2>2. CASE ~(i <= Len(r))
        <3>1. i - Len(r) \in 1 .. Len(u) /\ Len(u) # 0
            BY <1>9, <2>2
        <3>. QED
            BY <1>6, <1>7, <1>9, <2>2, <3>1
    <2>. QED
        BY <2>1, <2>2
<1>. QED
    BY <1>1, <1>4, <1>8, <1>9, <1>10

(* Which sets they are in.                                                 *)
LEMMA AbortedIn ==
    ASSUME TypeOK, NEW s \in Side, NEW c \in Con
    PROVE  /\ None(Aborted(s, c), Controls) /\ None(Aborted(s, c), Accepts)
           /\ Single(Aborted(s, c), Reads(c))
           /\ c \notin reading[s] => None(Aborted(s, c), Reads(c))
           /\ writing[s][c] = << >> => None(Aborted(s, c), Writes(c))
           /\ \A d : /\ None(Aborted(s, c), HasRead(d))
                     /\ d # c => /\ None(Aborted(s, c), Reads(d))
                                 /\ None(Aborted(s, c), Writes(d))
<1>1. PICK a : a = Aborted(s, c)
    OBVIOUS
<1>2. /\ a \in Seq(Handlers)
      /\ \A i \in 1 .. Len(a) :
            /\ a[i].kind \in {"read", "write"} /\ a[i].con = c /\ ~a[i].ok
            /\ a[i].kind = "read" => i = 1 /\ c \in reading[s]
            /\ a[i].kind = "write" => writing[s][c] # << >>
    BY <1>1, AbortedIs
<1>3. \A i \in 1 .. Len(a) :
        /\ a[i] \notin Controls /\ a[i] \notin Accepts
        /\ a[i] \in Reads(c) => i = 1 /\ c \in reading[s]
        /\ a[i] \in Writes(c) => writing[s][c] # << >>
        /\ \A d : a[i] \notin HasRead(d)
        /\ \A d : d # c => a[i] \notin Reads(d) /\ a[i] \notin Writes(d)
    BY <1>2, HandlerIn, ElementOfSeq
<1>. QED
    BY <1>1, <1>3 DEF None, Single

(* What closing all sockets posts.                                         *)
LEMMA AllAbortedIn ==
    ASSUME TypeOK, NEW s \in Side
    PROVE  /\ AllAborted(s) \in Seq(Handlers)
           /\ None(AllAborted(s), Controls) /\ None(AllAborted(s), Accepts)
           /\ \A d : /\ None(AllAborted(s), HasRead(d))
                     /\ d \notin pcons[s] => /\ None(AllAborted(s), Reads(d))
                                             /\ None(AllAborted(s), Writes(d))
<1>. DEFINE T == {h \in Handlers : /\ h.kind \in {"read", "write"}
                                   /\ h.con \in pcons[s] /\ ~h.ok}
            f == [c \in Con |-> IF c \in pcons[s] THEN Aborted(s, c) ELSE << >>]
<1>1. ASSUME NEW c \in Con, c \in pcons[s]
      PROVE  Aborted(s, c) \in Seq(T)
    <2>1. PICK a : a = Aborted(s, c)
        OBVIOUS
    <2>2. /\ a \in Seq(Handlers)
          /\ \A i \in 1 .. Len(a) :
                a[i].kind \in {"read", "write"} /\ a[i].con = c /\ ~a[i].ok
        BY <2>1, AbortedIs
    <2>3. \A i \in 1 .. Len(a) : a[i] \in T
        BY <1>1, <2>2, ElementOfSeq
    <2>. HIDE DEF T
    <2>. QED
        BY <2>1, <2>2, <2>3, SeqMonotonic
<1>2. f \in [1 .. MaxCon -> Seq(T)]
    <2>1. << >> \in Seq(T)
        OBVIOUS
    <2>. HIDE DEF T
    <2>. QED
        BY <1>1, <2>1 DEF Con
<1>3. FlattenSeq(f) \in Seq(T)
    <2>. HIDE DEF T, f
    <2>. QED
        BY <1>2, BoundAssumption, FlattenIs
<1>4. PICK a : a = AllAborted(s)
    OBVIOUS
<1>5. a \in Seq(T)
    BY <1>3, <1>4 DEF AllAborted
<1>. HIDE DEF f
<1>6. \A i \in 1 .. Len(a) : a[i] \in T
    <2>. HIDE DEF T
    <2>. QED
        BY <1>5, ElementOfSeq
<1>7. a \in Seq(Handlers)
    <2>1. \A x \in T : x \in Handlers
        OBVIOUS
    <2>. HIDE DEF T
    <2>. QED
        BY <1>5, <1>6, <2>1, SeqMonotonic
<1>8. \A i \in 1 .. Len(a) :
        /\ a[i] \notin Controls /\ a[i] \notin Accepts
        /\ \A d : /\ a[i] \notin HasRead(d)
                  /\ d \notin pcons[s] => a[i] \notin Reads(d) /\ a[i] \notin Writes(d)
    BY <1>6, HandlerIn
<1>. QED
    BY <1>4, <1>7, <1>8 DEF None

(* What closing the sockets of some connections leaves.                    *)
LEMMA CloseIs ==
    ASSUME TypeOK, NEW s \in Side, NEW C \in SUBSET Con, CloseSockets(s, C)
    PROVE  /\ pcons' \in [Side -> SUBSET Con] /\ reading' \in [Side -> SUBSET Con]
           /\ sock' \in [Side -> [Con -> {"none", "open", "refused", "closed"}]]
           /\ writing' \in [Side -> [Con -> Seq(Con \X Nat)]]
           /\ failed' \subseteq Side /\ failed \subseteq failed'
           /\ \A t \in Side : t # s =>
                /\ pcons'[t] = pcons[t] /\ reading'[t] = reading[t]
                /\ \A c \in Con : /\ sock'[t][c] = sock[t][c]
                                  /\ writing'[t][c] = writing[t][c]
           /\ pcons'[s] = pcons[s] \ C /\ reading'[s] = reading[s] \ C
           /\ \A c \in Con : c \notin C => /\ sock'[s][c] = sock[s][c]
                                           /\ writing'[s][c] = writing[s][c]
           /\ \A c \in C : /\ writing'[s][c] = << >>
                           /\ sock[s][c] = "open" => sock'[s][c] = "closed"
                           /\ sock[s][c] # "open" => sock'[s][c] = sock[s][c]
                           /\ writing[s][c] # << >> => s \in failed'
<1>. DEFINE k == [c \in Con |-> IF c \in C /\ sock[s][c] = "open" THEN "closed"
                                ELSE sock[s][c]]
            u == [c \in Con |-> IF c \in C THEN << >> ELSE writing[s][c]]
<1>1. /\ pcons' = [pcons EXCEPT ![s] = pcons[s] \ C]
      /\ sock' = [sock EXCEPT ![s] = k]
      /\ reading' = [reading EXCEPT ![s] = reading[s] \ C]
      /\ writing' = [writing EXCEPT ![s] = u]
      /\ failed' = IF \E c \in C : writing[s][c] # << >> THEN failed \cup {s}
                   ELSE failed
    BY DEF CloseSockets
<1>2. /\ k \in [Con -> {"none", "open", "refused", "closed"}]
      /\ u \in [Con -> Seq(Con \X Nat)]
      /\ \A c \in Con : c \notin C => k[c] = sock[s][c] /\ u[c] = writing[s][c]
      /\ \A c \in C : /\ u[c] = << >>
                      /\ sock[s][c] = "open" => k[c] = "closed"
                      /\ sock[s][c] # "open" => k[c] = sock[s][c]
    <2>1. /\ sock[s] \in [Con -> {"none", "open", "refused", "closed"}]
          /\ writing[s] \in [Con -> Seq(Con \X Nat)]
        BY DEF TypeOK
    <2>2. << >> \in Seq(Con \X Nat)
        OBVIOUS
    <2>. QED
        BY <2>1, <2>2
<1>. HIDE DEF k, u
<1>3. pcons' \in [Side -> SUBSET Con] /\ reading' \in [Side -> SUBSET Con]
    BY <1>1 DEF TypeOK
<1>4. /\ sock' \in [Side -> [Con -> {"none", "open", "refused", "closed"}]]
      /\ writing' \in [Side -> [Con -> Seq(Con \X Nat)]]
    BY <1>1, <1>2 DEF TypeOK
<1>5. failed' \subseteq Side /\ failed \subseteq failed'
    BY <1>1 DEF TypeOK
<1>6. \A t \in Side : t # s =>
        /\ pcons'[t] = pcons[t] /\ reading'[t] = reading[t]
        /\ \A c \in Con : /\ sock'[t][c] = sock[t][c]
                          /\ writing'[t][c] = writing[t][c]
    BY <1>1 DEF TypeOK
<1>7. pcons'[s] = pcons[s] \ C /\ reading'[s] = reading[s] \ C
      /\ sock'[s] = k /\ writing'[s] = u
    BY <1>1 DEF TypeOK
<1>8. \A c \in C : writing[s][c] # << >> => s \in failed'
    BY <1>1
<1>. QED
    BY <1>2, <1>3, <1>4, <1>5, <1>6, <1>7, <1>8

-----------------------------------------------------------------------------
(***************************************************************************)
(* Each action keeps the invariant.                                        *)
(***************************************************************************)
(* The chunks of a connection are counted.                                 *)
LEMMA LensAre ==
    ASSUME TypeOK
    PROVE  \A s \in Side, c \in Con :
               /\ Len(got[s][c]) \in Nat /\ Len(writing[s][c]) \in Nat
               /\ Arrived(s, c) \in Nat /\ taken[s][c] \in Nat
<1>1. \A s \in Side, c \in Con : /\ got[s][c] \in Seq(Con \X Nat)
                                 /\ writing[s][c] \in Seq(Con \X Nat)
                                 /\ taken[s][c] \in Nat
    BY DEF TypeOK
<1>2. \A s \in Side, c \in Con : Len(got[s][c]) \in Nat /\ Len(writing[s][c]) \in Nat
    BY <1>1, LenProperties
<1>. QED
    <2>. SUFFICES ASSUME NEW s \in Side, NEW c \in Con
                  PROVE  /\ Len(got[s][c]) \in Nat /\ Len(writing[s][c]) \in Nat
                         /\ Arrived(s, c) \in Nat /\ taken[s][c] \in Nat
        OBVIOUS
    <2>1. Len(got[s][c]) \in Nat /\ Len(writing[s][c]) \in Nat /\ taken[s][c] \in Nat
        BY <1>1, <1>2
    <2>2. \A a, b \in Nat : a + b \in Nat
        OBVIOUS
    <2>. QED
        BY <2>1, <2>2, Zenon DEF Arrived

(* The handlers of one kind that a step leaves in the queues.              *)
ControlsStay ==
    \A s \in Side : /\ None(queue'[s], Controls) <=> None(queue[s], Controls)
                    /\ Single(queue[s], Controls) => Single(queue'[s], Controls)

AcceptsStay ==
    /\ None(queue'["relay"], Accepts) <=> None(queue["relay"], Accepts)
    /\ Single(queue["relay"], Accepts) => Single(queue'["relay"], Accepts)
    /\ \A c \in Con :
        None(queue'["relay"], AcceptsOf(c)) <=> None(queue["relay"], AcceptsOf(c))

ReadsStay ==
    \A s \in Side, c \in Con :
        /\ None(queue'[s], Reads(c)) <=> None(queue[s], Reads(c))
        /\ None(queue'[s], HasRead(c)) <=> None(queue[s], HasRead(c))
        /\ Single(queue[s], Reads(c)) => Single(queue'[s], Reads(c))

FedStays ==
    \A s \in Side, c \in Con :
        None(queue'[s], HasRead(c)) <=> None(queue[s], HasRead(c))

WritesStay ==
    \A s \in Side, c \in Con :
        None(queue'[s], Writes(c)) <=> None(queue[s], Writes(c))

(* The chunks that go over the wire are as they were.                      *)
FlowsStay ==
    \A s \in Side, c \in Con : \A d, top \in Nat :
        Flow(wire[s], c, d, top) =>
            /\ Flow(wire'[s], c, d, top)
            /\ Full(wire[s], c, d, top) => Full(wire'[s], c, d, top)

(* All of them stay when the queues and the wire do.                       *)
LEMMA AllStay ==
    /\ UNCHANGED queue => ControlsStay /\ AcceptsStay /\ ReadsStay /\ WritesStay
    /\ UNCHANGED wire => FlowsStay
    /\ ReadsStay => FedStays
<1>1. UNCHANGED queue => ControlsStay /\ AcceptsStay /\ ReadsStay /\ WritesStay
    BY DEF ControlsStay, AcceptsStay, ReadsStay, WritesStay
<1>2. UNCHANGED wire => FlowsStay
    BY DEF FlowsStay
<1>3. ReadsStay => FedStays
    BY DEF ReadsStay, FedStays
<1>. QED
    BY <1>1, <1>2, <1>3

(* A fault that was found before the step is there after it.               *)
LEMMA FaultFrame ==
    ASSUME FaultInv, linked' = linked, lost' = lost, acceptor' = acceptor,
           dead' = dead
    PROVE  FaultInv'
BY Zenon DEF FaultInv

(* The causes of a death stay.                                             *)
LEMMA DeathFrame ==
    ASSUME DiesOfFaults, dead' = dead, failed \subseteq failed', lost' = lost
    PROVE  DiesOfFaults'
<1>1. \A s \in Side : Peer(s) \in failed => Peer(s) \in failed'
    OBVIOUS
<1>. QED
    BY <1>1, Zenon DEF DiesOfFaults

(* The control connection is read as before, and messages may be sent.     *)
LEMMA ControlFrame ==
    ASSUME ControlInv, ControlsStay, control' = control, lost' = lost,
           \A s \in Side : wire'[s] = << >> => wire[s] = << >>
    PROVE  ControlInv'
<1>1. \A s \in Side : wire'[Peer(s)] = << >> => wire[Peer(s)] = << >>
    BY PeerIs
<1>. QED
    BY <1>1 DEF ControlInv, ControlsStay

(* No message goes or comes.                                               *)
LEMMA HandshakeFrame ==
    ASSUME HandshakeInv, dh' = dh, wire' = wire, acceptor' = acceptor
    PROVE  HandshakeInv'
BY DEF HandshakeInv, HelloOut, HelloBack, Mapping, Mapped

(* No connection is asked for, and none is given up.                       *)
LEMMA CreateFrame ==
    ASSUME CreateInv, wire'["relay"] = wire["relay"], sock' = sock,
           pcons' = pcons, lost' = lost
    PROVE  CreateInv'
BY DEF CreateInv

(* No user connects or is accepted.                                        *)
LEMMA AcceptFrame ==
    ASSUME AcceptInv, AcceptsStay, acceptor' = acceptor, outside' = outside,
           \A c \in Con : sock'["relay"][c] = "none" <=> sock["relay"][c] = "none"
    PROVE  AcceptInv'
BY DEF AcceptInv, AcceptsStay

(* The reads stay, and what they are allowed by.                           *)
LEMMA TokenFrame ==
    ASSUME TokenInv, ReadsStay, lost' = lost, reading' = reading,
           failed \subseteq failed',
           \A s \in Side, c \in Con :
               /\ ~None(queue'[s], Writes(c)) =>
                    ~None(queue[s], Writes(c)) \/ s \in failed'
               /\ c \in pcons[Peer(s)] \/ ~None(wire[s], Creates(c)) =>
                    c \in pcons'[Peer(s)] \/ ~None(wire'[s], Creates(c))
               /\ None(wire[s], Closes(c)) => None(wire'[s], Closes(c))
    PROVE  TokenInv'
<1>. SUFFICES ASSUME ~lost, NEW s \in Side, NEW c \in Con
              PROVE  /\ OneRead(s, c)'
                     /\ ~None(queue'[s], Writes(c)) => s \in failed'
                     /\ s \notin failed' /\ (c \in reading'[s] \/ ~None(queue'[s], Reads(c))) =>
                          /\ c \in pcons'[Peer(s)] \/ ~None(wire'[s], Creates(c))
                          /\ None(wire'[s], Closes(c))
    BY DEF TokenInv
<1>1. /\ OneRead(s, c)
      /\ ~None(queue[s], Writes(c)) => s \in failed
      /\ s \notin failed /\ (c \in reading[s] \/ ~None(queue[s], Reads(c))) =>
           /\ c \in pcons[Peer(s)] \/ ~None(wire[s], Creates(c))
           /\ None(wire[s], Closes(c))
    BY DEF TokenInv
<1>2. OneRead(s, c)'
    BY <1>1 DEF OneRead, ReadsStay
<1>3. ~None(queue'[s], Writes(c)) => s \in failed'
    BY <1>1
<1>4. /\ s \notin failed' => s \notin failed
      /\ None(queue'[s], Reads(c)) <=> None(queue[s], Reads(c))
    BY DEF ReadsStay
<1>. QED
    BY <1>1, <1>2, <1>3, <1>4

(* Nothing about a connection is said or heard.                            *)
LEMMA WireFrame ==
    ASSUME WireInv, failed \subseteq failed', pcons' = pcons, wire' = wire
    PROVE  WireInv'
<1>1. \A s \in Side : s \notin failed' => s \notin failed
    OBVIOUS
<1>. QED
    BY <1>1 DEF WireInv

(* No chunk moves, though an end may no longer receive.                    *)
LEMMA OrderFrame ==
    ASSUME TypeOK, OrderInv, FedStays, FlowsStay, got' = got, sent' = sent,
           part' = part, taken' = taken, lost' = lost,
           \A s \in Side, c \in Con :
               Receives(s, c)' => Receives(s, c) /\ writing'[s][c] = writing[s][c]
    PROVE  OrderInv'
<1>1. \A s \in Side, c \in Con : Delivered(got'[s][c], part'[s][c], c, sent'[Peer(s)][c])
    BY DEF OrderInv
<1>2. ASSUME NEW s \in Side, NEW c \in Con, Receives(s, c)'
      PROVE  /\ Waiting(got'[s][c], writing'[s][c], part'[s][c], c)
             /\ Flow(wire'[Peer(s)], c, Arrived(s, c)', taken'[Peer(s)][c])
             /\ ~lost =>
                  /\ Flow(wire'[Peer(s)], c, Arrived(s, c)', Fed(Peer(s), c)')
                  /\ Full(wire'[Peer(s)], c, Arrived(s, c)', Fed(Peer(s), c)')
    <2>1. Receives(s, c) /\ writing'[s][c] = writing[s][c] /\ Peer(s) \in Side
        BY <1>2, PeerIs
    <2>2. Arrived(s, c)' = Arrived(s, c)
        BY <2>1 DEF Arrived
    <2>3. Fed(Peer(s), c)' = Fed(Peer(s), c)
        BY <2>1 DEF Fed, FedStays
    <2>4. /\ Waiting(got[s][c], writing[s][c], part[s][c], c)
          /\ Flow(wire[Peer(s)], c, Arrived(s, c), taken[Peer(s)][c])
          /\ ~lost =>
               /\ Flow(wire[Peer(s)], c, Arrived(s, c), Fed(Peer(s), c))
               /\ Full(wire[Peer(s)], c, Arrived(s, c), Fed(Peer(s), c))
        BY <2>1 DEF OrderInv
    <2>5. Arrived(s, c) \in Nat /\ taken[Peer(s)][c] \in Nat
        BY <2>1, LensAre
    <2>6. ~lost => Fed(Peer(s), c) \in Nat
        <3>1. Fed(Peer(s), c) \in Int
            BY <2>5 DEF Fed
        <3>2. ~lost => Arrived(s, c) <= Fed(Peer(s), c)
            BY <2>4 DEF Flow
        <3>. QED
            BY <2>5, <3>1, <3>2
    <2>7. Flow(wire'[Peer(s)], c, Arrived(s, c), taken[Peer(s)][c])
        BY <2>1, <2>4, <2>5 DEF FlowsStay
    <2>8. ~lost => /\ Flow(wire'[Peer(s)], c, Arrived(s, c), Fed(Peer(s), c))
                   /\ Full(wire'[Peer(s)], c, Arrived(s, c), Fed(Peer(s), c))
        BY <2>1, <2>4, <2>5, <2>6 DEF FlowsStay
    <2>. QED
        BY <2>1, <2>2, <2>3, <2>4, <2>7, <2>8
<1>. QED
    BY <1>1, <1>2 DEF OrderInv

(* The user or the service sends a chunk.                                  *)
LEMMA SendsKeeps ==
    ASSUME ProxyInv, NEW s \in Side, NEW c \in Con, OutsideSends(s, c)
    PROVE  ProxyInv'
<1>1. /\ UNCHANGED <<dh, wire, control, linked, lost, queue, acceptor, pcons, sock,
                     reading, taken, writing, outside, got, part, dead, failed>>
      /\ sent' = [sent EXCEPT ![s][c] = @ + 1]
    BY DEF OutsideSends, link, cons
<1>2. /\ sent' \in [Side -> [Con -> Nat]]
      /\ \A t \in Side, d \in Con : sent[t][d] \in Nat /\ sent[t][d] <= sent'[t][d]
    <2>1. sent \in [Side -> [Con -> Nat]]
        BY DEF ProxyInv, TypeOK
    <2>2. PICK k : k = [sent[s] EXCEPT ![c] = sent[s][c] + 1]
        OBVIOUS
    <2>3. k \in [Con -> Nat] /\ \A d \in Con : sent[s][d] <= k[d]
        BY <2>1, <2>2
    <2>4. sent' = [sent EXCEPT ![s] = k]
        BY <1>1, <2>2
    <2>. QED
        BY <2>1, <2>3, <2>4
<1>3. TypeOK'
    <2>1. \A t \in Side, d \in Con : taken[t][d] <= sent'[t][d]
        <3>1. \A t \in Side, d \in Con : taken[t][d] \in Nat /\ taken[t][d] <= sent[t][d]
            BY DEF ProxyInv, TypeOK
        <3>. QED
            BY <1>2, <3>1
    <2>. QED
        BY <1>1, <1>2, <2>1 DEF ProxyInv, TypeOK
<1>4. FreshInv'
    BY <1>1 DEF ProxyInv, FreshInv
<1>5. OrderInv'
    <2>1. ASSUME NEW t \in Side, NEW d \in Con
          PROVE  Delivered(got[t][d], part[t][d], d, sent'[Peer(t)][d])
        <3>1. PICK q \in Side : q = Peer(t)
            BY PeerIs
        <3>2. /\ sent[q][d] \in Nat /\ sent'[q][d] \in Nat
              /\ sent[q][d] <= sent'[q][d]
            BY <1>2
        <3>3. Delivered(got[t][d], part[t][d], d, sent[q][d])
            BY <3>1 DEF ProxyInv, OrderInv
        <3>. QED
            BY <3>1, <3>2, <3>3, DeliveredMore
    <2>2. ASSUME NEW t \in Side, NEW d \in Con
          PROVE  /\ Receives(t, d)' <=> Receives(t, d)
                 /\ Arrived(t, d)' = Arrived(t, d)
                 /\ Fed(Peer(t), d)' = Fed(Peer(t), d)
        BY <1>1 DEF Receives, Arrived, Fed
    <2>. QED
        BY <1>1, <2>1, <2>2 DEF ProxyInv, OrderInv
<1>. QED
    <2>1. /\ ControlsStay /\ AcceptsStay /\ ReadsStay
          /\ TokenInv' /\ WireInv' /\ CreateInv' /\ AcceptInv'
        BY <1>1 DEF ProxyInv, ControlsStay, AcceptsStay, ReadsStay,
                    TokenInv, OneRead, WireInv, CreateInv, AcceptInv
    <2>2. FaultInv' /\ DiesOfFaults' /\ ControlInv' /\ HandshakeInv'
        BY <1>1, <2>1, FaultFrame, DeathFrame, ControlFrame, HandshakeFrame DEF ProxyInv
    <2>. QED
        BY <1>3, <1>4, <1>5, <2>1, <2>2 DEF ProxyInv

(* Its end is closed.                                                      *)
LEMMA ClosesKeeps ==
    ASSUME ProxyInv, NEW s \in Side, NEW c \in Con, OutsideCloses(s, c)
    PROVE  ProxyInv'
<1>1. /\ UNCHANGED <<dh, wire, control, linked, lost, queue, acceptor, pcons, sock,
                     reading, taken, writing, sent, got, part, dead, failed>>
      /\ outside[s][c] = "open"
      /\ outside' = [outside EXCEPT ![s][c] = "closed"]
    BY DEF OutsideCloses, link, cons
<1>2. /\ outside' \in [Side -> [Con -> {"none", "open", "closed"}]]
      /\ \A t \in Side, d \in Con :
            \/ outside'[t][d] = outside[t][d]
            \/ outside[t][d] = "open" /\ outside'[t][d] = "closed"
    BY <1>1 DEF ProxyInv, TypeOK
<1>3. TypeOK'
    BY <1>1, <1>2 DEF ProxyInv, TypeOK
<1>4. FreshInv'
    BY <1>1, <1>2 DEF ProxyInv, FreshInv, Side
<1>5. AcceptInv'
    BY <1>1, <1>2 DEF ProxyInv, AcceptInv, Side
<1>6. OrderInv'
    <2>1. \A t \in Side, d \in Con : Receives(t, d)' => Receives(t, d)
        BY <1>1, <1>2 DEF Receives
    <2>. QED
        BY <1>1, <2>1 DEF ProxyInv, OrderInv, Arrived, Fed
<1>. QED
    <2>1. /\ ControlsStay /\ ReadsStay
          /\ TokenInv' /\ WireInv' /\ CreateInv'
        BY <1>1 DEF ProxyInv, ControlsStay, ReadsStay,
                    TokenInv, OneRead, WireInv, CreateInv
    <2>2. FaultInv' /\ DiesOfFaults' /\ ControlInv' /\ HandshakeInv'
        BY <1>1, <2>1, FaultFrame, DeathFrame, ControlFrame, HandshakeFrame DEF ProxyInv
    <2>. QED
        BY <1>3, <1>4, <1>5, <1>6, <2>1, <2>2 DEF ProxyInv

(* The control connection breaks.                                          *)
LEMMA LoseKeeps ==
    ASSUME ProxyInv, Lose
    PROVE  ProxyInv'
<1>1. /\ UNCHANGED <<dh, control, linked, queue, acceptor, pcons, sock, reading,
                     taken, writing, outside, sent, got, part, dead, failed>>
      /\ lost'
    BY DEF Lose, cons, ends
<1>2. PICK n : /\ \A s \in Side : n[s] \in 0 .. Len(wire[s])
               /\ wire' = [s \in Side |-> SubSeq(wire[s], 1, n[s])]
    <2>1. PICK n \in [Side -> 0 .. Max({Len(wire[s]) : s \in Side})] :
              /\ \A s \in Side : n[s] <= Len(wire[s])
              /\ wire' = [s \in Side |-> SubSeq(wire[s], 1, n[s])]
        BY DEF Lose
    <2>2. \A s \in Side : Len(wire[s]) \in Nat
        <3>1. \A s \in Side : wire[s] \in Seq([msg : Message, enc : BOOLEAN])
            BY DEF ProxyInv, TypeOK
        <3>. QED
            BY <3>1, LenProperties
    <2>3. \A s \in Side : n[s] \in Nat
        <3>1. PICK m : m = Max({Len(wire[s]) : s \in Side})
            OBVIOUS
        <3>2. n \in [Side -> 0 .. m]
            BY <2>1, <3>1
        <3>. QED
            BY <3>2
    <2>. QED
        BY <2>1, <2>2, <2>3
<1>3. ASSUME NEW s \in Side
      PROVE  /\ wire[s] \in Seq(Sealeds) /\ wire'[s] \in Seq(Sealeds)
             /\ Cuts(wire'[s], wire[s])
             /\ \A c \in Con : \A d, top \in Nat :
                    Flow(wire[s], c, d, top) => Flow(wire'[s], c, d, top)
    <2>1. wire[s] \in Seq(Sealeds)
        BY DEF ProxyInv, TypeOK, Sealeds
    <2>2. PICK m \in 0 .. Len(wire[s]) : wire'[s] = SubSeq(wire[s], 1, m)
        BY <1>2
    <2>3. wire'[s] \in Seq(Sealeds) /\ Cuts(wire'[s], wire[s])
        BY <2>1, <2>2, Cut
    <2>4. \A c \in Con : \A d, top \in Nat :
              Flow(wire[s], c, d, top) => Flow(wire'[s], c, d, top)
        BY <2>1, <2>2, FlowCut
    <2>. QED
        BY <2>1, <2>3, <2>4
<1>4. TypeOK'
    <2>1. wire' \in [Side -> Seq(Sealeds)]
        BY <1>2, <1>3
    <2>. QED
        BY <1>1, <2>1 DEF ProxyInv, TypeOK, Sealeds
<1>5. FaultInv' /\ ControlInv' /\ TokenInv' /\ AcceptInv' /\ DiesOfFaults'
    BY <1>1 DEF ProxyInv, FaultInv, ControlInv, TokenInv, AcceptInv, DiesOfFaults
<1>6. HandshakeInv'
    <2>1. ASSUME NEW s \in Side, NEW x, AtMost(wire[s], x)
          PROVE  AtMost(wire'[s], x)
        <3>1. PICK m : m = n[s]
            OBVIOUS
        <3>2. wire'[s] = SubSeq(wire[s], 1, m) /\ m \in 0 .. Len(wire[s])
            BY <1>2, <3>1
        <3>3. CASE wire[s] = <<x>>
            <4>1. PICK w : w = wire[s]
                OBVIOUS
            <4>2. w \in Seq(Sealeds) /\ Len(w) = 1
                BY <3>3, <4>1, <1>3
            <4>3. m = 0 \/ m = 1
                BY <3>2, <4>1, <4>2
            <4>4. SubSeq(w, 1, 0) = << >>
                BY <4>2, SubSeqEmpty
            <4>5. SubSeq(w, 1, 1) = w
                BY <4>2, SubSeqFull
            <4>. QED
                BY <3>2, <3>3, <4>1, <4>3, <4>4, <4>5 DEF AtMost
        <3>4. CASE wire[s] = << >>
            <4>1. Len(<< >>) = 0
                OBVIOUS
            <4>2. m \in 0 .. 0
                BY <3>2, <3>4, <4>1
            <4>3. m = 0
                BY <4>2
            <4>4. SubSeq(<< >>, 1, 0) = << >>
                OBVIOUS
            <4>. QED
                BY <3>2, <3>4, <4>3, <4>4 DEF AtMost
        <3>. QED
            BY <2>1, <3>3, <3>4 DEF AtMost
    <2>2. \A s \in Side : wire[s] = << >> => wire'[s] = << >>
        <3>. SUFFICES ASSUME NEW s \in Side, wire[s] = << >> PROVE wire'[s] = << >>
            OBVIOUS
        <3>1. Len(<< >>) = 0 /\ SubSeq(<< >>, 1, 0) = << >>
            OBVIOUS
        <3>2. n[s] = 0
            BY <1>2, <3>1
        <3>. QED
            BY <1>2, <3>1, <3>2
    <2>3. \A s \in Side : \A S : None(wire[s], S) => None(wire'[s], S)
        BY <1>3 DEF Cuts
    <2>9. PICK x : x = Sealed(Hello, FALSE)
        OBVIOUS
    <2>10. PICK y : y = Sealed(CreateServer, TRUE)
        OBVIOUS
    <2>11. "relay" \in Side /\ "home" \in Side
        BY DEF Side
    <2>12. wire["relay"] = << >> => wire'["relay"] = << >>
        BY <2>2, <2>11
    <2>13. wire["home"] = << >> => wire'["home"] = << >>
        BY <2>2, <2>11
    <2>14. AtMost(wire["home"], x) => AtMost(wire'["home"], x)
        BY <2>1, <2>11
    <2>15. AtMost(wire["relay"], x) => AtMost(wire'["relay"], x)
        BY <2>1, <2>11
    <2>16. AtMost(wire["home"], y) => AtMost(wire'["home"], y)
        BY <2>1, <2>11
    <2>4. HelloOut => HelloOut'
        BY <1>1, <2>9, <2>12, <2>14 DEF HelloOut
    <2>5. HelloBack => HelloBack'
        BY <1>1, <2>9, <2>13, <2>15 DEF HelloBack
    <2>6. Mapping => Mapping'
        BY <1>1, <2>10, <2>12, <2>16 DEF Mapping
    <2>7. Mapped => Mapped'
        BY <1>1, <2>3 DEF Mapped, Side
    <2>8. \A c \in Con : None(wire["home"], Creates(c)) => None(wire'["home"], Creates(c))
        BY <2>3 DEF Side
    <2>. QED
        BY <2>4, <2>5, <2>6, <2>7, <2>8 DEF ProxyInv, HandshakeInv
<1>7. FreshInv'
    <2>1. \A s \in Side : \A S : None(wire[s], S) => None(wire'[s], S)
        BY <1>3 DEF Cuts
    <2>. QED
        BY <1>1, <2>1 DEF ProxyInv, FreshInv
<1>8. CreateInv'
    <2>1. \A S : /\ None(wire["relay"], S) => None(wire'["relay"], S)
                 /\ Single(wire["relay"], S) => Single(wire'["relay"], S)
        BY <1>3 DEF Cuts, Side
    <2>. QED
        BY <1>1, <2>1 DEF ProxyInv, CreateInv
<1>9. WireInv'
    <2>1. \A s \in Side : \A A, B : /\ Ends(wire[s], A, B) => Ends(wire'[s], A, B)
                                    /\ Leads(wire[s], A, B) => Leads(wire'[s], A, B)
        BY <1>3 DEF Cuts
    <2>. QED
        BY <1>1, <2>1 DEF ProxyInv, WireInv
<1>10. OrderInv'
    <2>1. ASSUME NEW s \in Side, NEW c \in Con, Receives(s, c)
          PROVE  Flow(wire'[Peer(s)], c, Arrived(s, c), taken[Peer(s)][c])
        <3>1. /\ Flow(wire[Peer(s)], c, Arrived(s, c), taken[Peer(s)][c])
              /\ Peer(s) \in Side
            BY <2>1, PeerIs DEF ProxyInv, OrderInv
        <3>2. Arrived(s, c) \in Nat /\ taken[Peer(s)][c] \in Nat
            BY <3>1, LensAre DEF ProxyInv
        <3>. QED
            BY <3>1, <3>2, <1>3
    <2>. QED
        BY <1>1, <2>1 DEF ProxyInv, OrderInv, Receives, Arrived
<1>. QED
    BY <1>4, <1>5, <1>6, <1>7, <1>8, <1>9, <1>10 DEF ProxyInv

-----------------------------------------------------------------------------
(* Which sets a handler that is posted is in.                              *)
LEMMA PostedIn ==
    ASSUME NEW k, NEW c, NEW ok \in BOOLEAN, Handler(k, c, ok) \in Handlers
    PROVE  /\ Handler(k, c, ok) \in Controls <=> k = "control"
           /\ Handler(k, c, ok) \in Accepts <=> k = "accept" /\ ok
           /\ \A d : /\ Handler(k, c, ok) \in AcceptsOf(d) <=> k = "accept" /\ ok /\ c = d
                     /\ Handler(k, c, ok) \in Reads(d) <=> k = "read" /\ c = d
                     /\ Handler(k, c, ok) \in HasRead(d) <=> k = "read" /\ c = d /\ ok
                     /\ Handler(k, c, ok) \in Writes(d) <=> k = "write" /\ c = d
<1>1. PICK h : h = Handler(k, c, ok)
    OBVIOUS
<1>2. h \in Handlers /\ h.kind = k /\ h.con = c /\ (h.ok <=> ok)
    BY <1>1 DEF Handler
<1>3. /\ h \in Controls <=> k = "control"
      /\ h \in Accepts <=> k = "accept" /\ ok
      /\ \A d : /\ h \in AcceptsOf(d) <=> k = "accept" /\ ok /\ c = d
                /\ h \in Reads(d) <=> k = "read" /\ c = d
                /\ h \in HasRead(d) <=> k = "read" /\ c = d /\ ok
                /\ h \in Writes(d) <=> k = "write" /\ c = d
    BY <1>2, HandlerIn
<1>. QED
    BY <1>1, <1>3

(* A connection comes after the handshake.                                 *)
LEMMA ConIsMapped ==
    ASSUME ProxyInv, NEW s \in Side, NEW c \in Con, sock[s][c] # "none"
    PROVE  Mapped
<1>1. sock["relay"][c] # "none"
    BY DEF ProxyInv, FreshInv, Side
<1>2. acceptor # "none"
    BY <1>1 DEF ProxyInv, FreshInv
<1>. QED
    BY <1>2 DEF ProxyInv, HandshakeInv, HelloOut, HelloBack, Mapping

(* What is read or written belongs to a connection.                        *)
LEMMA NowHasCon ==
    ASSUME ProxyInv, NEW s \in Side, queue[s] # << >>, Now(s).kind \in {"read", "write"}
    PROVE  /\ Now(s).con \in Con /\ sock[s][Now(s).con] # "none" /\ Mapped
           /\ Now(s).kind = "read" =>
                Now(s) \in Reads(Now(s).con) /\ ~None(queue[s], Reads(Now(s).con))
           /\ Now(s).kind = "write" =>
                Now(s) \in Writes(Now(s).con) /\ ~None(queue[s], Writes(Now(s).con))
<1>1. queue[s] \in Seq(Handlers)
    BY DEF ProxyInv, TypeOK
<1>2. Now(s) \in Handlers /\ Pops(Tail(queue[s]), queue[s], Now(s))
    BY <1>1, Popped DEF Now
<1>3. Now(s).con \in Con
    BY <1>2, HandlerIn
<1>4. \A S : Now(s) \in S => ~None(queue[s], S)
    BY <1>2 DEF Pops
<1>5. /\ Now(s).kind = "read" =>
           Now(s) \in Reads(Now(s).con) /\ ~None(queue[s], Reads(Now(s).con))
      /\ Now(s).kind = "write" =>
           Now(s) \in Writes(Now(s).con) /\ ~None(queue[s], Writes(Now(s).con))
    BY <1>2, <1>4, HandlerIn
<1>6. sock[s][Now(s).con] # "none"
    BY <1>3, <1>5 DEF ProxyInv, FreshInv
<1>. QED
    BY <1>3, <1>5, <1>6, ConIsMapped

(* Only the handshake's messages come before it.                           *)
LEMMA MsgIsMapped ==
    ASSUME ProxyInv, NEW s \in Side, wire[Peer(s)] # << >>,
           Msg(s).id \notin {"init_diffie_hellman", "create_server"}
    PROVE  Mapped
<1>1. PICK x : x = Sealed(Hello, FALSE)
    OBVIOUS
<1>2. PICK y : y = Sealed(CreateServer, TRUE)
    OBVIOUS
<1>3. x.msg.id = "init_diffie_hellman" /\ y.msg.id = "create_server"
    BY <1>1, <1>2, SealedIs
<1>4. wire[Peer(s)] # <<x>> /\ wire[Peer(s)] # <<y>>
    BY <1>3 DEF Msg
<1>5. Peer(s) \in {"relay", "home"}
    BY PeerIs DEF Side
<1>. QED
    BY <1>1, <1>2, <1>4, <1>5
       DEF ProxyInv, HandshakeInv, HelloOut, HelloBack, Mapping, AtMost

-----------------------------------------------------------------------------
(* The control connection can be read.                                     *)
LEMMA ControlReadyKeeps ==
    ASSUME ProxyInv, NEW s \in Side, ControlReady(s)
    PROVE  ProxyInv'
<1>1. /\ UNCHANGED <<dh, wire, linked, lost, acceptor, pcons, sock, reading, taken,
                     writing, outside, sent, got, part, dead, failed>>
      /\ control[s] = "armed" /\ control' = [control EXCEPT ![s] = "ready"]
      /\ wire[Peer(s)] # << >> \/ lost
      /\ Post(s, Handler("control", 0, TRUE))
    BY DEF ControlReady, cons, ends
<1>2. TypeOK /\ Handler("control", 0, TRUE) \in Handlers
    BY HandlerIs DEF ProxyInv
<1>3. PICK h : h = Handler("control", 0, TRUE)
    OBVIOUS
<1>4. /\ h \in Handlers /\ h \in Controls /\ h \notin Accepts
      /\ \A c : /\ h \notin AcceptsOf(c) /\ h \notin Reads(c)
                /\ h \notin HasRead(c) /\ h \notin Writes(c)
    BY <1>2, <1>3, PostedIn
<1>5. /\ queue' \in [Side -> Seq(Handlers)]
      /\ \A t \in Side : t # s => queue'[t] = queue[t]
      /\ \A S : /\ None(queue'[s], S) <=> h \notin S /\ None(queue[s], S)
                /\ Single(queue[s], S) /\ h \notin S => Single(queue'[s], S)
                /\ None(queue[s], S) => Single(queue'[s], S)
    BY <1>1, <1>2, <1>3, <1>4, PostIs
<1>6. /\ AcceptsStay /\ ReadsStay /\ WritesStay
    BY <1>4, <1>5 DEF AcceptsStay, ReadsStay, WritesStay, Side
<1>7. /\ control \in [Side -> {"armed", "ready", "off"}]
      /\ \A t \in Side : control'[t] = IF t = s THEN "ready" ELSE control[t]
    BY <1>1, <1>2 DEF TypeOK
<1>8. TypeOK'
    BY <1>1, <1>2, <1>5 DEF TypeOK
<1>9. ControlInv'
    <2>1. None(queue[s], Controls)
        BY <1>1 DEF ProxyInv, ControlInv
    <2>. QED
        BY <1>1, <1>4, <1>5, <1>7, <2>1 DEF ProxyInv, ControlInv
<1>10. FreshInv'
    BY <1>1, <1>6 DEF ProxyInv, FreshInv, ReadsStay, WritesStay
<1>11. TokenInv'
    BY <1>1, <1>6, TokenFrame DEF ProxyInv, WritesStay
<1>12. OrderInv'
    BY <1>1, <1>2, <1>6, AllStay, OrderFrame DEF ProxyInv, Receives
<1>13. FaultInv' /\ DiesOfFaults' /\ HandshakeInv' /\ CreateInv' /\ WireInv'
    BY <1>1, FaultFrame, DeathFrame, HandshakeFrame, CreateFrame, WireFrame
       DEF ProxyInv
<1>14. AcceptInv'
    BY <1>1, <1>6, AcceptFrame DEF ProxyInv
<1>. QED
    BY <1>8, <1>9, <1>10, <1>11, <1>12, <1>13, <1>14 DEF ProxyInv

(* A read is ready.                                                        *)
LEMMA ReadReadyKeeps ==
    ASSUME ProxyInv, NEW s \in Side, NEW c \in Con, ReadReady(s, c)
    PROVE  ProxyInv'
<1>1. /\ UNCHANGED <<dh, wire, control, linked, lost, acceptor, pcons, sock,
                     writing, outside, sent, got, part, dead, failed>>
      /\ c \in reading[s] /\ reading' = [reading EXCEPT ![s] = @ \ {c}]
    BY DEF ReadReady, link, ends
<1>2. PICK ok \in BOOLEAN :
         /\ Post(s, Handler("read", c, ok))
         /\ ok => /\ taken[s][c] < sent[s][c]
                  /\ taken' = [taken EXCEPT ![s][c] = @ + 1]
         /\ ~ok => taken' = taken
    BY DEF ReadReady
<1>3. TypeOK /\ Handler("read", c, ok) \in Handlers
    BY HandlerIs DEF ProxyInv
<1>4. PICK h : h = Handler("read", c, ok)
    OBVIOUS
<1>5. /\ h \in Handlers /\ h \notin Controls /\ h \notin Accepts
      /\ \A d : /\ h \notin AcceptsOf(d) /\ h \notin Writes(d)
                /\ h \in Reads(d) <=> c = d
                /\ h \in HasRead(d) <=> c = d /\ ok
    BY <1>3, <1>4, PostedIn
<1>6. /\ queue' \in [Side -> Seq(Handlers)]
      /\ \A t \in Side : t # s => queue'[t] = queue[t]
      /\ \A S : /\ None(queue'[s], S) <=> h \notin S /\ None(queue[s], S)
                /\ Single(queue[s], S) /\ h \notin S => Single(queue'[s], S)
                /\ None(queue[s], S) => Single(queue'[s], S)
    BY <1>2, <1>3, <1>4, <1>5, PostIs
<1>7. ControlsStay /\ AcceptsStay /\ WritesStay
    BY <1>5, <1>6 DEF ControlsStay, AcceptsStay, WritesStay, Side
<1>9. /\ taken[s][c] \in Nat /\ taken[s][c] <= sent[s][c] /\ sent[s][c] \in Nat
      /\ taken' \in [Side -> [Con -> Nat]]
      /\ taken'[s][c] = IF ok THEN taken[s][c] + 1 ELSE taken[s][c]
      /\ taken'[s][c] <= sent[s][c]
      /\ \A t \in Side, d \in Con : ~(t = s /\ d = c) => taken'[t][d] = taken[t][d]
    <2>1. /\ taken[s][c] \in Nat /\ taken[s][c] <= sent[s][c] /\ sent[s][c] \in Nat
          /\ taken \in [Side -> [Con -> Nat]]
        BY <1>3 DEF TypeOK
    <2>2. CASE ok
        <3>1. PICK k : k = [taken[s] EXCEPT ![c] = taken[s][c] + 1]
            OBVIOUS
        <3>2. /\ k \in [Con -> Nat] /\ k[c] = taken[s][c] + 1
              /\ \A d \in Con : d # c => k[d] = taken[s][d]
            BY <2>1, <3>1
        <3>3. taken' = [taken EXCEPT ![s] = k]
            BY <1>2, <2>2, <3>1
        <3>4. /\ taken' \in [Side -> [Con -> Nat]] /\ taken'[s][c] = taken[s][c] + 1
              /\ \A t \in Side, d \in Con : ~(t = s /\ d = c) => taken'[t][d] = taken[t][d]
            BY <2>1, <3>2, <3>3
        <3>5. taken[s][c] + 1 <= sent[s][c]
            BY <1>2, <2>1, <2>2
        <3>. QED
            BY <2>1, <2>2, <3>4, <3>5
    <2>3. CASE ~ok
        BY <1>2, <2>1, <2>3
    <2>. QED
        BY <2>2, <2>3
<1>8. \A t \in Side, d \in Con : ~(t = s /\ d = c) =>
        /\ None(queue'[t], Reads(d)) <=> None(queue[t], Reads(d))
        /\ None(queue'[t], HasRead(d)) <=> None(queue[t], HasRead(d))
        /\ Single(queue[t], Reads(d)) => Single(queue'[t], Reads(d))
        /\ d \in reading'[t] <=> d \in reading[t]
        /\ taken'[t][d] = taken[t][d]
    <2>1. \A t \in Side, d \in Con : ~(t = s /\ d = c) => taken'[t][d] = taken[t][d]
        BY <1>9
    <2>. QED
        BY <1>1, <1>3, <1>5, <1>6, <2>1 DEF TypeOK
<1>10. /\ reading' \in [Side -> SUBSET Con] /\ c \notin reading'[s]
    BY <1>1, <1>3 DEF TypeOK
<1>11. TypeOK'
    <2>1. \A t \in Side : \A d \in Con : taken'[t][d] <= sent[t][d]
        <3>1. \A t \in Side : \A d \in Con : taken[t][d] <= sent[t][d]
            BY <1>3 DEF TypeOK
        <3>. QED
            BY <1>8, <1>9, <3>1
    <2>. QED
        BY <1>1, <1>3, <1>6, <1>9, <1>10, <2>1 DEF TypeOK
<1>12. sock[s][c] # "none"
    BY <1>1 DEF ProxyInv, FreshInv
<1>13. FreshInv'
    BY <1>1, <1>7, <1>8, <1>12 DEF ProxyInv, FreshInv, WritesStay
<1>14. ~lost => /\ None(queue[s], Reads(c)) /\ None(queue[s], HasRead(c))
                /\ Single(queue'[s], Reads(c))
    <2>1. ~lost => None(queue[s], Reads(c))
        BY <1>1 DEF ProxyInv, TokenInv, OneRead
    <2>. QED
        BY <1>6, <2>1, NoneWithin
<1>15. TokenInv'
    <2>. SUFFICES ASSUME ~lost, NEW t \in Side, NEW d \in Con
                  PROVE  /\ OneRead(t, d)'
                         /\ ~None(queue'[t], Writes(d)) => t \in failed
                         /\ t \notin failed /\ (d \in reading'[t] \/ ~None(queue'[t], Reads(d))) =>
                              /\ d \in pcons[Peer(t)] \/ ~None(wire[t], Creates(d))
                              /\ None(wire[t], Closes(d))
        BY <1>1 DEF TokenInv
    <2>1. /\ OneRead(t, d)
          /\ ~None(queue[t], Writes(d)) => t \in failed
          /\ t \notin failed /\ (d \in reading[t] \/ ~None(queue[t], Reads(d))) =>
               /\ d \in pcons[Peer(t)] \/ ~None(wire[t], Creates(d))
               /\ None(wire[t], Closes(d))
        BY DEF ProxyInv, TokenInv
    <2>2. ~None(queue'[t], Writes(d)) => t \in failed
        BY <1>7, <2>1 DEF WritesStay
    <2>3. CASE t = s /\ d = c
        BY <1>1, <1>10, <1>14, <2>1, <2>2, <2>3 DEF OneRead
    <2>4. CASE ~(t = s /\ d = c)
        BY <1>8, <2>1, <2>2, <2>4 DEF OneRead
    <2>. QED
        BY <2>3, <2>4
<1>16. OrderInv'
    <2>1. \A t \in Side, d \in Con :
            /\ Receives(t, d)' <=> Receives(t, d)
            /\ Arrived(t, d)' = Arrived(t, d)
        BY <1>1 DEF Receives, Arrived
    <2>2. \A t \in Side, d \in Con : ~lost => Fed(t, d)' = Fed(t, d)
        <3>. SUFFICES ASSUME NEW t \in Side, NEW d \in Con, ~lost
                      PROVE  Fed(t, d)' = Fed(t, d)
            OBVIOUS
        <3>1. CASE t = s /\ d = c
            <4>1. Fed(s, c) = taken[s][c]
                BY <1>14, <3>1 DEF Fed
            <4>2. None(queue'[s], HasRead(c)) <=> ~ok
                BY <1>5, <1>6, <1>14, <3>1
            <4>3. Fed(s, c)' = IF None(queue'[s], HasRead(c)) THEN taken'[s][c]
                               ELSE taken'[s][c] - 1
                BY DEF Fed
            <4>4. (taken[s][c] + 1) - 1 = taken[s][c]
                BY <1>9
            <4>. QED
                BY <1>9, <3>1, <4>1, <4>2, <4>3, <4>4
        <3>2. CASE ~(t = s /\ d = c)
            BY <1>8, <3>2 DEF Fed
        <3>. QED
            BY <3>1, <3>2
    <2>3. ASSUME NEW t \in Side, NEW d \in Con, Receives(t, d)
          PROVE  Flow(wire[Peer(t)], d, Arrived(t, d), taken'[Peer(t)][d])
        <3>1. /\ Flow(wire[Peer(t)], d, Arrived(t, d), taken[Peer(t)][d])
              /\ Peer(t) \in Side
            BY <2>3, PeerIs DEF ProxyInv, OrderInv
        <3>2. /\ wire[Peer(t)] \in Seq(Sealeds)
              /\ Arrived(t, d) \in Nat /\ taken[Peer(t)][d] \in Nat
            BY <1>3, <3>1, LensAre DEF TypeOK, Sealeds
        <3>3. Flow(wire[Peer(t)], d, Arrived(t, d), taken[Peer(t)][d] + 1)
            BY <3>1, <3>2, FlowMore
        <3>4. taken'[Peer(t)][d] \in {taken[Peer(t)][d], taken[Peer(t)][d] + 1}
            BY <1>8, <1>9, <3>1
        <3>. QED
            BY <3>1, <3>3, <3>4
    <2>4. \A t \in Side, d \in Con : ~lost => Fed(Peer(t), d)' = Fed(Peer(t), d)
        BY <2>2, PeerIs
    <2>. QED
        BY <1>1, <2>1, <2>3, <2>4 DEF ProxyInv, OrderInv
<1>17. /\ FaultInv' /\ DiesOfFaults' /\ HandshakeInv' /\ CreateInv' /\ WireInv'
       /\ ControlInv' /\ AcceptInv'
    BY <1>1, <1>7, FaultFrame, DeathFrame, HandshakeFrame, CreateFrame, WireFrame,
       ControlFrame, AcceptFrame DEF ProxyInv
<1>. QED
    BY <1>11, <1>13, <1>15, <1>16, <1>17 DEF ProxyInv

(* The write at the front is done, or fails.                               *)
LEMMA WriteReadyKeeps ==
    ASSUME ProxyInv, NEW s \in Side, NEW c \in Con, WriteReady(s, c)
    PROVE  ProxyInv'
<1>1. /\ UNCHANGED <<dh, wire, control, linked, lost, acceptor, pcons, sock, reading,
                     taken, outside, sent, dead>>
      /\ dead[s] = "no" /\ UNCHANGED part
    BY DEF WriteReady, link, cons
<1>2. TypeOK
    BY DEF ProxyInv
<1>3. PICK w : w = writing[s][c]
    OBVIOUS
<1>4. PICK k \in Due(s, c) :
      /\ writing' = [writing EXCEPT ![s][c] = RemoveAt(@, k)]
      /\ \/ /\ outside[s][c] = "open"
            /\ got' = [got EXCEPT ![s][c] = Append(@, writing[s][c][k])]
            /\ UNCHANGED <<queue, failed>>
         \/ /\ outside[s][c] = "closed"
            /\ \/ Post(s, Handler("write", c, FALSE)) /\ failed' = failed \cup {s}
               \/ UNCHANGED <<queue, failed>>
            /\ UNCHANGED got
    BY DEF WriteReady
<1>5. PICK v : v = RemoveAt(w, k)
    OBVIOUS
<1>5a. /\ w \in Seq(Con \X Nat) /\ k \in 1 .. Len(w) /\ w # << >>
       /\ w[k] \in Con \X Nat /\ v \in Seq(Con \X Nat)
       /\ \A j \in 1 .. k - 1 : w[j][2] \in part[s][c]
    <2>1. writing \in [Side -> [Con -> Seq(Con \X Nat)]]
        BY <1>2 DEF TypeOK
    <2>2. w \in Seq(Con \X Nat) /\ DOMAIN w = 1 .. Len(w) /\ Len(w) \in Nat
        BY <1>3, <2>1
    <2>3. k \in DOMAIN w /\ \A j \in 1 .. k - 1 : w[j][2] \in part[s][c]
        BY <1>3 DEF Due
    <2>4. k \in 1 .. Len(w)
        BY <2>2, <2>3
    <2>5. w # << >> /\ w[k] \in Con \X Nat
        BY <2>2, <2>4, ElementOfSeq
    <2>6. v \in Seq(Con \X Nat)
        BY <1>5, <2>2, <2>4, Removed
    <2>. QED
        BY <2>2, <2>3, <2>4, <2>5, <2>6
<1>6. /\ writing' \in [Side -> [Con -> Seq(Con \X Nat)]] /\ writing'[s][c] = v
      /\ \A t \in Side, d \in Con : ~(t = s /\ d = c) => writing'[t][d] = writing[t][d]
    <2>1. writing' = [writing EXCEPT ![s] = [writing[s] EXCEPT ![c] = v]]
        BY <1>3, <1>4, <1>5
    <2>2. writing \in [Side -> [Con -> Seq(Con \X Nat)]]
        BY <1>2 DEF TypeOK
    <2>. QED
        BY <1>5a, <2>1, <2>2
<1>7. PICK g : g = IF outside[s][c] = "open" THEN Append(got[s][c], w[k]) ELSE got[s][c]
    OBVIOUS
<1>8. /\ got' \in [Side -> [Con -> Seq(Con \X Nat)]] /\ got'[s][c] = g
      /\ \A t \in Side, d \in Con : ~(t = s /\ d = c) => got'[t][d] = got[t][d]
      /\ g \in Seq(Con \X Nat) /\ got[s][c] \in Seq(Con \X Nat)
    <2>1. got \in [Side -> [Con -> Seq(Con \X Nat)]] /\ got[s][c] \in Seq(Con \X Nat)
        BY <1>2 DEF TypeOK
    <2>2. g \in Seq(Con \X Nat)
        BY <1>5a, <1>7, <2>1, AppendProperties
    <2>3. got' = [got EXCEPT ![s] = [got[s] EXCEPT ![c] = g]]
        <3>1. CASE outside[s][c] = "open"
            BY <1>3, <1>4, <1>7, <3>1
        <3>2. CASE outside[s][c] = "closed"
            <4>1. got' = got /\ g = got[s][c]
                BY <1>4, <1>7, <3>2
            <4>. QED
                BY <2>1, <4>1
        <3>. QED
            BY <1>4, <3>1, <3>2
    <2>. QED
        BY <2>1, <2>2, <2>3
<1>9. /\ queue' \in [Side -> Seq(Handlers)]
      /\ ControlsStay /\ AcceptsStay /\ ReadsStay
      /\ failed \subseteq failed' /\ failed' \subseteq Side
      /\ \A t \in Side, d \in Con :
            /\ ~(t = s /\ d = c) =>
                 (None(queue'[t], Writes(d)) <=> None(queue[t], Writes(d)))
            /\ ~None(queue'[t], Writes(d)) =>
                 ~None(queue[t], Writes(d)) \/ t \in failed'
    <2>1. CASE UNCHANGED <<queue, failed>>
        BY <1>2, <2>1, AllStay DEF TypeOK
    <2>2. CASE Post(s, Handler("write", c, FALSE)) /\ failed' = failed \cup {s}
        <3>1. PICK h : h = Handler("write", c, FALSE)
            OBVIOUS
        <3>2. /\ h \in Handlers /\ h \notin Controls /\ h \notin Accepts
              /\ \A d : /\ h \notin AcceptsOf(d) /\ h \notin Reads(d)
                        /\ h \notin HasRead(d)
                        /\ h \in Writes(d) <=> c = d
            BY <3>1, HandlerIs, PostedIn
        <3>3. /\ queue' \in [Side -> Seq(Handlers)]
              /\ \A t \in Side : t # s => queue'[t] = queue[t]
              /\ \A S : /\ None(queue'[s], S) <=> h \notin S /\ None(queue[s], S)
                        /\ Single(queue[s], S) /\ h \notin S => Single(queue'[s], S)
                        /\ None(queue[s], S) => Single(queue'[s], S)
            BY <1>2, <2>2, <3>1, <3>2, PostIs
        <3>4. ControlsStay /\ AcceptsStay /\ ReadsStay
            BY <3>2, <3>3 DEF ControlsStay, AcceptsStay, ReadsStay, Side
        <3>5. \A t \in Side, d \in Con :
                /\ ~(t = s /\ d = c) =>
                     (None(queue'[t], Writes(d)) <=> None(queue[t], Writes(d)))
                /\ ~None(queue'[t], Writes(d)) =>
                     ~None(queue[t], Writes(d)) \/ t \in failed'
            BY <2>2, <3>2, <3>3
        <3>. QED
            BY <1>2, <2>2, <3>3, <3>4, <3>5 DEF TypeOK
    <2>. QED
        BY <1>4, <2>1, <2>2
<1>10. TypeOK'
    BY <1>1, <1>2, <1>6, <1>8, <1>9 DEF TypeOK
<1>11. sock[s][c] = "open"
    BY <1>3, <1>5a DEF ProxyInv, FreshInv
<1>12. FreshInv'
    <2>1. /\ sock[s][c] # "none"
          /\ \A t \in Side, d \in Con : ~(t = s /\ d = c) =>
                /\ None(queue'[t], Reads(d)) <=> None(queue[t], Reads(d))
                /\ None(queue'[t], Writes(d)) <=> None(queue[t], Writes(d))
                /\ writing'[t][d] = writing[t][d] /\ got'[t][d] = got[t][d]
        BY <1>6, <1>8, <1>9, <1>11 DEF ReadsStay
    <2>. QED
        BY <1>1, <1>11, <2>1 DEF ProxyInv, FreshInv
<1>13. TokenInv'
    BY <1>1, <1>9, TokenFrame DEF ProxyInv
<1>14. OrderInv'
    <2>1. \A t \in Side, d \in Con : Receives(t, d)' <=> Receives(t, d)
        BY <1>1 DEF Receives
    <2>2. \A t \in Side, d \in Con : Fed(t, d)' = Fed(t, d)
        BY <1>1, <1>9 DEF Fed, ReadsStay
    <2>3. \A t \in Side, d \in Con : Fed(Peer(t), d)' = Fed(Peer(t), d)
        BY <2>2, PeerIs
    <2>4. Len(got[s][c]) \in Nat
        BY <1>2, LensAre
    <2>5. CASE outside[s][c] = "open"
        <3>1. Receives(s, c)
            BY <1>1, <1>11, <2>5 DEF Receives
        <3>2. PICK p \in Side : p = Peer(s)
            BY PeerIs
        <3>3. taken[p][c] <= sent[p][c] /\ taken[p][c] \in Nat /\ sent[p][c] \in Nat
            BY <1>2 DEF TypeOK
        <3>4. PICK u : u = got[s][c]
            OBVIOUS
        <3>5. /\ Delivered(u, part[s][c], c, sent[p][c])
              /\ Waiting(u, w, part[s][c], c)
              /\ Arrived(s, c) <= taken[p][c]
            BY <1>3, <3>1, <3>2, <3>4 DEF ProxyInv, OrderInv, Flow
        <3>6. u \in Seq(Con \X Nat) /\ g = Append(u, w[k])
            BY <1>7, <1>8, <2>5, <3>4
        <3>7. /\ Waiting(g, v, part[s][c], c) /\ Len(g) + Len(v) = Len(u) + Len(w)
              /\ \A top \in Nat :
                    Len(u) + Len(w) <= top /\ Delivered(u, part[s][c], c, top)
                      => Delivered(g, part[s][c], c, top)
          <4>1. Passes(w, k, part[s][c])
              BY <1>5a DEF Passes
          <4>. QED
              BY <1>5, <1>5a, <3>5, <3>6, <4>1, WaitingDone
        <3>8. Arrived(s, c) = Len(u) + Len(w)
            BY <1>3, <3>4 DEF Arrived
        <3>9. Len(u) + Len(w) <= sent[p][c]
          <4>1. Arrived(s, c) \in Nat
              BY <1>2, LensAre
          <4>. QED
              BY <3>3, <3>5, <3>8, <4>1
        <3>10. Delivered(g, part[s][c], c, sent[p][c])
            BY <3>3, <3>5, <3>7, <3>9
        <3>11. Arrived(s, c)' = Arrived(s, c)
            BY <1>6, <1>8, <3>7, <3>8 DEF Arrived
        <3>12. \A t \in Side, d \in Con : ~(t = s /\ d = c) =>
                    Arrived(t, d)' = Arrived(t, d)
            BY <1>6, <1>8 DEF Arrived
        <3>13. \A t \in Side, d \in Con : Arrived(t, d)' = Arrived(t, d)
            BY <3>11, <3>12
        <3>14. ASSUME NEW t \in Side, NEW d \in Con
               PROVE  /\ Delivered(got'[t][d], part'[t][d], d, sent[Peer(t)][d])
                      /\ Receives(t, d) =>
                           Waiting(got'[t][d], writing'[t][d], part'[t][d], d)
            <4>1. CASE t = s /\ d = c
                BY <1>1, <1>6, <1>8, <3>2, <3>7, <3>10, <4>1
            <4>2. CASE ~(t = s /\ d = c)
                <5>1. writing'[t][d] = writing[t][d] /\ got'[t][d] = got[t][d]
                    BY <1>6, <1>8, <4>2
                <5>. QED
                    BY <1>1, <5>1 DEF ProxyInv, OrderInv
            <4>. QED
                BY <4>1, <4>2
        <3>15. ASSUME NEW t \in Side, NEW d \in Con, Receives(t, d)
               PROVE  /\ Flow(wire[Peer(t)], d, Arrived(t, d), taken[Peer(t)][d])
                      /\ ~lost =>
                           /\ Flow(wire[Peer(t)], d, Arrived(t, d), Fed(Peer(t), d))
                           /\ Full(wire[Peer(t)], d, Arrived(t, d), Fed(Peer(t), d))
            BY <3>15 DEF ProxyInv, OrderInv
        <3>. QED
            BY <1>1, <2>1, <2>3, <3>13, <3>14, <3>15 DEF OrderInv
    <2>6. CASE outside[s][c] = "closed"
        <3>1. ~Receives(s, c) /\ got' = got
            BY <1>1, <1>4, <2>6 DEF Receives
        <3>2. \A t \in Side, d \in Con : Receives(t, d)' =>
                    Receives(t, d) /\ writing'[t][d] = writing[t][d]
            BY <1>6, <2>1, <3>1
        <3>. QED
            BY <1>1, <1>2, <1>9, <3>1, <3>2, AllStay, OrderFrame DEF ProxyInv
    <2>. QED
        BY <1>4, <2>5, <2>6
<1>15. /\ FaultInv' /\ DiesOfFaults' /\ HandshakeInv' /\ CreateInv' /\ WireInv'
       /\ ControlInv' /\ AcceptInv'
    BY <1>1, <1>9, FaultFrame, DeathFrame, HandshakeFrame, CreateFrame, WireFrame,
       ControlFrame, AcceptFrame DEF ProxyInv
<1>. QED
    BY <1>10, <1>12, <1>13, <1>14, <1>15 DEF ProxyInv

(* A write takes one more call.                                            *)
LEMMA WritePartKeeps ==
    ASSUME ProxyInv, NEW s \in Side, NEW c \in Con, WritePart(s, c)
    PROVE  ProxyInv'
<1>1. UNCHANGED <<dh, wire, control, linked, lost, queue, acceptor, pcons, sock,
                  reading, taken, writing, outside, sent, got, dead, failed>>
    BY DEF WritePart, link, cons, ends
<1>2. TypeOK
    BY DEF ProxyInv
<1>3. PICK k \in Due(s, c) :
        part' = [part EXCEPT ![s][c] = @ \cup {writing[s][c][k][2]}]
    BY DEF WritePart
<1>4. writing[s][c][k][2] \in Nat
    <2>1. writing \in [Side -> [Con -> Seq(Con \X Nat)]]
        BY <1>2 DEF TypeOK
    <2>2. PICK w \in Seq(Con \X Nat) : w = writing[s][c]
        BY <2>1
    <2>3. k \in 1 .. Len(w)
        BY <2>2 DEF Due
    <2>4. w[k] \in Con \X Nat
        BY <2>3, ElementOfSeq
    <2>. QED
        BY <2>2, <2>4
<1>5. /\ part' \in [Side -> [Con -> SUBSET Nat]]
      /\ \A t \in Side, d \in Con : part[t][d] \subseteq part'[t][d]
    <2>1. part \in [Side -> [Con -> SUBSET Nat]]
        BY <1>2 DEF TypeOK
    <2>2. PICK q : q = [part[s] EXCEPT ![c] = part[s][c] \cup {writing[s][c][k][2]}]
        OBVIOUS
    <2>3. q \in [Con -> SUBSET Nat] /\ \A d \in Con : part[s][d] \subseteq q[d]
        BY <1>4, <2>1, <2>2
    <2>4. part' = [part EXCEPT ![s] = q]
        BY <1>3, <2>2
    <2>. QED
        BY <2>1, <2>3, <2>4
<1>6. TypeOK'
    BY <1>1, <1>2, <1>5 DEF TypeOK
<1>7. OrderInv'
    <2>1. ASSUME NEW t \in Side, NEW d \in Con
          PROVE  Delivered(got[t][d], part'[t][d], d, sent[Peer(t)][d])
        <3>1. PICK q \in Side : q = Peer(t)
            BY PeerIs
        <3>2. sent[q][d] \in Nat /\ sent[q][d] <= sent[q][d]
          <4>1. sent \in [Side -> [Con -> Nat]]
              BY <1>2 DEF TypeOK
          <4>2. \A x \in Nat : x <= x
              OBVIOUS
          <4>. QED
              BY <4>1, <4>2
        <3>3. Delivered(got[t][d], part[t][d], d, sent[q][d])
            BY <3>1 DEF ProxyInv, OrderInv
        <3>. QED
            BY <1>5, <3>1, <3>2, <3>3, DeliveredMore
    <2>2. ASSUME NEW t \in Side, NEW d \in Con, Receives(t, d)
          PROVE  Waiting(got[t][d], writing[t][d], part'[t][d], d)
        <3>1. Waiting(got[t][d], writing[t][d], part[t][d], d)
            BY <2>2 DEF ProxyInv, OrderInv
        <3>. QED
            BY <1>5, <3>1, WaitingMore
    <2>3. ASSUME NEW t \in Side, NEW d \in Con
          PROVE  /\ Receives(t, d)' <=> Receives(t, d)
                 /\ Arrived(t, d)' = Arrived(t, d)
                 /\ Fed(Peer(t), d)' = Fed(Peer(t), d)
        BY <1>1 DEF Receives, Arrived, Fed
    <2>. QED
        BY <1>1, <2>1, <2>2, <2>3 DEF ProxyInv, OrderInv
<1>8. /\ ControlsStay /\ AcceptsStay /\ ReadsStay /\ FreshInv'
      /\ TokenInv' /\ WireInv' /\ CreateInv' /\ AcceptInv'
    BY <1>1 DEF ProxyInv, ControlsStay, AcceptsStay, ReadsStay, FreshInv,
                TokenInv, OneRead, WireInv, CreateInv, AcceptInv
<1>9. FaultInv' /\ DiesOfFaults' /\ ControlInv' /\ HandshakeInv'
    BY <1>1, <1>8, FaultFrame, DeathFrame, ControlFrame, HandshakeFrame DEF ProxyInv
<1>. QED
    BY <1>6, <1>7, <1>8, <1>9 DEF ProxyInv

(* A user connects to the mapped port.                                     *)
LEMMA UserConnectsKeeps ==
    ASSUME ProxyInv, NEW c \in Con, UserConnects(c)
    PROVE  ProxyInv'
<1>1. /\ UNCHANGED <<dh, wire, control, linked, lost, pcons, sock, reading, taken,
                     writing, sent, got, part, dead, failed>>
      /\ acceptor = "armed" /\ acceptor' = "ready"
      /\ \A d \in Con : outside["relay"][d] = "none" <=> c <= d
      /\ outside' = [outside EXCEPT !["relay"][c] = "open"]
      /\ Post("relay", Handler("accept", c, TRUE))
    BY DEF UserConnects, link, cons
<1>2. TypeOK /\ "relay" \in Side
    BY DEF ProxyInv, Side
<1>3. PICK h : h = Handler("accept", c, TRUE)
    OBVIOUS
<1>4. /\ h \in Handlers /\ h \notin Controls /\ h \in Accepts
      /\ \A d : /\ h \notin Reads(d) /\ h \notin HasRead(d) /\ h \notin Writes(d)
                /\ h \in AcceptsOf(d) <=> c = d
    <2>1. h \in Handlers
        BY <1>3, HandlerIs
    <2>2. h.kind = "accept" /\ h.ok /\ h.con = c
        BY <1>3 DEF Handler
    <2>. QED
        BY <2>1, <2>2, HandlerIn
<1>5. /\ queue' \in [Side -> Seq(Handlers)]
      /\ \A t \in Side : t # "relay" => queue'[t] = queue[t]
      /\ \A S : /\ None(queue'["relay"], S) <=> h \notin S /\ None(queue["relay"], S)
                /\ Single(queue["relay"], S) /\ h \notin S => Single(queue'["relay"], S)
                /\ None(queue["relay"], S) => Single(queue'["relay"], S)
    BY <1>1, <1>2, <1>3, <1>4, PostIs
<1>6. ControlsStay /\ ReadsStay /\ WritesStay
    BY <1>2, <1>4, <1>5 DEF ControlsStay, ReadsStay, WritesStay
<1>7. /\ outside["relay"][c] = "none" /\ outside'["relay"][c] = "open"
      /\ outside' \in [Side -> [Con -> {"none", "open", "closed"}]]
      /\ \A t \in Side, d \in Con : ~(t = "relay" /\ d = c) => outside'[t][d] = outside[t][d]
    <2>1. c <= c
        BY DEF Con
    <2>2. outside["relay"][c] = "none"
        BY <1>1, <2>1
    <2>. QED
        BY <1>1, <1>2, <2>2 DEF TypeOK
<1>8. TypeOK'
    BY <1>1, <1>2, <1>5, <1>7 DEF TypeOK
<1>9. sock["relay"][c] = "none"
    BY <1>7 DEF ProxyInv, FreshInv
<1>10. FreshInv'
    <2>1. \A s \in Side, d \in Con :
            /\ None(queue'[s], Reads(d)) <=> None(queue[s], Reads(d))
            /\ None(queue'[s], Writes(d)) <=> None(queue[s], Writes(d))
        BY <1>6 DEF ReadsStay, WritesStay
    <2>2. \A d \in Con : outside'["home"][d] = outside["home"][d]
        BY <1>7 DEF Side
    <2>3. \A d \in Con : outside'["relay"][d] = "none" => outside["relay"][d] = "none"
        BY <1>2, <1>7
    <2>. QED
        BY <1>1, <2>1, <2>2, <2>3 DEF ProxyInv, FreshInv
<1>11. AcceptInv'
    <2>1. None(queue["relay"], Accepts)
        BY <1>1 DEF ProxyInv, AcceptInv
    <2>2. Single(queue'["relay"], Accepts)
        BY <1>5, <2>1
    <2>3. \A d \in Con : ~None(queue'["relay"], AcceptsOf(d)) => d = c
        BY <1>4, <1>5, <2>1, NoneWithin
    <2>. QED
        BY <1>1, <1>7, <1>9, <2>2, <2>3 DEF AcceptInv
<1>12. FaultInv' /\ HandshakeInv'
    <2>1. Mapped
        BY <1>1 DEF ProxyInv, HandshakeInv, HelloOut, HelloBack, Mapping
    <2>2. Mapped'
        BY <1>1, <2>1 DEF Mapped
    <2>3. HandshakeInv'
        BY <1>1, <2>2 DEF ProxyInv, HandshakeInv
    <2>. QED
        BY <1>1, <2>3 DEF ProxyInv, FaultInv
<1>13. TokenInv'
    BY <1>1, <1>6, TokenFrame DEF ProxyInv, WritesStay
<1>14. OrderInv'
    <2>1. \A s \in Side, d \in Con : Receives(s, d)' => Receives(s, d)
        BY <1>1, <1>7 DEF Receives
    <2>. QED
        BY <1>1, <1>2, <1>6, <2>1, AllStay, OrderFrame DEF ProxyInv
<1>15. DiesOfFaults' /\ CreateInv' /\ WireInv' /\ ControlInv'
    BY <1>1, <1>6, DeathFrame, CreateFrame, WireFrame, ControlFrame DEF ProxyInv
<1>. QED
    BY <1>8, <1>10, <1>11, <1>12, <1>13, <1>14, <1>15 DEF ProxyInv

(* An accept that was aborted.                                             *)
LEMMA OnAcceptErrorKeeps ==
    ASSUME ProxyInv, OnAcceptError
    PROVE  ProxyInv'
<1>1. /\ UNCHANGED <<dh, wire, control, linked, lost, acceptor, pcons, sock, reading,
                     taken, writing, outside, sent, got, part, dead, failed>>
      /\ queue["relay"] # << >> /\ Now("relay").kind = "accept" /\ ~Now("relay").ok
      /\ Ran("relay", << >>)
    BY DEF OnAcceptError, Runs, link, cons, ends
<1>2. TypeOK /\ "relay" \in Side
    BY DEF ProxyInv, Side
<1>3. PICK h : h = Now("relay")
    OBVIOUS
<1>4. /\ queue' \in [Side -> Seq(Handlers)] /\ h \in Handlers
      /\ \A t \in Side : t # "relay" => queue'[t] = queue[t]
      /\ \A S : /\ None(queue["relay"], S) <=> h \notin S /\ None(Rest("relay"), S)
                /\ None(queue'["relay"], S) <=> None(Rest("relay"), S)
                /\ Single(queue["relay"], S) => Single(queue'["relay"], S)
    BY <1>1, <1>2, <1>3, MoreIs, RanIs
<1>5. /\ h \notin Controls /\ h \notin Accepts
      /\ \A d : /\ h \notin Reads(d) /\ h \notin HasRead(d) /\ h \notin Writes(d)
                /\ h \notin AcceptsOf(d)
    BY <1>1, <1>3, <1>4, HandlerIn
<1>6. ControlsStay /\ AcceptsStay /\ ReadsStay /\ WritesStay
    BY <1>2, <1>4, <1>5 DEF ControlsStay, AcceptsStay, ReadsStay, WritesStay
<1>7. TypeOK'
    BY <1>1, <1>2, <1>4 DEF TypeOK
<1>8. FreshInv'
    BY <1>1, <1>6 DEF ProxyInv, FreshInv, ReadsStay, WritesStay
<1>9. TokenInv'
    BY <1>1, <1>6, TokenFrame DEF ProxyInv, WritesStay
<1>10. OrderInv'
    BY <1>1, <1>2, <1>6, AllStay, OrderFrame DEF ProxyInv, Receives
<1>11. /\ FaultInv' /\ DiesOfFaults' /\ HandshakeInv' /\ CreateInv' /\ WireInv'
       /\ ControlInv' /\ AcceptInv'
    BY <1>1, <1>6, FaultFrame, DeathFrame, HandshakeFrame, CreateFrame, WireFrame,
       ControlFrame, AcceptFrame DEF ProxyInv
<1>. QED
    BY <1>7, <1>8, <1>9, <1>10, <1>11 DEF ProxyInv

-----------------------------------------------------------------------------
(* What s sends is at the end of its wire, unless the connection is broken. *)
Sends(s, x) ==
    /\ wire' \in [Side -> Seq(Sealeds)] /\ x \in Sealeds
    /\ wire'[Peer(s)] = wire[Peer(s)]
    /\ lost => wire' = wire
    /\ ~lost => wire'[s] = Append(wire[s], x)

(* What that means for what is on the wire.                                *)
LEMMA SendsIs ==
    ASSUME TypeOK, NEW s \in Side, NEW x, Sends(s, x)
    PROVE  /\ \A t \in Side : t # s => wire'[t] = wire[t]
           /\ \A t \in Side : wire'[t] = << >> => wire[t] = << >>
           /\ \A t \in Side : \A S : /\ x \notin S => (None(wire'[t], S) <=> None(wire[t], S))
                                     /\ x \notin S /\ Single(wire[t], S) => Single(wire'[t], S)
                                     /\ ~None(wire[t], S) => ~None(wire'[t], S)
           /\ \A t \in Side : \A A, B :
                /\ Ends(wire[t], A, B) /\ (x \in B => None(wire[t], A)) =>
                     Ends(wire'[t], A, B)
                /\ Leads(wire[t], A, B) /\ (x \in B => ~None(wire[t], A)) =>
                     Leads(wire'[t], A, B)
           /\ \A t \in Side, c \in Con : x \notin Carries(c) =>
                \A d, top \in Nat : Flow(wire[t], c, d, top) =>
                    /\ Flow(wire'[t], c, d, top)
                    /\ Full(wire[t], c, d, top) => Full(wire'[t], c, d, top)
<1>1. /\ wire[s] \in Seq(Sealeds) /\ x \in Sealeds
      /\ \A t \in Side : t # s => wire'[t] = wire[t]
    BY PeerIs DEF TypeOK, Sealeds, Sends
<1>2. CASE lost
    BY <1>2 DEF Sends
<1>3. CASE ~lost
    <2>1. wire'[s] = Append(wire[s], x)
        BY <1>3 DEF Sends
    <2>2. wire'[s] # << >> /\ Pushes(wire'[s], wire[s], x)
        BY <1>1, <2>1, Pushed
    <2>3. \A c \in Con : x \notin Carries(c) =>
            \A d, top \in Nat : Flow(wire[s], c, d, top) =>
                /\ Flow(wire'[s], c, d, top)
                /\ Full(wire[s], c, d, top) => Full(wire'[s], c, d, top)
        BY <1>1, <2>1, FlowPushed
    <2>4. \A S : /\ x \notin S => (None(wire'[s], S) <=> None(wire[s], S))
                 /\ x \notin S /\ Single(wire[s], S) => Single(wire'[s], S)
                 /\ ~None(wire[s], S) => ~None(wire'[s], S)
        BY <2>2 DEF Pushes
    <2>5. \A A, B : /\ Ends(wire[s], A, B) /\ (x \in B => None(wire[s], A)) =>
                         Ends(wire'[s], A, B)
                    /\ Leads(wire[s], A, B) /\ (x \in B => ~None(wire[s], A)) =>
                         Leads(wire'[s], A, B)
        BY <2>2 DEF Pushes
    <2>6. \A t \in Side : \A S : /\ x \notin S => (None(wire'[t], S) <=> None(wire[t], S))
                                 /\ x \notin S /\ Single(wire[t], S) => Single(wire'[t], S)
                                 /\ ~None(wire[t], S) => ~None(wire'[t], S)
        <3>. SUFFICES ASSUME NEW t \in Side, NEW S
                      PROVE  /\ x \notin S => (None(wire'[t], S) <=> None(wire[t], S))
                             /\ x \notin S /\ Single(wire[t], S) => Single(wire'[t], S)
                             /\ ~None(wire[t], S) => ~None(wire'[t], S)
            OBVIOUS
        <3>1. CASE t = s
            BY <2>4, <3>1
        <3>2. CASE t # s
            BY <1>1, <3>2
        <3>. QED
            BY <3>1, <3>2
    <2>7. \A t \in Side : \A A, B :
                /\ Ends(wire[t], A, B) /\ (x \in B => None(wire[t], A)) =>
                     Ends(wire'[t], A, B)
                /\ Leads(wire[t], A, B) /\ (x \in B => ~None(wire[t], A)) =>
                     Leads(wire'[t], A, B)
        <3>. SUFFICES ASSUME NEW t \in Side, NEW A, NEW B
                      PROVE  /\ Ends(wire[t], A, B) /\ (x \in B => None(wire[t], A)) =>
                                  Ends(wire'[t], A, B)
                             /\ Leads(wire[t], A, B) /\ (x \in B => ~None(wire[t], A)) =>
                                  Leads(wire'[t], A, B)
            OBVIOUS
        <3>1. CASE t = s
            BY <2>5, <3>1
        <3>2. CASE t # s
            BY <1>1, <3>2
        <3>. QED
            BY <3>1, <3>2
    <2>8. \A t \in Side : wire'[t] = << >> => wire[t] = << >>
        BY <1>1, <2>2
    <2>9. \A t \in Side, c \in Con : x \notin Carries(c) =>
            \A d, top \in Nat : Flow(wire[t], c, d, top) =>
                /\ Flow(wire'[t], c, d, top)
                /\ Full(wire[t], c, d, top) => Full(wire'[t], c, d, top)
        <3>. SUFFICES ASSUME NEW t \in Side, NEW c \in Con, x \notin Carries(c)
                      PROVE  \A d, top \in Nat : Flow(wire[t], c, d, top) =>
                                /\ Flow(wire'[t], c, d, top)
                                /\ Full(wire[t], c, d, top) => Full(wire'[t], c, d, top)
            OBVIOUS
        <3>1. CASE t = s
            BY <2>3, <3>1
        <3>2. CASE t # s
            BY <1>1, <3>2
        <3>. QED
            BY <3>1, <3>2
    <2>. QED
        BY <1>1, <2>6, <2>7, <2>8, <2>9
<1>. QED
    BY <1>2, <1>3

(* After the handshake what is sent is encrypted.                          *)
LEMMA SentSealed ==
    ASSUME TypeOK, Mapped, NEW s \in Side, NEW m \in Message, Send(s, m)
    PROVE  /\ Sends(s, Encrypted(s, m))
           /\ Encrypted(s, m) \in Sealeds /\ Encrypted(s, m).msg = m
           /\ m.id \notin {"init_diffie_hellman", "create_server"} =>
                Encrypted(s, m) \notin Early
<1>1. /\ wire' \in [Side -> Seq(Sealeds)]
      /\ Encrypted(s, m) \in Sealeds
      /\ Encrypted(s, m).msg = m /\ Encrypted(s, m).enc = (dh[s] = "shared")
      /\ wire'[Peer(s)] = wire[Peer(s)]
      /\ lost => wire' = wire
      /\ ~lost => wire'[s] = Append(wire[s], Encrypted(s, m))
    BY SendIs
<1>2. dh[s] = "shared"
    BY DEF Mapped, Side
<1>3. m.id \notin {"init_diffie_hellman", "create_server"} =>
        Encrypted(s, m) \notin Early
    BY <1>1, <1>2, MessageIs
<1>. QED
    BY <1>1, <1>3 DEF Sends

(* A handler speaks of its connection, and the connection may be broken:   *)
(* then nothing is sent, and the process may be down.                      *)
LEMMA EchoSends ==
    ASSUME ProxyInv, Mapped, NEW s \in Side, NEW m \in Message, Echo(s, m),
           m.id \notin {"init_diffie_hellman", "create_server"}
    PROVE  \E x \in Sealeds :
               /\ Sends(s, x) /\ x.msg = m /\ x \notin Early
               /\ dead' \in [Side -> {"no", "freed", "unknown", "no acceptor"}]
               /\ \A t \in Side : dead'[t] # dead[t] => t = s /\ dead'[t] = "freed" /\ lost
<1>1. TypeOK /\ FaultInv
    BY DEF ProxyInv
<1>2. dead \in [Side -> {"no", "freed", "unknown", "no acceptor"}]
    BY <1>1 DEF TypeOK
<1>3. CASE Send(s, m) /\ UNCHANGED dead
    <2>1. PICK x : x = Encrypted(s, m)
        OBVIOUS
    <2>2. x \in Sealeds /\ Sends(s, x) /\ x.msg = m /\ x \notin Early
        BY <1>1, <1>3, <2>1, SentSealed
    <2>. QED
        BY <1>2, <1>3, <2>2
<1>4. CASE lost /\ UNCHANGED wire /\ dead' \in {dead, [dead EXCEPT ![s] = "freed"]}
    <2>1. PICK x : x = Sealed(m, TRUE)
        OBVIOUS
    <2>2. x \in Sealeds /\ x.msg = m /\ x.enc
        BY <2>1, SealedIs
    <2>3. x \notin Early
        BY <2>2, MessageIs
    <2>4. wire \in [Side -> Seq(Sealeds)]
        BY <1>1 DEF TypeOK, Sealeds
    <2>5. Sends(s, x)
        BY <1>4, <2>2, <2>4 DEF Sends
    <2>6. /\ dead' \in [Side -> {"no", "freed", "unknown", "no acceptor"}]
          /\ \A t \in Side : dead'[t] # dead[t] => t = s /\ dead'[t] = "freed"
        BY <1>2, <1>4
    <2>. QED
        BY <1>4, <2>2, <2>3, <2>5, <2>6
<1>. QED
    BY <1>1, <1>3, <1>4, EchoIs

(* What a handler that speaks leaves of the parts that are not about its   *)
(* connection.                                                             *)
LEMMA EchoFrame ==
    ASSUME ProxyInv, Mapped, NEW s \in Side, NEW x \in Sealeds, Sends(s, x),
           x \notin Early, \A c : x \notin Creates(c),
           UNCHANGED <<dh, linked, lost, acceptor, pcons, sock, failed, control>>,
           ControlsStay,
           \A t \in Side : dead'[t] # dead[t] => dead'[t] = "freed" /\ lost
    PROVE  /\ FaultInv' /\ DiesOfFaults' /\ HandshakeInv' /\ CreateInv' /\ ControlInv'
<1>1. TypeOK
    BY DEF ProxyInv
<1>2. /\ \A t \in Side : wire'[t] = << >> => wire[t] = << >>
      /\ \A t \in Side : \A S : /\ x \notin S => (None(wire'[t], S) <=> None(wire[t], S))
                                /\ x \notin S /\ Single(wire[t], S) => Single(wire'[t], S)
    BY <1>1, SendsIs
<1>3. "relay" \in Side /\ "home" \in Side
    BY DEF Side
<1>4. HandshakeInv'
    <2>1. Mapped'
        BY <1>2, <1>3 DEF Mapped
    <2>. QED
        BY <1>2, <1>3, <2>1 DEF ProxyInv, HandshakeInv
<1>5. CreateInv'
    BY <1>2, <1>3 DEF ProxyInv, CreateInv
<1>6. ControlInv'
    BY <1>2, ControlFrame DEF ProxyInv
<1>7. FaultInv' /\ DiesOfFaults'
    <2>1. \A t \in Side : dead'[t] = dead[t] \/ lost
        OBVIOUS
    <2>2. \A t \in Side : dead'[t] = "unknown" => dead[t] = "unknown"
        OBVIOUS
    <2>3. linked' = linked /\ acceptor' = acceptor /\ lost' = lost /\ failed' = failed
        OBVIOUS
    <2>4. \A t \in Side : dead[t] \in {"freed", "no acceptor"} => lost
        BY DEF ProxyInv, FaultInv
    <2>5. \A t \in Side : dead'[t] \in {"freed", "no acceptor"} => lost
        BY <2>1, <2>4, Zenon
    <2>6. (\A t \in Side : ~linked[t] => lost) /\ (acceptor = "closed" => lost)
        BY DEF ProxyInv, FaultInv
    <2>10. lost => lost'
        BY <2>3
    <2>11. \A t \in Side : dead'[t] \in {"freed", "no acceptor"} => lost'
        BY <2>5, <2>10, Zenon
    <2>12. \A t \in Side : ~linked'[t] => lost'
        BY <2>3, <2>6, <2>10
    <2>13. acceptor' = "closed" => lost'
        BY <2>3, <2>6, <2>10
    <2>7. FaultInv'
        BY <2>11, <2>12, <2>13, Zenon DEF FaultInv
    <2>8. \A t \in Side : dead'[t] = "unknown" => Peer(t) \in failed
        BY <2>2 DEF ProxyInv, DiesOfFaults
    <2>14. \A t \in Side : dead'[t] = "unknown" => Peer(t) \in failed'
        BY <2>3, <2>8
    <2>9. DiesOfFaults'
        BY <2>11, <2>14, Zenon DEF DiesOfFaults
    <2>. QED
        BY <2>7, <2>9
<1>. QED
    BY <1>4, <1>5, <1>6, <1>7

(* A chunk was read: it is forwarded, and the next is read.                *)
LEMMA OnReadKeeps ==
    ASSUME ProxyInv, NEW s \in Side, OnRead(s)
    PROVE  ProxyInv'
<1>a. PICK c : c = Now(s).con
    OBVIOUS
<1>b. PICK again : again = Handler("read", c, FALSE)
    OBVIOUS
<1>1. /\ UNCHANGED <<dh, control, linked, lost, acceptor, pcons, sock, taken,
                     writing, outside, sent, got, part, failed>>
      /\ queue[s] # << >> /\ Now(s).kind = "read" /\ Now(s).ok /\ dead[s] = "no"
      /\ Echo(s, ForwardWrite(c, taken[s][c]))
    BY <1>a DEF OnRead, Runs, ends
<1>2. PICK more :
        /\ Ran(s, more)
        /\ \/ /\ more = << >>
              /\ reading' = [reading EXCEPT ![s] = @ \cup {c}]
           \/ more = <<again>> /\ reading' = reading
    BY <1>a, <1>b DEF OnRead
<1>3. TypeOK /\ Peer(s) \in Side /\ Peer(s) # s
    BY PeerIs DEF ProxyInv
<1>4. /\ c \in Con /\ sock[s][c] # "none" /\ Mapped
      /\ Now(s) \in Reads(c) /\ ~None(queue[s], Reads(c))
    BY <1>1, <1>a, NowHasCon
<1>5. PICK n \in Nat : n = taken[s][c]
    BY <1>3, <1>4 DEF TypeOK
<1>6. PICK x \in Sealeds :
         /\ Sends(s, x) /\ x.msg = ForwardWrite(c, n) /\ x \notin Early
         /\ dead' \in [Side -> {"no", "freed", "unknown", "no acceptor"}]
         /\ \A t \in Side : dead'[t] # dead[t] => t = s /\ dead'[t] = "freed" /\ lost
    <2>1. PICK m \in Message : m = ForwardWrite(c, n) /\ m.id = "forward_write"
        BY <1>4, SealedIs
    <2>2. Echo(s, m) /\ m.id \notin {"init_diffie_hellman", "create_server"}
        BY <1>1, <1>5, <2>1
    <2>3. \E x \in Sealeds :
             /\ Sends(s, x) /\ x.msg = m /\ x \notin Early
             /\ dead' \in [Side -> {"no", "freed", "unknown", "no acceptor"}]
             /\ \A t \in Side : dead'[t] # dead[t] => t = s /\ dead'[t] = "freed" /\ lost
        BY <1>4, <2>2, EchoSends
    <2>. QED
        BY <2>1, <2>3
<1>7. /\ x.msg.data = n /\ x \in Carries(c)
      /\ \A d : /\ x \notin Creates(d) /\ x \notin Closes(d)
                /\ x \in Carries(d) => d = c
                /\ x \in About(d) => d = c
    <2>1. x.msg.id = "forward_write" /\ x.msg.con = c /\ x.msg.data = n
        <3>1. PICK m : m = ForwardWrite(c, n)
            OBVIOUS
        <3>2. m.id = "forward_write" /\ m.con = c /\ m.data = n
            BY <1>4, <3>1, SealedIs
        <3>. QED
            BY <1>6, <3>1, <3>2
    <2>. QED
        BY <2>1, MessageIs
<1>8. /\ \A t \in Side : t # s => wire'[t] = wire[t]
      /\ \A t \in Side : \A S : /\ x \notin S => (None(wire'[t], S) <=> None(wire[t], S))
                                /\ ~None(wire[t], S) => ~None(wire'[t], S)
      /\ \A t \in Side : \A A, B :
            /\ Ends(wire[t], A, B) /\ (x \in B => None(wire[t], A)) =>
                 Ends(wire'[t], A, B)
            /\ Leads(wire[t], A, B) /\ (x \in B => ~None(wire[t], A)) =>
                 Leads(wire'[t], A, B)
      /\ \A t \in Side, d \in Con : x \notin Carries(d) =>
            \A a, top \in Nat : Flow(wire[t], d, a, top) =>
                /\ Flow(wire'[t], d, a, top)
                /\ Full(wire[t], d, a, top) => Full(wire'[t], d, a, top)
    BY <1>3, <1>6, SendsIs
<1>9. /\ more \in Seq(Handlers) /\ \A S : Single(more, S)
      /\ None(more, Controls) /\ None(more, Accepts)
      /\ \A d : /\ None(more, AcceptsOf(d)) /\ None(more, Writes(d))
                /\ None(more, HasRead(d)) /\ (d # c => None(more, Reads(d)))
    <2>1. CASE more = << >>
        BY <2>1, MoreIs
    <2>2. CASE more = <<again>>
        <3>1. PICK h : h = again
            OBVIOUS
        <3>4. h \in Handlers /\ h.kind = "read" /\ h.con = c /\ ~h.ok
            <4>1. h \in Handlers
                BY <1>4, <1>b, <3>1, HandlerIs
            <4>. QED
                BY <1>b, <3>1, <4>1 DEF Handler
        <3>2. /\ h \in Handlers /\ h \notin Controls /\ h \notin Accepts
              /\ \A d : /\ h \notin AcceptsOf(d) /\ h \notin Writes(d)
                        /\ h \notin HasRead(d)
                        /\ d # c => h \notin Reads(d)
            BY <3>4, HandlerIn
        <3>3. more = <<h>>
            BY <2>2, <3>1
        <3>. QED
            BY <3>2, <3>3, MoreIs
    <2>. QED
        BY <1>2, <2>1, <2>2
<1>10. PICK h : h = Now(s)
    OBVIOUS
<1>11. /\ queue' \in [Side -> Seq(Handlers)] /\ h \in Handlers
       /\ \A t \in Side : t # s => queue'[t] = queue[t]
       /\ \A S : /\ None(queue[s], S) <=> h \notin S /\ None(Rest(s), S)
                 /\ None(queue'[s], S) <=> None(Rest(s), S) /\ None(more, S)
                 /\ Single(queue[s], S) => Single(Rest(s), S)
                 /\ Single(queue[s], S) /\ h \in S => None(Rest(s), S)
                 /\ Single(Rest(s), S) /\ None(more, S) => Single(queue'[s], S)
                 /\ None(Rest(s), S) /\ Single(more, S) => Single(queue'[s], S)
    BY <1>1, <1>2, <1>3, <1>9, <1>10, RanIs
<1>12. /\ h \notin Controls /\ h \notin Accepts
       /\ \A d : /\ h \notin AcceptsOf(d) /\ h \notin Writes(d)
                 /\ h \in Reads(d) <=> d = c
                 /\ h \in HasRead(d) <=> d = c
    <2>1. h.kind = "read" /\ h.ok /\ h.con = c
        BY <1>1, <1>10, <1>a
    <2>. QED
        BY <1>11, <2>1, HandlerIn
<1>13. ControlsStay /\ AcceptsStay /\ WritesStay
    BY <1>9, <1>11, <1>12 DEF ControlsStay, AcceptsStay, WritesStay, Side
<1>14. \A t \in Side, d \in Con : ~(t = s /\ d = c) =>
         /\ None(queue'[t], Reads(d)) <=> None(queue[t], Reads(d))
         /\ None(queue'[t], HasRead(d)) <=> None(queue[t], HasRead(d))
         /\ Single(queue[t], Reads(d)) => Single(queue'[t], Reads(d))
         /\ d \in reading'[t] <=> d \in reading[t]
    <2>1. \A t \in Side, d \in Con : ~(t = s /\ d = c) =>
            (d \in reading'[t] <=> d \in reading[t])
        <3>1. reading \in [Side -> SUBSET Con]
            BY <1>3 DEF TypeOK
        <3>2. CASE reading' = reading
            BY <3>2
        <3>3. CASE reading' = [reading EXCEPT ![s] = @ \cup {c}]
            BY <3>1, <3>3
        <3>. QED
            BY <1>2, <3>2, <3>3
    <2>. QED
        BY <1>9, <1>11, <1>12, <2>1
<1>15. ~lost => /\ None(Rest(s), Reads(c)) /\ None(queue'[s], HasRead(c))
                /\ Single(queue'[s], Reads(c)) /\ c \notin reading[s]
    <2>1. ~lost => OneRead(s, c)
        BY <1>4 DEF ProxyInv, TokenInv
    <2>2. ~lost => None(Rest(s), Reads(c))
        BY <1>11, <1>12, <2>1 DEF OneRead
    <2>. QED
        BY <1>4, <1>9, <1>11, <2>1, <2>2, NoneWithin DEF OneRead
<1>16. TypeOK'
    <2>1. reading' \in [Side -> SUBSET Con]
        <3>1. reading \in [Side -> SUBSET Con]
            BY <1>3 DEF TypeOK
        <3>2. CASE reading' = reading
            BY <3>1, <3>2
        <3>3. CASE reading' = [reading EXCEPT ![s] = @ \cup {c}]
            BY <1>4, <3>1, <3>3
        <3>. QED
            BY <1>2, <3>2, <3>3
    <2>. QED
        BY <1>1, <1>3, <1>6, <1>11, <2>1 DEF TypeOK, Sends, Sealeds
<1>17. FreshInv'
    <2>1. \A t \in Side, d \in Con : sock[t][d] = "none" =>
            /\ d \notin reading'[t]
            /\ None(queue'[t], Reads(d)) /\ None(queue'[t], Writes(d))
            /\ None(wire'[t], About(d))
        <3>. SUFFICES ASSUME NEW t \in Side, NEW d \in Con, sock[t][d] = "none"
                      PROVE  /\ d \notin reading'[t]
                             /\ None(queue'[t], Reads(d)) /\ None(queue'[t], Writes(d))
                             /\ None(wire'[t], About(d))
            OBVIOUS
        <3>1. ~(t = s /\ d = c)
            BY <1>4
        <3>2. /\ d \notin reading[t] /\ None(wire[t], About(d))
              /\ None(queue[t], Reads(d)) /\ None(queue[t], Writes(d))
            BY DEF ProxyInv, FreshInv
        <3>3. None(wire'[t], About(d))
            <4>1. CASE t = s
                BY <1>7, <1>8, <3>1, <3>2, <4>1
            <4>2. CASE t # s
                BY <1>8, <3>2, <4>2
            <4>. QED
                BY <4>1, <4>2
        <3>. QED
            BY <1>13, <1>14, <3>1, <3>2, <3>3 DEF WritesStay
    <2>. QED
        BY <1>1, <2>1 DEF ProxyInv, FreshInv
<1>18. TokenInv'
    <2>. SUFFICES ASSUME ~lost, NEW t \in Side, NEW d \in Con
                  PROVE  /\ OneRead(t, d)'
                         /\ ~None(queue'[t], Writes(d)) => t \in failed
                         /\ t \notin failed /\ (d \in reading'[t] \/ ~None(queue'[t], Reads(d))) =>
                              /\ d \in pcons[Peer(t)] \/ ~None(wire'[t], Creates(d))
                              /\ None(wire'[t], Closes(d))
        BY <1>1 DEF TokenInv
    <2>1. /\ OneRead(t, d)
          /\ ~None(queue[t], Writes(d)) => t \in failed
          /\ t \notin failed /\ (d \in reading[t] \/ ~None(queue[t], Reads(d))) =>
               /\ d \in pcons[Peer(t)] \/ ~None(wire[t], Creates(d))
               /\ None(wire[t], Closes(d))
        BY DEF ProxyInv, TokenInv
    <2>2. ~None(queue'[t], Writes(d)) => t \in failed
        BY <1>13, <2>1 DEF WritesStay
    <2>3. /\ ~None(wire[t], Creates(d)) => ~None(wire'[t], Creates(d))
          /\ None(wire[t], Closes(d)) => None(wire'[t], Closes(d))
        BY <1>7, <1>8
    <2>4. CASE t = s /\ d = c
        <3>1. OneRead(s, c)'
            <4>1. CASE more = << >>
                <5>1. None(queue'[s], Reads(c))
                    BY <1>11, <1>15, <4>1, MoreIs
                <5>. QED
                    BY <1>15, <5>1 DEF OneRead
            <4>2. CASE reading' = reading
                BY <1>15, <4>2 DEF OneRead
            <4>. QED
                BY <1>2, <4>1, <4>2
        <3>. QED
            BY <1>4, <2>1, <2>2, <2>3, <2>4, <3>1
    <2>5. CASE ~(t = s /\ d = c)
        <3>1. OneRead(t, d)'
            BY <1>14, <2>1, <2>5 DEF OneRead
        <3>. QED
            BY <1>14, <2>1, <2>2, <2>3, <2>5, <3>1
    <2>. QED
        BY <2>4, <2>5
<1>19. WireInv'
    <2>. SUFFICES ASSUME NEW t \in Side, NEW d \in Con, t \notin failed
                  PROVE  /\ d \in pcons[Peer(t)] \/ Leads(wire'[t], Creates(d), About(d))
                         /\ Ends(wire'[t], Closes(d), About(d))
        BY <1>1 DEF WireInv
    <2>1. /\ d \in pcons[Peer(t)] \/ Leads(wire[t], Creates(d), About(d))
          /\ Ends(wire[t], Closes(d), About(d))
        BY DEF ProxyInv, WireInv
    <2>2. CASE lost \/ t # s
        <3>1. wire'[t] = wire[t]
            BY <1>6, <1>8, <2>2 DEF Sends
        <3>. QED
            BY <2>1, <3>1
    <2>3. CASE ~lost /\ t = s
        <3>1. d = c => /\ d \in pcons[Peer(t)] \/ ~None(wire[t], Creates(d))
                       /\ None(wire[t], Closes(d))
            BY <1>4, <2>3 DEF ProxyInv, TokenInv
        <3>. QED
            BY <1>7, <1>8, <2>1, <3>1
    <2>. QED
        BY <2>2, <2>3
<1>20. OrderInv'
    <2>1. \A t \in Side, d \in Con : /\ Receives(t, d)' <=> Receives(t, d)
                                     /\ Arrived(t, d)' = Arrived(t, d)
        BY <1>1, <1>6 DEF Receives, Arrived
    <2>2. ASSUME NEW t \in Side, NEW d \in Con, Receives(t, d)
          PROVE  /\ Flow(wire'[Peer(t)], d, Arrived(t, d), taken[Peer(t)][d])
                 /\ ~lost =>
                      /\ Flow(wire'[Peer(t)], d, Arrived(t, d), Fed(Peer(t), d)')
                      /\ Full(wire'[Peer(t)], d, Arrived(t, d), Fed(Peer(t), d)')
        <3>1. PICK p \in Side : p = Peer(t)
            BY PeerIs
        <3>2. PICK a \in Nat : a = Arrived(t, d)
            BY <1>3, LensAre
        <3>3. PICK top \in Nat : top = taken[p][d]
            BY <1>3 DEF TypeOK
        <3>4. /\ Flow(wire[p], d, a, top)
              /\ ~lost => Flow(wire[p], d, a, Fed(p, d)) /\ Full(wire[p], d, a, Fed(p, d))
            BY <2>2, <3>1, <3>2, <3>3 DEF ProxyInv, OrderInv
        <3>5. CASE lost
            <4>1. wire' = wire
                BY <1>6, <3>5 DEF Sends
            <4>. QED
                BY <3>1, <3>2, <3>3, <3>4, <3>5, <4>1
        <3>6. CASE ~lost /\ p = s /\ d = c
            <4>1. Fed(p, d) = top - 1
                <5>1. ~None(queue[s], HasRead(c))
                    BY <1>11, <1>12
                <5>. QED
                    BY <3>3, <3>6, <5>1 DEF Fed
            <4>2. Fed(p, d)' = top
                BY <1>1, <1>15, <3>3, <3>6 DEF Fed
            <4>3. PICK f \in Nat : f = top - 1
                <5>1. a <= top - 1
                    BY <3>4, <3>6, <4>1 DEF Flow
                <5>. QED
                    BY <5>1
            <4>4. wire[s] \in Seq(Sealeds) /\ wire'[s] = Append(wire[s], x)
                BY <1>3, <1>6, <3>6 DEF TypeOK, Sealeds, Sends
            <4>5. x.msg.data = f + 1 /\ f + 1 = top
                BY <1>5, <1>7, <3>3, <3>6, <4>3
            <4>6. Flow(wire[s], c, a, f) /\ Full(wire[s], c, a, f)
                BY <3>4, <3>6, <4>1, <4>3
            <4>7. Flow(wire'[s], c, a, f + 1) /\ Full(wire'[s], c, a, f + 1)
                BY <1>7, <4>4, <4>5, <4>6, FlowPushed
            <4>. QED
                BY <3>1, <3>2, <3>3, <3>6, <4>2, <4>5, <4>7
        <3>7. CASE ~lost /\ ~(p = s /\ d = c)
            <4>1. Fed(p, d)' = Fed(p, d)
                BY <1>1, <1>14, <3>7 DEF Fed
            <4>2. PICK f \in Nat : f = Fed(p, d)
                <5>1. a <= Fed(p, d)
                    BY <3>4, <3>7 DEF Flow
                <5>2. Fed(p, d) \in Int
                    BY <3>3 DEF Fed
                <5>. QED
                    BY <5>1, <5>2
            <4>3. CASE p = s
                <5>1. x \notin Carries(d)
                    BY <1>7, <3>7, <4>3
                <5>2. Flow(wire'[p], d, a, top)
                    BY <1>8, <3>4, <5>1
                <5>3. Flow(wire'[p], d, a, f) /\ Full(wire'[p], d, a, f)
                    BY <1>8, <3>4, <3>7, <4>2, <5>1
                <5>. QED
                    BY <3>1, <3>2, <3>3, <4>1, <4>2, <5>2, <5>3
            <4>4. CASE p # s
                <5>1. wire'[p] = wire[p]
                    BY <1>8, <4>4
                <5>. QED
                    BY <3>1, <3>2, <3>3, <3>4, <3>7, <4>1, <5>1
            <4>. QED
                BY <4>3, <4>4
        <3>. QED
            BY <3>5, <3>6, <3>7
    <2>. QED
        BY <1>1, <2>1, <2>2 DEF ProxyInv, OrderInv
<1>21. FaultInv' /\ DiesOfFaults' /\ HandshakeInv' /\ CreateInv' /\ ControlInv'
    BY <1>1, <1>4, <1>6, <1>7, <1>13, EchoFrame
<1>22. AcceptInv'
    BY <1>1, <1>13, AcceptFrame DEF ProxyInv
<1>. QED
    BY <1>16, <1>17, <1>18, <1>19, <1>20, <1>21, <1>22 DEF ProxyInv

(* A read or a write failed: the peer is told.                             *)
LEMMA OnErrorKeeps ==
    ASSUME ProxyInv, NEW s \in Side, OnError(s)
    PROVE  ProxyInv'
<1>1. PICK c : c = Now(s).con
    OBVIOUS
<1>2. /\ UNCHANGED <<dh, control, linked, lost, acceptor, pcons, sock, reading, taken,
                     writing, outside, sent, got, part, failed>>
      /\ queue[s] # << >> /\ Now(s).kind \in {"read", "write"} /\ ~Now(s).ok
      /\ dead[s] = "no" /\ Echo(s, Status(c)) /\ Ran(s, << >>)
    BY <1>1 DEF OnError, Runs, cons, ends
<1>3. TypeOK /\ Peer(s) \in Side /\ Peer(s) # s
    BY PeerIs DEF ProxyInv
<1>4. /\ c \in Con /\ sock[s][c] # "none" /\ Mapped
      /\ Now(s).kind = "read" => Now(s) \in Reads(c) /\ ~None(queue[s], Reads(c))
      /\ Now(s).kind = "write" => ~None(queue[s], Writes(c))
    BY <1>1, <1>2, NowHasCon
<1>5. PICK x \in Sealeds :
         /\ Sends(s, x) /\ x.msg = Status(c) /\ x \notin Early
         /\ dead' \in [Side -> {"no", "freed", "unknown", "no acceptor"}]
         /\ \A t \in Side : dead'[t] # dead[t] => t = s /\ dead'[t] = "freed" /\ lost
    <2>1. PICK m \in Message : m = Status(c) /\ m.id = "connection_status"
        BY <1>4, SealedIs
    <2>2. Echo(s, m) /\ m.id \notin {"init_diffie_hellman", "create_server"}
        BY <1>2, <2>1
    <2>3. \E x \in Sealeds :
             /\ Sends(s, x) /\ x.msg = m /\ x \notin Early
             /\ dead' \in [Side -> {"no", "freed", "unknown", "no acceptor"}]
             /\ \A t \in Side : dead'[t] # dead[t] => t = s /\ dead'[t] = "freed" /\ lost
        BY <1>4, <2>2, EchoSends
    <2>. QED
        BY <2>1, <2>3
<1>6. \A d : /\ x \notin Creates(d) /\ x \notin Carries(d)
             /\ x \in Closes(d) => d = c
             /\ x \in About(d) => d = c
    <2>1. x.msg.id = "connection_status" /\ x.msg.con = c
        <3>1. PICK m : m = Status(c)
            OBVIOUS
        <3>2. m.id = "connection_status" /\ m.con = c
            BY <1>4, <3>1, SealedIs
        <3>. QED
            BY <1>5, <3>1, <3>2
    <2>. QED
        BY <2>1, MessageIs
<1>7. /\ \A t \in Side : t # s => wire'[t] = wire[t]
      /\ \A t \in Side : \A S : /\ x \notin S => (None(wire'[t], S) <=> None(wire[t], S))
                                /\ ~None(wire[t], S) => ~None(wire'[t], S)
      /\ \A t \in Side : \A A, B :
            /\ Ends(wire[t], A, B) /\ (x \in B => None(wire[t], A)) =>
                 Ends(wire'[t], A, B)
            /\ Leads(wire[t], A, B) /\ (x \in B => ~None(wire[t], A)) =>
                 Leads(wire'[t], A, B)
      /\ FlowsStay
    BY <1>3, <1>5, <1>6, SendsIs DEF FlowsStay
<1>8. PICK h : h = Now(s)
    OBVIOUS
<1>9. /\ queue' \in [Side -> Seq(Handlers)] /\ h \in Handlers
      /\ \A t \in Side : t # s => queue'[t] = queue[t]
      /\ \A S : /\ None(queue[s], S) <=> h \notin S /\ None(Rest(s), S)
                /\ None(queue'[s], S) <=> None(Rest(s), S)
                /\ Single(queue[s], S) => Single(queue'[s], S)
                /\ Single(queue[s], S) /\ h \in S => None(queue'[s], S)
    BY <1>2, <1>3, <1>8, MoreIs, RanIs
<1>10. /\ h \notin Controls /\ h \notin Accepts
       /\ \A d : /\ h \notin AcceptsOf(d) /\ h \notin HasRead(d)
                 /\ h \in Reads(d) => d = c
                 /\ h \in Writes(d) => d = c
    BY <1>1, <1>2, <1>8, <1>9, HandlerIn
<1>11. ControlsStay /\ AcceptsStay /\ FedStays
    BY <1>9, <1>10 DEF ControlsStay, AcceptsStay, FedStays, Side
<1>12. \A t \in Side, d \in Con :
         /\ None(queue[t], Reads(d)) => None(queue'[t], Reads(d))
         /\ None(queue[t], Writes(d)) => None(queue'[t], Writes(d))
         /\ Single(queue[t], Reads(d)) => Single(queue'[t], Reads(d))
    BY <1>9
<1>13. ~lost /\ s \notin failed =>
         /\ c \notin reading[s] /\ None(queue'[s], Reads(c))
         /\ c \in pcons[Peer(s)] \/ ~None(wire[s], Creates(c))
         /\ None(wire[s], Closes(c))
    <2>. SUFFICES ASSUME ~lost, s \notin failed
                  PROVE  /\ c \notin reading[s] /\ None(queue'[s], Reads(c))
                         /\ c \in pcons[Peer(s)] \/ ~None(wire[s], Creates(c))
                         /\ None(wire[s], Closes(c))
        OBVIOUS
    <2>1. /\ OneRead(s, c) /\ None(queue[s], Writes(c))
          /\ ~None(queue[s], Reads(c)) =>
               /\ c \in pcons[Peer(s)] \/ ~None(wire[s], Creates(c))
               /\ None(wire[s], Closes(c))
        BY <1>4 DEF ProxyInv, TokenInv
    <2>2. h \in Reads(c) /\ ~None(queue[s], Reads(c))
        BY <1>2, <1>4, <1>8, <2>1
    <2>. QED
        BY <1>9, <2>1, <2>2 DEF OneRead
<1>14. TypeOK'
    BY <1>2, <1>3, <1>5, <1>9 DEF TypeOK, Sends, Sealeds
<1>15. FreshInv'
    <2>1. \A t \in Side, d \in Con : sock[t][d] = "none" =>
            /\ None(queue'[t], Reads(d)) /\ None(queue'[t], Writes(d))
            /\ None(wire'[t], About(d))
        <3>. SUFFICES ASSUME NEW t \in Side, NEW d \in Con, sock[t][d] = "none"
                      PROVE  /\ None(queue'[t], Reads(d)) /\ None(queue'[t], Writes(d))
                             /\ None(wire'[t], About(d))
            OBVIOUS
        <3>1. ~(t = s /\ d = c)
            BY <1>4
        <3>2. /\ None(wire[t], About(d))
              /\ None(queue[t], Reads(d)) /\ None(queue[t], Writes(d))
            BY DEF ProxyInv, FreshInv
        <3>3. None(wire'[t], About(d))
            <4>1. CASE t = s
                BY <1>6, <1>7, <3>1, <3>2, <4>1
            <4>2. CASE t # s
                BY <1>7, <3>2, <4>2
            <4>. QED
                BY <4>1, <4>2
        <3>. QED
            BY <1>12, <3>2, <3>3
    <2>. QED
        BY <1>2, <2>1 DEF ProxyInv, FreshInv
<1>16. TokenInv'
    <2>. SUFFICES ASSUME ~lost, NEW t \in Side, NEW d \in Con
                  PROVE  /\ OneRead(t, d)'
                         /\ ~None(queue'[t], Writes(d)) => t \in failed
                         /\ t \notin failed /\ (d \in reading[t] \/ ~None(queue'[t], Reads(d))) =>
                              /\ d \in pcons[Peer(t)] \/ ~None(wire'[t], Creates(d))
                              /\ None(wire'[t], Closes(d))
        BY <1>2 DEF TokenInv
    <2>1. /\ OneRead(t, d)
          /\ ~None(queue[t], Writes(d)) => t \in failed
          /\ t \notin failed /\ (d \in reading[t] \/ ~None(queue[t], Reads(d))) =>
               /\ d \in pcons[Peer(t)] \/ ~None(wire[t], Creates(d))
               /\ None(wire[t], Closes(d))
        BY DEF ProxyInv, TokenInv
    <2>2. OneRead(t, d)'
        BY <1>2, <1>12, <2>1 DEF OneRead
    <2>3. ~None(queue'[t], Writes(d)) => t \in failed
        BY <1>12, <2>1
    <2>4. ~None(wire[t], Creates(d)) => ~None(wire'[t], Creates(d))
        BY <1>7
    <2>5. CASE t = s /\ d = c
        BY <1>13, <2>2, <2>3, <2>5
    <2>6. CASE ~(t = s /\ d = c)
        <3>1. None(wire[t], Closes(d)) => None(wire'[t], Closes(d))
            BY <1>6, <1>7, <2>6
        <3>. QED
            BY <1>12, <2>1, <2>2, <2>3, <2>4, <3>1
    <2>. QED
        BY <2>5, <2>6
<1>17. WireInv'
    <2>. SUFFICES ASSUME NEW t \in Side, NEW d \in Con, t \notin failed
                  PROVE  /\ d \in pcons[Peer(t)] \/ Leads(wire'[t], Creates(d), About(d))
                         /\ Ends(wire'[t], Closes(d), About(d))
        BY <1>2 DEF WireInv
    <2>1. /\ d \in pcons[Peer(t)] \/ Leads(wire[t], Creates(d), About(d))
          /\ Ends(wire[t], Closes(d), About(d))
        BY DEF ProxyInv, WireInv
    <2>2. CASE lost \/ t # s
        <3>1. wire'[t] = wire[t]
            BY <1>5, <1>7, <2>2 DEF Sends
        <3>. QED
            BY <2>1, <3>1
    <2>3. CASE ~lost /\ t = s
        BY <1>6, <1>7, <1>13, <2>1, <2>3
    <2>. QED
        BY <2>2, <2>3
<1>18. OrderInv'
    <2>1. \A t \in Side, d \in Con : Receives(t, d)' => Receives(t, d)
        BY <1>2, <1>5 DEF Receives
    <2>. QED
        BY <1>2, <1>3, <1>7, <1>11, <2>1, OrderFrame DEF ProxyInv
<1>19. FaultInv' /\ DiesOfFaults' /\ HandshakeInv' /\ CreateInv' /\ ControlInv'
    BY <1>2, <1>4, <1>5, <1>6, <1>11, EchoFrame
<1>20. AcceptInv'
    BY <1>2, <1>11, AcceptFrame DEF ProxyInv
<1>. QED
    BY <1>14, <1>15, <1>16, <1>17, <1>18, <1>19, <1>20 DEF ProxyInv

(* A user is accepted, and the connection asked for.                       *)
LEMMA OnAcceptKeeps ==
    ASSUME ProxyInv, OnAccept
    PROVE  ProxyInv'
<1>1. PICK c : c = Now("relay").con
    OBVIOUS
<1>2. /\ UNCHANGED <<dh, control, linked, lost, taken, writing, outside, sent, got, part, failed>>
      /\ dead["relay"] = "no"
      /\ queue["relay"] # << >> /\ Now("relay").kind = "accept" /\ Now("relay").ok
      /\ Send("relay", CreateConnection(c)) /\ Ran("relay", << >>)
      /\ pcons' = [pcons EXCEPT !["relay"] = @ \cup {c}]
      /\ sock' = [sock EXCEPT !["relay"][c] = "open"]
      /\ reading' = [reading EXCEPT !["relay"] = @ \cup {c}]
      /\ \/ /\ acceptor = "closed" /\ acceptor' = "closed"
            /\ dead' = [dead EXCEPT !["relay"] = "no acceptor"]
         \/ acceptor # "closed" /\ acceptor' = "armed" /\ dead' = dead
    BY <1>1 DEF OnAccept, Runs, ends
<1>3. /\ TypeOK /\ "relay" \in Side /\ "home" \in Side
      /\ Peer("relay") = "home" /\ Peer("home") = "relay"
    BY PeerIs DEF ProxyInv, Side
<1>4. PICK h : h = Now("relay")
    OBVIOUS
<1>5. /\ queue' \in [Side -> Seq(Handlers)] /\ h \in Handlers
      /\ \A t \in Side : t # "relay" => queue'[t] = queue[t]
      /\ \A S : /\ None(queue["relay"], S) <=> h \notin S /\ None(Rest("relay"), S)
                /\ None(queue'["relay"], S) <=> None(Rest("relay"), S)
                /\ Single(queue["relay"], S) => Single(queue'["relay"], S)
                /\ Single(queue["relay"], S) /\ h \in S => None(queue'["relay"], S)
    BY <1>2, <1>3, <1>4, MoreIs, RanIs
<1>6. /\ h \notin Controls /\ h \in Accepts /\ c \in Con /\ h \in AcceptsOf(c)
      /\ \A d : h \notin Reads(d) /\ h \notin HasRead(d) /\ h \notin Writes(d)
    BY <1>1, <1>2, <1>4, <1>5, HandlerIn
<1>7. ControlsStay /\ ReadsStay /\ WritesStay
    BY <1>5, <1>6 DEF ControlsStay, ReadsStay, WritesStay, Side
<1>8. /\ ~None(queue["relay"], Accepts) /\ ~None(queue["relay"], AcceptsOf(c))
      /\ None(queue'["relay"], Accepts) /\ Single(queue'["relay"], Accepts)
      /\ \A d \in Con : None(queue'["relay"], AcceptsOf(d))
    <2>1. ~None(queue["relay"], Accepts) /\ ~None(queue["relay"], AcceptsOf(c))
        BY <1>5, <1>6
    <2>2. Single(queue["relay"], Accepts)
        BY DEF ProxyInv, AcceptInv
    <2>3. None(queue'["relay"], Accepts) /\ Single(queue'["relay"], Accepts)
        BY <1>5, <1>6, <2>2
    <2>. QED
        BY <2>1, <2>3, NoneWithin
<1>9. /\ sock["relay"][c] = "none" /\ outside["relay"][c] # "none"
      /\ acceptor \notin {"none", "armed"}
    BY <1>6, <1>8 DEF ProxyInv, AcceptInv
<1>10. Mapped
    BY <1>9 DEF ProxyInv, HandshakeInv, HelloOut, HelloBack, Mapping
<1>11. PICK x \in Sealeds :
          Sends("relay", x) /\ x.msg = CreateConnection(c) /\ x \notin Early
    <2>1. PICK m \in Message : m = CreateConnection(c) /\ m.id = "create_connection"
        BY <1>6, SealedIs
    <2>2. PICK y : y = Encrypted("relay", m)
        OBVIOUS
    <2>3. y \in Sealeds /\ Sends("relay", y) /\ y.msg = m /\ y \notin Early
        BY <1>2, <1>3, <1>10, <2>1, <2>2, SentSealed
    <2>. QED
        BY <2>1, <2>3
<1>12. /\ x \in Creates(c)
       /\ \A d : /\ x \notin Carries(d) /\ x \notin Closes(d) /\ x \notin About(d)
                 /\ x \in Creates(d) => d = c
    <2>1. x.msg.id = "create_connection" /\ x.msg.con = c
        <3>1. PICK m : m = CreateConnection(c)
            OBVIOUS
        <3>2. m.id = "create_connection" /\ m.con = c
            BY <1>6, <3>1, SealedIs
        <3>. QED
            BY <1>11, <3>1, <3>2
    <2>. QED
        BY <2>1, MessageIs
<1>13. /\ \A t \in Side : t # "relay" => wire'[t] = wire[t]
       /\ \A t \in Side : wire'[t] = << >> => wire[t] = << >>
       /\ \A t \in Side : \A S : /\ x \notin S => (None(wire'[t], S) <=> None(wire[t], S))
                                 /\ x \notin S /\ Single(wire[t], S) => Single(wire'[t], S)
                                 /\ ~None(wire[t], S) => ~None(wire'[t], S)
       /\ \A t \in Side : \A A, B :
             /\ Ends(wire[t], A, B) /\ (x \in B => None(wire[t], A)) =>
                  Ends(wire'[t], A, B)
             /\ Leads(wire[t], A, B) /\ (x \in B => ~None(wire[t], A)) =>
                  Leads(wire'[t], A, B)
       /\ FlowsStay
    BY <1>3, <1>11, <1>12, SendsIs DEF FlowsStay
<1>14. /\ lost => wire' = wire
       /\ ~lost => Pushes(wire'["relay"], wire["relay"], x)
    <2>1. wire["relay"] \in Seq(Sealeds)
        BY <1>3 DEF TypeOK, Sealeds
    <2>. QED
        BY <1>11, <2>1, Pushed DEF Sends
<1>15. /\ pcons' \in [Side -> SUBSET Con] /\ pcons'["home"] = pcons["home"]
       /\ pcons'["relay"] = pcons["relay"] \cup {c}
       /\ reading' \in [Side -> SUBSET Con] /\ reading'["home"] = reading["home"]
       /\ reading'["relay"] = reading["relay"] \cup {c}
       /\ sock' \in [Side -> [Con -> {"none", "open", "refused", "closed"}]]
       /\ sock'["relay"][c] = "open" /\ sock'["home"] = sock["home"]
       /\ \A d \in Con : d # c => sock'["relay"][d] = sock["relay"][d]
    <2>1. /\ pcons \in [Side -> SUBSET Con] /\ reading \in [Side -> SUBSET Con]
          /\ sock \in [Side -> [Con -> {"none", "open", "refused", "closed"}]]
        BY <1>3 DEF TypeOK
    <2>2. PICK k : k = [sock["relay"] EXCEPT ![c] = "open"]
        OBVIOUS
    <2>3. sock' = [sock EXCEPT !["relay"] = k]
        BY <1>2, <2>2
    <2>4. /\ k \in [Con -> {"none", "open", "refused", "closed"}] /\ k[c] = "open"
          /\ \A d \in Con : d # c => k[d] = sock["relay"][d]
        BY <1>3, <1>6, <2>1, <2>2
    <2>. QED
        BY <1>2, <1>3, <1>6, <2>1, <2>3, <2>4
<1>16. /\ dead' \in [Side -> {"no", "freed", "unknown", "no acceptor"}]
       /\ \A t \in Side : dead'[t] # dead[t] => /\ t = "relay" /\ dead'[t] = "no acceptor"
                                                /\ acceptor = "closed"
    BY <1>2, <1>3 DEF TypeOK
<1>17. TypeOK'
    BY <1>2, <1>3, <1>5, <1>11, <1>15, <1>16 DEF TypeOK, Sends, Sealeds
<1>18. FreshInv'
    <2>1. \A t \in Side, d \in Con : sock'[t][d] = "none" =>
            /\ d \notin pcons'[t] /\ d \notin reading'[t]
            /\ got'[t][d] = << >> /\ taken'[t][d] = 0
            /\ None(queue'[t], Reads(d)) /\ None(queue'[t], Writes(d))
            /\ None(wire'[t], About(d))
        <3>. SUFFICES ASSUME NEW t \in Side, NEW d \in Con, sock'[t][d] = "none"
                      PROVE  /\ d \notin pcons'[t] /\ d \notin reading'[t]
                             /\ got'[t][d] = << >> /\ taken'[t][d] = 0
                             /\ None(queue'[t], Reads(d)) /\ None(queue'[t], Writes(d))
                             /\ None(wire'[t], About(d))
            OBVIOUS
        <3>1. ~(t = "relay" /\ d = c) /\ (t = "relay" \/ t = "home")
            BY <1>15 DEF Side
        <3>2. sock[t][d] = "none"
            BY <1>15, <3>1
        <3>3. /\ d \notin pcons[t] /\ d \notin reading[t]
              /\ got[t][d] = << >> /\ taken[t][d] = 0
              /\ None(queue[t], Reads(d)) /\ None(queue[t], Writes(d))
              /\ None(wire[t], About(d))
            BY <3>2 DEF ProxyInv, FreshInv
        <3>4. /\ None(queue'[t], Reads(d)) /\ None(queue'[t], Writes(d))
              /\ None(wire'[t], About(d))
            BY <1>7, <1>12, <1>13, <3>3 DEF ReadsStay, WritesStay
        <3>5. d \notin pcons'[t] /\ d \notin reading'[t]
            BY <1>15, <3>1, <3>3
        <3>. QED
            BY <1>2, <3>3, <3>4, <3>5
    <2>2. \A t \in Side, d \in Con : sock'[t][d] # "open" => writing'[t][d] = << >>
        <3>. SUFFICES ASSUME NEW t \in Side, NEW d \in Con, sock'[t][d] # "open"
                      PROVE  writing[t][d] = << >>
            BY <1>2
        <3>1. ~(t = "relay" /\ d = c) /\ (t = "relay" \/ t = "home")
            BY <1>15 DEF Side
        <3>2. sock[t][d] # "open"
            BY <1>15, <3>1
        <3>. QED
            BY <3>2 DEF ProxyInv, FreshInv
    <2>3. ASSUME NEW d \in Con
          PROVE  /\ sock'["home"][d] # "none" => sock'["relay"][d] # "none"
                 /\ sock'["home"][d] \in {"none", "refused"} => outside'["home"][d] = "none"
                 /\ outside'["relay"][d] = "none" => sock'["relay"][d] = "none"
                 /\ acceptor' = "none" => outside'["relay"][d] = "none"
        <3>1. /\ sock["home"][d] # "none" => sock["relay"][d] # "none"
              /\ sock["home"][d] \in {"none", "refused"} => outside["home"][d] = "none"
              /\ outside["relay"][d] = "none" => sock["relay"][d] = "none"
            BY DEF ProxyInv, FreshInv
        <3>2. acceptor' # "none"
            BY <1>2
        <3>3. sock'["relay"][d] = "none" <=> sock["relay"][d] = "none" /\ d # c
            BY <1>15
        <3>. QED
            BY <1>2, <1>9, <1>15, <3>1, <3>2, <3>3
    <2>. QED
        BY <2>1, <2>2, <2>3 DEF FreshInv
<1>19. sock["home"][c] = "none" /\ None(wire["relay"], Creates(c))
    BY <1>6, <1>9 DEF ProxyInv, FreshInv, CreateInv
<1>20. CreateInv'
    <2>. SUFFICES ASSUME NEW d \in Con
                  PROVE  /\ Single(wire'["relay"], Creates(d))
                         /\ ~None(wire'["relay"], Creates(d)) =>
                              /\ sock'["relay"][d] # "none" /\ sock'["home"][d] = "none"
                              /\ d \in pcons'["relay"] \/ lost
        BY <1>2 DEF CreateInv
    <2>1. CASE d = c
        <3>1. Single(wire'["relay"], Creates(c))
            <4>1. CASE lost
                <5>1. Single(wire["relay"], Creates(c))
                    BY <1>6 DEF ProxyInv, CreateInv
                <5>. QED
                    BY <1>14, <4>1, <5>1
            <4>2. CASE ~lost
                BY <1>14, <1>19, <4>2 DEF Pushes
            <4>. QED
                BY <4>1, <4>2
        <3>. QED
            BY <1>15, <1>19, <2>1, <3>1
    <2>2. CASE d # c
        <3>1. /\ Single(wire["relay"], Creates(d)) => Single(wire'["relay"], Creates(d))
              /\ None(wire'["relay"], Creates(d)) <=> None(wire["relay"], Creates(d))
            BY <1>3, <1>12, <1>13, <2>2
        <3>2. /\ Single(wire["relay"], Creates(d))
              /\ ~None(wire["relay"], Creates(d)) =>
                   /\ sock["relay"][d] # "none" /\ sock["home"][d] = "none"
                   /\ d \in pcons["relay"] \/ lost
            BY DEF ProxyInv, CreateInv
        <3>. QED
            BY <1>15, <2>2, <3>1, <3>2
    <2>. QED
        BY <2>1, <2>2
<1>21. AcceptInv'
    BY <1>8 DEF AcceptInv
<1>22. TokenInv'
    <2>. SUFFICES ASSUME ~lost, NEW t \in Side, NEW d \in Con
                  PROVE  /\ OneRead(t, d)'
                         /\ ~None(queue'[t], Writes(d)) => t \in failed
                         /\ t \notin failed /\ (d \in reading'[t] \/ ~None(queue'[t], Reads(d))) =>
                              /\ d \in pcons'[Peer(t)] \/ ~None(wire'[t], Creates(d))
                              /\ None(wire'[t], Closes(d))
        BY <1>2 DEF TokenInv
    <2>1. /\ OneRead(t, d)
          /\ ~None(queue[t], Writes(d)) => t \in failed
          /\ t \notin failed /\ (d \in reading[t] \/ ~None(queue[t], Reads(d))) =>
               /\ d \in pcons[Peer(t)] \/ ~None(wire[t], Creates(d))
               /\ None(wire[t], Closes(d))
        BY DEF ProxyInv, TokenInv
    <2>2. /\ None(queue'[t], Reads(d)) <=> None(queue[t], Reads(d))
          /\ Single(queue[t], Reads(d)) => Single(queue'[t], Reads(d))
          /\ None(queue'[t], Writes(d)) <=> None(queue[t], Writes(d))
        BY <1>7 DEF ReadsStay, WritesStay
    <2>3. CASE t = "relay" /\ d = c
        <3>1. None(queue["relay"], Reads(c)) /\ None(wire["relay"], About(c))
            BY <1>3, <1>6, <1>9 DEF ProxyInv, FreshInv
        <3>2. OneRead(t, d)'
            BY <2>1, <2>2, <2>3, <3>1 DEF OneRead
        <3>3. None(wire'[t], Closes(d))
            <4>1. None(wire["relay"], Closes(c))
                BY <3>1 DEF None, About
            <4>. QED
                BY <1>3, <1>12, <1>13, <2>3, <4>1
        <3>4. ~None(wire'[t], Creates(d))
            BY <1>12, <1>14, <2>3 DEF Pushes
        <3>. QED
            BY <2>1, <2>2, <3>2, <3>3, <3>4
    <2>4. CASE ~(t = "relay" /\ d = c)
        <3>1. /\ d \in reading'[t] <=> d \in reading[t]
              /\ d \in pcons[Peer(t)] => d \in pcons'[Peer(t)]
            BY <1>3, <1>15, <2>4 DEF Side
        <3>2. /\ None(wire[t], Closes(d)) => None(wire'[t], Closes(d))
              /\ ~None(wire[t], Creates(d)) => ~None(wire'[t], Creates(d))
            BY <1>12, <1>13
        <3>. QED
            BY <2>1, <2>2, <3>1, <3>2 DEF OneRead
    <2>. QED
        BY <2>3, <2>4
<1>23. WireInv'
    <2>. SUFFICES ASSUME NEW t \in Side, NEW d \in Con, t \notin failed
                  PROVE  /\ d \in pcons'[Peer(t)] \/ Leads(wire'[t], Creates(d), About(d))
                         /\ Ends(wire'[t], Closes(d), About(d))
        BY <1>2 DEF WireInv
    <2>1. /\ d \in pcons[Peer(t)] \/ Leads(wire[t], Creates(d), About(d))
          /\ Ends(wire[t], Closes(d), About(d))
        BY DEF ProxyInv, WireInv
    <2>2. d \in pcons[Peer(t)] => d \in pcons'[Peer(t)]
        BY <1>3, <1>15 DEF Side
    <2>. QED
        BY <1>12, <1>13, <2>1, <2>2
<1>24. OrderInv'
    <2>1. ASSUME NEW t \in Side, NEW d \in Con, Receives(t, d)'
          PROVE  Receives(t, d) /\ writing'[t][d] = writing[t][d]
        <3>1. outside[t][d] # "closed" /\ dead[t] # "unknown" /\ sock'[t][d] \in {"none", "open"}
            BY <1>2, <1>16, <2>1 DEF Receives
        <3>2. sock[t][d] \in {"none", "open"}
            BY <1>9, <1>15, <3>1 DEF Side
        <3>. QED
            BY <1>2, <3>1, <3>2 DEF Receives
    <2>. QED
        BY <1>2, <1>3, <1>7, <1>13, <2>1, AllStay, OrderFrame DEF ProxyInv
<1>25. FaultInv' /\ DiesOfFaults'
    <2>1. acceptor = "closed" => lost
        BY DEF ProxyInv, FaultInv
    <2>2. \A t \in Side : dead[t] \in {"freed", "no acceptor"} => lost
        BY DEF ProxyInv, FaultInv
    <2>3. \A t \in Side : dead'[t] = dead[t] \/ lost
        BY <1>16, <2>1
    <2>4. lost => lost'
        BY <1>2
    <2>5. \A t \in Side : dead'[t] \in {"freed", "no acceptor"} => lost'
        BY <2>2, <2>3, <2>4, Zenon
    <2>6. \A t \in Side : ~linked'[t] => lost'
        BY <1>2, <2>4 DEF ProxyInv, FaultInv
    <2>7. acceptor' = "closed" => lost'
        BY <1>2, <2>1, <2>4
    <2>8. \A t \in Side : dead'[t] = "unknown" => Peer(t) \in failed'
        <3>1. \A t \in Side : dead'[t] = "unknown" => dead[t] = "unknown"
            BY <1>16
        <3>. QED
            BY <1>2, <3>1 DEF ProxyInv, DiesOfFaults
    <2>9. FaultInv'
        BY <2>5, <2>6, <2>7, Zenon DEF FaultInv
    <2>10. DiesOfFaults'
        BY <2>5, <2>8, Zenon DEF DiesOfFaults
    <2>. QED
        BY <2>9, <2>10
<1>26. HandshakeInv'
    <2>1. Mapped'
        BY <1>2, <1>3, <1>10, <1>11, <1>13 DEF Mapped
    <2>2. \A d \in Con : None(wire'["home"], Creates(d))
        BY <1>3, <1>13 DEF ProxyInv, HandshakeInv
    <2>. QED
        BY <2>1, <2>2 DEF HandshakeInv
<1>27. ControlInv'
    BY <1>2, <1>7, <1>13, ControlFrame DEF ProxyInv
<1>. QED
    BY <1>17, <1>18, <1>20, <1>21, <1>22, <1>23, <1>24, <1>25, <1>26, <1>27
       DEF ProxyInv

-----------------------------------------------------------------------------
(* The control connection's handler ran, and posted no accept.             *)
LEMMA ControlRan ==
    ASSUME TypeOK, NEW s \in Side, NEW more \in Seq(Handlers),
           None(more, Controls), None(more, Accepts),
           ControlInv, queue[s] # << >>, Now(s).kind = "control", Ran(s, more)
    PROVE  /\ queue' \in [Side -> Seq(Handlers)]
           /\ \A t \in Side : t # s => queue'[t] = queue[t]
           /\ None(queue'[s], Controls) /\ AcceptsStay
           /\ \A c :
                /\ None(queue'[s], Reads(c)) <=>
                     None(queue[s], Reads(c)) /\ None(more, Reads(c))
                /\ None(queue'[s], HasRead(c)) <=>
                     None(queue[s], HasRead(c)) /\ None(more, HasRead(c))
                /\ None(queue'[s], Writes(c)) <=>
                     None(queue[s], Writes(c)) /\ None(more, Writes(c))
                /\ Single(queue[s], Reads(c)) /\ None(more, Reads(c)) =>
                     Single(queue'[s], Reads(c))
                /\ None(queue[s], Reads(c)) /\ Single(more, Reads(c)) =>
                     Single(queue'[s], Reads(c))
           /\ more = << >> => ReadsStay /\ WritesStay
<1>1. PICK h : h = Now(s)
    OBVIOUS
<1>2. /\ queue' \in [Side -> Seq(Handlers)] /\ h \in Handlers
      /\ \A t \in Side : t # s => queue'[t] = queue[t]
      /\ \A S : /\ None(queue[s], S) <=> h \notin S /\ None(Rest(s), S)
                /\ None(queue'[s], S) <=> None(Rest(s), S) /\ None(more, S)
                /\ Single(queue[s], S) => Single(Rest(s), S)
                /\ Single(queue[s], S) /\ h \in S => None(Rest(s), S)
                /\ Single(Rest(s), S) /\ None(more, S) => Single(queue'[s], S)
                /\ None(Rest(s), S) /\ Single(more, S) => Single(queue'[s], S)
    BY <1>1, RanIs
<1>3. /\ h \in Controls /\ h \notin Accepts
      /\ \A c : /\ h \notin AcceptsOf(c) /\ h \notin Reads(c)
                /\ h \notin HasRead(c) /\ h \notin Writes(c)
    BY <1>1, <1>2, HandlerIn
<1>4. None(queue'[s], Controls)
    <2>1. Single(queue[s], Controls)
        BY DEF ControlInv
    <2>. QED
        BY <1>2, <1>3, <2>1
<1>5. AcceptsStay
    <2>1. \A c : None(more, AcceptsOf(c))
        BY NoneWithin
    <2>. QED
        BY <1>2, <1>3, <2>1 DEF AcceptsStay, Side
<1>6. \A c :
        /\ None(queue'[s], Reads(c)) <=>
             None(queue[s], Reads(c)) /\ None(more, Reads(c))
        /\ None(queue'[s], HasRead(c)) <=>
             None(queue[s], HasRead(c)) /\ None(more, HasRead(c))
        /\ None(queue'[s], Writes(c)) <=>
             None(queue[s], Writes(c)) /\ None(more, Writes(c))
        /\ Single(queue[s], Reads(c)) /\ None(more, Reads(c)) =>
             Single(queue'[s], Reads(c))
        /\ None(queue[s], Reads(c)) /\ Single(more, Reads(c)) =>
             Single(queue'[s], Reads(c))
    BY <1>2, <1>3
<1>7. more = << >> => ReadsStay /\ WritesStay
    <2>. SUFFICES ASSUME more = << >>
                  PROVE  ReadsStay /\ WritesStay
        OBVIOUS
    <2>1. \A S : None(more, S)
        BY MoreIs
    <2>. QED
        BY <1>2, <1>6, <2>1 DEF ReadsStay, WritesStay
<1>. QED
    BY <1>2, <1>4, <1>5, <1>6, <1>7

(* It is read again.                                                       *)
LEMMA ControlTaken ==
    ASSUME ProxyInv, NEW s \in Side, None(queue'[s], Controls),
           \A t \in Side : t # s => queue'[t] = queue[t],
           control' = [control EXCEPT ![s] = "armed"], lost' = lost,
           wire'[s] = << >> => wire[s] = << >>
    PROVE  ControlInv'
<1>1. \A t \in Side : /\ t # s => control'[t] = control[t]
                      /\ t # s => Peer(t) = s
    BY PeerIs DEF ProxyInv, TypeOK
<1>2. Single(queue'[s], Controls)
    BY DEF None, Single
<1>. QED
    BY <1>1, <1>2 DEF ProxyInv, ControlInv

(* s takes the first message of its peer.                                  *)
Hears(s, x) ==
    /\ wire' \in [Side -> Seq(Sealeds)] /\ x \in Sealeds
    /\ wire[Peer(s)] # << >> /\ x = Head(wire[Peer(s)]) /\ x.msg = Msg(s)
    /\ wire'[Peer(s)] = Tail(wire[Peer(s)])
    /\ wire'[s] = wire[s]

(* What that means for what is on the wire.                                *)
LEMMA HearsIs ==
    ASSUME TypeOK, NEW s \in Side, NEW x, Hears(s, x)
    PROVE  /\ Pops(wire'[Peer(s)], wire[Peer(s)], x) /\ ~None(wire[Peer(s)], {x})
           /\ \A t \in Side : \A S :
                /\ None(wire[t], S) => None(wire'[t], S)
                /\ Single(wire[t], S) => Single(wire'[t], S)
                /\ x \notin S => (None(wire'[t], S) <=> None(wire[t], S))
           /\ \A t \in Side : \A A, B :
                /\ Ends(wire[t], A, B) => Ends(wire'[t], A, B)
                /\ Leads(wire[t], A, B) /\ x \notin A => Leads(wire'[t], A, B)
           /\ \A t \in Side, c \in Con : x \notin Carries(c) =>
                \A d, top \in Nat : Flow(wire[t], c, d, top) =>
                    /\ Flow(wire'[t], c, d, top)
                    /\ Full(wire[t], c, d, top) => Full(wire'[t], c, d, top)
<1>1. PICK p \in Side : p = Peer(s)
    BY PeerIs
<1>2. \A t \in Side : t = s \/ t = p
    BY <1>1, PeerIs
<1>3. wire[p] \in Seq(Sealeds)
    BY DEF TypeOK, Sealeds
<1>4. wire[p] # << >> /\ x = Head(wire[p]) /\ wire'[p] = Tail(wire[p]) /\ wire'[s] = wire[s]
    BY <1>1 DEF Hears
<1>5. Pops(wire'[p], wire[p], x)
    BY <1>3, <1>4, Popped
<1>6. ~None(wire[p], {x})
    BY <1>5 DEF Pops
<1>7. \A S : /\ None(wire[p], S) => None(wire'[p], S)
             /\ Single(wire[p], S) => Single(wire'[p], S)
             /\ x \notin S => (None(wire'[p], S) <=> None(wire[p], S))
    BY <1>5 DEF Pops
<1>8. \A A, B : /\ Ends(wire[p], A, B) => Ends(wire'[p], A, B)
                /\ Leads(wire[p], A, B) /\ x \notin A => Leads(wire'[p], A, B)
    BY <1>5 DEF Pops
<1>9. \A c \in Con : x \notin Carries(c) =>
        \A d, top \in Nat : Flow(wire[p], c, d, top) =>
            /\ Flow(wire'[p], c, d, top)
            /\ Full(wire[p], c, d, top) => Full(wire'[p], c, d, top)
    BY <1>3, <1>4, FlowPopped
<1>10. \A t \in Side : \A S :
         /\ None(wire[t], S) => None(wire'[t], S)
         /\ Single(wire[t], S) => Single(wire'[t], S)
         /\ x \notin S => (None(wire'[t], S) <=> None(wire[t], S))
    <2>. SUFFICES ASSUME NEW t \in Side, NEW S
                  PROVE  /\ None(wire[t], S) => None(wire'[t], S)
                         /\ Single(wire[t], S) => Single(wire'[t], S)
                         /\ x \notin S => (None(wire'[t], S) <=> None(wire[t], S))
        OBVIOUS
    <2>1. CASE t = s
        BY <1>4, <2>1
    <2>2. CASE t = p
        BY <1>7, <2>2
    <2>. QED
        BY <1>2, <2>1, <2>2
<1>11. \A t \in Side : \A A, B :
         /\ Ends(wire[t], A, B) => Ends(wire'[t], A, B)
         /\ Leads(wire[t], A, B) /\ x \notin A => Leads(wire'[t], A, B)
    <2>. SUFFICES ASSUME NEW t \in Side, NEW A, NEW B
                  PROVE  /\ Ends(wire[t], A, B) => Ends(wire'[t], A, B)
                         /\ Leads(wire[t], A, B) /\ x \notin A => Leads(wire'[t], A, B)
        OBVIOUS
    <2>1. CASE t = s
        BY <1>4, <2>1
    <2>2. CASE t = p
        BY <1>8, <2>2
    <2>. QED
        BY <1>2, <2>1, <2>2
<1>12. \A t \in Side, c \in Con : x \notin Carries(c) =>
         \A d, top \in Nat : Flow(wire[t], c, d, top) =>
             /\ Flow(wire'[t], c, d, top)
             /\ Full(wire[t], c, d, top) => Full(wire'[t], c, d, top)
    <2>. SUFFICES ASSUME NEW t \in Side, NEW c \in Con, x \notin Carries(c)
                  PROVE  \A d, top \in Nat : Flow(wire[t], c, d, top) =>
                            /\ Flow(wire'[t], c, d, top)
                            /\ Full(wire[t], c, d, top) => Full(wire'[t], c, d, top)
        OBVIOUS
    <2>1. CASE t = s
        BY <1>4, <2>1
    <2>2. CASE t = p
        BY <1>9, <2>2
    <2>. QED
        BY <1>2, <2>1, <2>2
<1>. QED
    BY <1>1, <1>5, <1>6, <1>10, <1>11, <1>12

(* A message about a connection is taken, and not answered.                *)
LEMMA HeardOf ==
    ASSUME ProxyInv, NEW s \in Side, NEW id, Receive(s, id, << >>),
           id \in {"create_connection", "connection_status", "forward_write"}
    PROVE  /\ queue[s] # << >> /\ Now(s).kind = "control" /\ dead[s] = "no"
           /\ control' = [control EXCEPT ![s] = "armed"]
           /\ control' \in [Side -> {"armed", "ready", "off"}]
           /\ Mapped /\ Msg(s).con \in Con /\ Msg(s).id = id
           /\ \E x : Hears(s, x)
<1>1. TypeOK /\ << >> \in Seq(Sealeds)
    BY DEF ProxyInv
<1>2. /\ queue[s] # << >> /\ Now(s).kind = "control" /\ dead[s] = "no"
      /\ control' = [control EXCEPT ![s] = "armed"]
      /\ wire' \in [Side -> Seq(Sealeds)]
      /\ wire[Peer(s)] \in Seq(Sealeds) /\ wire[Peer(s)] # << >>
      /\ Head(wire[Peer(s)]) \in Sealeds
      /\ Head(wire[Peer(s)]).msg = Msg(s) /\ Msg(s).id = id
      /\ wire'[Peer(s)] = Tail(wire[Peer(s)])
      /\ wire'[s] = IF lost THEN wire[s] ELSE wire[s] \o << >>
    BY <1>1, ReceiveIs
<1>3. wire[s] \in Seq(Sealeds)
    BY <1>1 DEF TypeOK, Sealeds
<1>4. wire'[s] = wire[s]
    BY <1>2, <1>3, ConcatEmptySeq
<1>5. PICK x : x = Head(wire[Peer(s)])
    OBVIOUS
<1>6. Hears(s, x)
    BY <1>2, <1>4, <1>5 DEF Hears
<1>7. x \in Sealeds /\ x.msg = Msg(s)
    BY <1>6 DEF Hears
<1>8. Msg(s).con \in Con
    BY <1>2, <1>7, MessageIs
<1>9. Mapped
    BY <1>2, MsgIsMapped
<1>10. control' \in [Side -> {"armed", "ready", "off"}]
    BY <1>1, <1>2 DEF TypeOK
<1>. QED
    BY <1>2, <1>6, <1>8, <1>9, <1>10

(* That is after the handshake.                                            *)
LEMMA HeardMapped ==
    ASSUME ProxyInv, NEW s \in Side, NEW x, Hears(s, x), Mapped,
           dh' = dh, acceptor' = acceptor
    PROVE  HandshakeInv'
<1>1. /\ "relay" \in Side /\ "home" \in Side
      /\ \A t \in Side : \A S : None(wire[t], S) => None(wire'[t], S)
    BY HearsIs DEF ProxyInv, Side
<1>2. Mapped'
    BY <1>1 DEF Mapped
<1>3. \A c \in Con : None(wire'["home"], Creates(c))
    BY <1>1 DEF ProxyInv, HandshakeInv
<1>. QED
    BY <1>2, <1>3 DEF HandshakeInv

(* A connection is asked for, and the service accepts or refuses.          *)
LEMMA OnCreateConnectionKeeps ==
    ASSUME ProxyInv, NEW s \in Side, OnCreateConnection(s)
    PROVE  ProxyInv'
<1>1. PICK c : c = Msg(s).con
    OBVIOUS
<1>2. /\ UNCHANGED <<dh, linked, lost, acceptor, taken, writing, sent, got, part, dead, failed>>
      /\ Receive(s, "create_connection", << >>) /\ Ran(s, << >>)
      /\ pcons' = [pcons EXCEPT ![s] = @ \cup {c}]
      /\ \/ /\ sock' = [sock EXCEPT ![s][c] = "open"]
            /\ outside' = [outside EXCEPT ![s][c] = "open"]
            /\ reading' = [reading EXCEPT ![s] = @ \cup {c}]
         \/ /\ sock' = [sock EXCEPT ![s][c] = "refused"]
            /\ outside' = outside /\ reading' = reading
    BY <1>1 DEF OnCreateConnection
<1>3. /\ TypeOK /\ "relay" \in Side /\ "home" \in Side
      /\ Peer("relay") = "home" /\ Peer("home") = "relay"
    BY PeerIs DEF ProxyInv, Side
<1>4. /\ queue[s] # << >> /\ Now(s).kind = "control" /\ dead[s] = "no"
      /\ control' = [control EXCEPT ![s] = "armed"]
      /\ control' \in [Side -> {"armed", "ready", "off"}]
      /\ Mapped /\ c \in Con /\ Msg(s).id = "create_connection"
    BY <1>1, <1>2, HeardOf
<1>5. PICK x : Hears(s, x)
    BY <1>2, HeardOf
<1>6. /\ x \in Creates(c)
      /\ \A d : /\ x \in Creates(d) => d = c
                /\ x \notin Closes(d) /\ x \notin Carries(d) /\ x \notin About(d)
    <2>1. x \in Sealeds /\ x.msg.id = "create_connection" /\ x.msg.con = c
        BY <1>1, <1>4, <1>5 DEF Hears
    <2>. QED
        BY <2>1, MessageIs
<1>7. /\ Pops(wire'[Peer(s)], wire[Peer(s)], x)
      /\ \A t \in Side : \A S :
           /\ None(wire[t], S) => None(wire'[t], S)
           /\ Single(wire[t], S) => Single(wire'[t], S)
           /\ x \notin S => (None(wire'[t], S) <=> None(wire[t], S))
      /\ \A t \in Side : \A A, B :
           /\ Ends(wire[t], A, B) => Ends(wire'[t], A, B)
           /\ Leads(wire[t], A, B) /\ x \notin A => Leads(wire'[t], A, B)
      /\ FlowsStay
    BY <1>3, <1>5, <1>6, HearsIs DEF FlowsStay
<1>8. ~None(wire[Peer(s)], Creates(c))
    BY <1>6, <1>7 DEF Pops
<1>9. s = "home"
    <2>1. None(wire["home"], Creates(c))
        BY <1>4 DEF ProxyInv, HandshakeInv
    <2>. QED
        BY <1>3, <1>8, <2>1 DEF Side
<1>10. /\ sock["relay"][c] # "none" /\ sock["home"][c] = "none"
       /\ c \in pcons["relay"] \/ lost
       /\ Single(wire["relay"], Creates(c)) /\ None(wire'["relay"], Creates(c))
    <2>1. /\ sock["relay"][c] # "none" /\ sock["home"][c] = "none"
          /\ c \in pcons["relay"] \/ lost
          /\ Single(wire["relay"], Creates(c))
        BY <1>3, <1>4, <1>8, <1>9 DEF ProxyInv, CreateInv
    <2>2. None(wire'["relay"], Creates(c))
        BY <1>3, <1>6, <1>7, <1>9, <2>1 DEF Pops
    <2>. QED
        BY <2>1, <2>2
<1>11. /\ queue' \in [Side -> Seq(Handlers)]
       /\ \A t \in Side : t # s => queue'[t] = queue[t]
       /\ None(queue'[s], Controls) /\ AcceptsStay /\ ReadsStay /\ WritesStay
    <2>1. /\ << >> \in Seq(Handlers)
          /\ None(<< >>, Controls) /\ None(<< >>, Accepts)
        BY MoreIs
    <2>2. ControlInv
        BY DEF ProxyInv
    <2>. QED
        BY <1>2, <1>3, <1>4, <2>1, <2>2, ControlRan
<1>12. /\ pcons' \in [Side -> SUBSET Con]
       /\ pcons'["home"] = pcons["home"] \cup {c} /\ pcons'["relay"] = pcons["relay"]
    <2>1. pcons \in [Side -> SUBSET Con]
        BY <1>3 DEF TypeOK
    <2>2. PICK P : P = pcons["home"] \cup {c}
        OBVIOUS
    <2>3. P \in SUBSET Con
        BY <1>3, <1>4, <2>1, <2>2
    <2>4. pcons' = [pcons EXCEPT !["home"] = P]
        BY <1>2, <1>9, <2>2
    <2>. QED
        BY <1>3, <2>1, <2>2, <2>3, <2>4
<1>13. /\ sock' \in [Side -> [Con -> {"none", "open", "refused", "closed"}]]
       /\ sock'["home"][c] \in {"open", "refused"} /\ sock'["relay"] = sock["relay"]
       /\ \A d \in Con : d # c => sock'["home"][d] = sock["home"][d]
       /\ outside' \in [Side -> [Con -> {"none", "open", "closed"}]]
       /\ outside'["relay"] = outside["relay"]
       /\ sock'["home"][c] = "open" => outside'["home"][c] = "open"
       /\ sock'["home"][c] = "refused" => outside'["home"][c] = outside["home"][c]
       /\ \A d \in Con : d # c => outside'["home"][d] = outside["home"][d]
    <2>1. /\ sock \in [Side -> [Con -> {"none", "open", "refused", "closed"}]]
          /\ outside \in [Side -> [Con -> {"none", "open", "closed"}]]
        BY <1>3 DEF TypeOK
    <2>2. CASE sock' = [sock EXCEPT !["home"][c] = "open"]
               /\ outside' = [outside EXCEPT !["home"][c] = "open"]
        <3>1. PICK k : k = [sock["home"] EXCEPT ![c] = "open"]
            OBVIOUS
        <3>2. PICK o : o = [outside["home"] EXCEPT ![c] = "open"]
            OBVIOUS
        <3>3. /\ k \in [Con -> {"none", "open", "refused", "closed"}] /\ k[c] = "open"
              /\ \A d \in Con : d # c => k[d] = sock["home"][d]
              /\ o \in [Con -> {"none", "open", "closed"}] /\ o[c] = "open"
              /\ \A d \in Con : d # c => o[d] = outside["home"][d]
            BY <1>3, <1>4, <2>1, <3>1, <3>2
        <3>4. sock' = [sock EXCEPT !["home"] = k] /\ outside' = [outside EXCEPT !["home"] = o]
            BY <2>2, <3>1, <3>2
        <3>5. /\ sock' \in [Side -> [Con -> {"none", "open", "refused", "closed"}]]
              /\ sock'["home"] = k /\ sock'["relay"] = sock["relay"]
            BY <1>3, <2>1, <3>3, <3>4
        <3>6. /\ outside' \in [Side -> [Con -> {"none", "open", "closed"}]]
              /\ outside'["home"] = o /\ outside'["relay"] = outside["relay"]
            BY <1>3, <2>1, <3>3, <3>4
        <3>. QED
            BY <3>3, <3>5, <3>6
    <2>3. CASE sock' = [sock EXCEPT !["home"][c] = "refused"] /\ outside' = outside
        <3>1. PICK k : k = [sock["home"] EXCEPT ![c] = "refused"]
            OBVIOUS
        <3>3. /\ k \in [Con -> {"none", "open", "refused", "closed"}] /\ k[c] = "refused"
              /\ \A d \in Con : d # c => k[d] = sock["home"][d]
            BY <1>3, <1>4, <2>1, <3>1
        <3>4. sock' = [sock EXCEPT !["home"] = k]
            BY <2>3, <3>1
        <3>5. /\ sock' \in [Side -> [Con -> {"none", "open", "refused", "closed"}]]
              /\ sock'["home"] = k /\ sock'["relay"] = sock["relay"]
            BY <1>3, <2>1, <3>3, <3>4
        <3>. QED
            BY <2>1, <2>3, <3>3, <3>5
    <2>. QED
        BY <1>2, <1>9, <2>2, <2>3
<1>14. /\ reading' \in [Side -> SUBSET Con] /\ reading'["relay"] = reading["relay"]
       /\ \A d \in Con : d # c => (d \in reading'["home"] <=> d \in reading["home"])
    <2>1. reading \in [Side -> SUBSET Con]
        BY <1>3 DEF TypeOK
    <2>2. CASE reading' = [reading EXCEPT !["home"] = @ \cup {c}]
        BY <1>3, <1>4, <2>1, <2>2
    <2>3. CASE reading' = reading
        BY <2>1, <2>3
    <2>. QED
        BY <1>2, <1>9, <2>2, <2>3
<1>15. TypeOK'
    BY <1>2, <1>3, <1>4, <1>5, <1>11, <1>12, <1>13, <1>14 DEF TypeOK, Hears, Sealeds
<1>16. FreshInv'
    <2>1. \A t \in Side, d \in Con : sock'[t][d] = "none" =>
            /\ d \notin pcons'[t] /\ d \notin reading'[t]
            /\ got'[t][d] = << >> /\ taken'[t][d] = 0
            /\ None(queue'[t], Reads(d)) /\ None(queue'[t], Writes(d))
            /\ None(wire'[t], About(d))
        <3>. SUFFICES ASSUME NEW t \in Side, NEW d \in Con, sock'[t][d] = "none"
                      PROVE  /\ d \notin pcons'[t] /\ d \notin reading'[t]
                             /\ got'[t][d] = << >> /\ taken'[t][d] = 0
                             /\ None(queue'[t], Reads(d)) /\ None(queue'[t], Writes(d))
                             /\ None(wire'[t], About(d))
            OBVIOUS
        <3>1. ~(t = "home" /\ d = c) /\ (t = "relay" \/ t = "home")
            BY <1>13 DEF Side
        <3>2. sock[t][d] = "none"
            BY <1>13, <3>1
        <3>3. /\ d \notin pcons[t] /\ d \notin reading[t]
              /\ got[t][d] = << >> /\ taken[t][d] = 0
              /\ None(queue[t], Reads(d)) /\ None(queue[t], Writes(d))
              /\ None(wire[t], About(d))
            BY <3>2 DEF ProxyInv, FreshInv
        <3>4. /\ None(queue'[t], Reads(d)) /\ None(queue'[t], Writes(d))
              /\ None(wire'[t], About(d))
            BY <1>7, <1>11, <3>3 DEF ReadsStay, WritesStay
        <3>5. d \notin pcons'[t] /\ d \notin reading'[t]
            BY <1>12, <1>14, <3>1, <3>3
        <3>. QED
            BY <1>2, <3>3, <3>4, <3>5
    <2>2. \A t \in Side, d \in Con : sock'[t][d] # "open" => writing'[t][d] = << >>
        <3>. SUFFICES ASSUME NEW t \in Side, NEW d \in Con, sock'[t][d] # "open"
                      PROVE  writing[t][d] = << >>
            BY <1>2
        <3>1. sock[t][d] # "open"
            BY <1>10, <1>13 DEF Side
        <3>. QED
            BY <3>1 DEF ProxyInv, FreshInv
    <2>3. ASSUME NEW d \in Con
          PROVE  /\ sock'["home"][d] # "none" => sock'["relay"][d] # "none"
                 /\ sock'["home"][d] \in {"none", "refused"} => outside'["home"][d] = "none"
                 /\ outside'["relay"][d] = "none" => sock'["relay"][d] = "none"
                 /\ acceptor' = "none" => outside'["relay"][d] = "none"
        <3>1. /\ sock["home"][d] # "none" => sock["relay"][d] # "none"
              /\ sock["home"][d] \in {"none", "refused"} => outside["home"][d] = "none"
              /\ outside["relay"][d] = "none" => sock["relay"][d] = "none"
              /\ acceptor = "none" => outside["relay"][d] = "none"
            BY DEF ProxyInv, FreshInv
        <3>2. CASE d = c
            BY <1>2, <1>10, <1>13, <3>1, <3>2
        <3>3. CASE d # c
            BY <1>2, <1>13, <3>1, <3>3
        <3>. QED
            BY <3>2, <3>3
    <2>. QED
        BY <2>1, <2>2, <2>3 DEF FreshInv
<1>17. CreateInv'
    <2>. SUFFICES ASSUME NEW d \in Con
                  PROVE  /\ Single(wire'["relay"], Creates(d))
                         /\ ~None(wire'["relay"], Creates(d)) =>
                              /\ sock'["relay"][d] # "none" /\ sock'["home"][d] = "none"
                              /\ d \in pcons'["relay"] \/ lost
        BY <1>2 DEF CreateInv
    <2>1. /\ Single(wire["relay"], Creates(d))
          /\ ~None(wire["relay"], Creates(d)) =>
               /\ sock["relay"][d] # "none" /\ sock["home"][d] = "none"
               /\ d \in pcons["relay"] \/ lost
        BY DEF ProxyInv, CreateInv
    <2>2. /\ Single(wire'["relay"], Creates(d))
          /\ ~None(wire'["relay"], Creates(d)) => ~None(wire["relay"], Creates(d)) /\ d # c
        BY <1>3, <1>7, <1>10, <2>1
    <2>. QED
        BY <1>12, <1>13, <2>1, <2>2
<1>18. AcceptInv'
    BY <1>2, <1>11, <1>13 DEF ProxyInv, AcceptInv, AcceptsStay
<1>19. TokenInv'
    <2>. SUFFICES ASSUME ~lost, NEW t \in Side, NEW d \in Con
                  PROVE  /\ OneRead(t, d)'
                         /\ ~None(queue'[t], Writes(d)) => t \in failed
                         /\ t \notin failed /\ (d \in reading'[t] \/ ~None(queue'[t], Reads(d))) =>
                              /\ d \in pcons'[Peer(t)] \/ ~None(wire'[t], Creates(d))
                              /\ None(wire'[t], Closes(d))
        BY <1>2 DEF TokenInv
    <2>1. /\ OneRead(t, d)
          /\ ~None(queue[t], Writes(d)) => t \in failed
          /\ t \notin failed /\ (d \in reading[t] \/ ~None(queue[t], Reads(d))) =>
               /\ d \in pcons[Peer(t)] \/ ~None(wire[t], Creates(d))
               /\ None(wire[t], Closes(d))
        BY DEF ProxyInv, TokenInv
    <2>2. /\ None(queue'[t], Reads(d)) <=> None(queue[t], Reads(d))
          /\ Single(queue[t], Reads(d)) => Single(queue'[t], Reads(d))
          /\ None(queue'[t], Writes(d)) <=> None(queue[t], Writes(d))
        BY <1>11 DEF ReadsStay, WritesStay
    <2>3. CASE t = "home" /\ d = c
        <3>1. None(queue["home"], Reads(c)) /\ None(wire["home"], About(c))
            BY <1>3, <1>4, <1>10 DEF ProxyInv, FreshInv
        <3>2. OneRead(t, d)'
            BY <2>1, <2>2, <2>3, <3>1 DEF OneRead
        <3>3. None(wire'[t], Closes(d))
            <4>1. None(wire["home"], Closes(c))
                BY <3>1 DEF None, About
            <4>. QED
                BY <1>3, <1>7, <2>3, <4>1
        <3>4. d \in pcons'[Peer(t)]
            BY <1>3, <1>10, <1>12, <2>3
        <3>. QED
            BY <2>1, <2>2, <3>2, <3>3, <3>4
    <2>4. CASE ~(t = "home" /\ d = c)
        <3>1. d \in reading'[t] <=> d \in reading[t]
            BY <1>14, <2>4 DEF Side
        <3>2. None(wire[t], Closes(d)) => None(wire'[t], Closes(d))
            BY <1>7
        <3>3. d \in pcons[Peer(t)] \/ ~None(wire[t], Creates(d)) =>
                d \in pcons'[Peer(t)] \/ ~None(wire'[t], Creates(d))
            <4>1. CASE d = c
                <5>1. t = "relay"
                    BY <2>4, <4>1 DEF Side
                <5>. QED
                    BY <1>3, <1>12, <4>1, <5>1
            <4>2. CASE d # c
                <5>1. x \notin Creates(d)
                    BY <1>6, <4>2
                <5>2. d \in pcons[Peer(t)] => d \in pcons'[Peer(t)]
                    BY <1>3, <1>12 DEF Side
                <5>. QED
                    BY <1>7, <5>1, <5>2
            <4>. QED
                BY <4>1, <4>2
        <3>. QED
            BY <2>1, <2>2, <3>1, <3>2, <3>3 DEF OneRead
    <2>. QED
        BY <2>3, <2>4
<1>20. WireInv'
    <2>. SUFFICES ASSUME NEW t \in Side, NEW d \in Con, t \notin failed
                  PROVE  /\ d \in pcons'[Peer(t)] \/ Leads(wire'[t], Creates(d), About(d))
                         /\ Ends(wire'[t], Closes(d), About(d))
        BY <1>2 DEF WireInv
    <2>1. /\ d \in pcons[Peer(t)] \/ Leads(wire[t], Creates(d), About(d))
          /\ Ends(wire[t], Closes(d), About(d))
        BY DEF ProxyInv, WireInv
    <2>2. Ends(wire'[t], Closes(d), About(d))
        BY <1>7, <2>1
    <2>3. d \in pcons[Peer(t)] => d \in pcons'[Peer(t)]
        BY <1>3, <1>12 DEF Side
    <2>4. CASE d = c /\ t = "relay"
        BY <1>3, <1>12, <2>2, <2>4
    <2>5. CASE d = c /\ t = "home"
        <3>1. wire'[t] = wire[t]
            BY <1>5, <1>9, <2>5 DEF Hears
        <3>. QED
            BY <2>1, <2>3, <3>1
    <2>6. CASE d # c
        BY <1>6, <1>7, <2>1, <2>2, <2>3, <2>6
    <2>. QED
        BY <2>4, <2>5, <2>6 DEF Side
<1>21. OrderInv'
    <2>1. ASSUME NEW t \in Side, NEW d \in Con, Receives(t, d)'
          PROVE  Receives(t, d) /\ writing'[t][d] = writing[t][d]
        <3>1. /\ outside'[t][d] # "closed" /\ dead[t] # "unknown"
              /\ sock'[t][d] \in {"none", "open"}
            BY <1>2, <2>1 DEF Receives
        <3>2. CASE t = "home" /\ d = c
            <4>1. sock[t][d] = "none" /\ outside[t][d] = "none"
                BY <1>3, <1>4, <1>10, <3>2 DEF ProxyInv, FreshInv
            <4>. QED
                BY <1>2, <3>1, <4>1 DEF Receives
        <3>3. CASE ~(t = "home" /\ d = c)
            BY <1>2, <1>13, <3>1, <3>3 DEF Receives, Side
        <3>. QED
            BY <3>2, <3>3
    <2>. QED
        BY <1>2, <1>3, <1>7, <1>11, <2>1, AllStay, OrderFrame DEF ProxyInv
<1>22. FaultInv' /\ DiesOfFaults'
    BY <1>2, FaultFrame, DeathFrame DEF ProxyInv
<1>23. HandshakeInv' /\ ControlInv'
    <2>1. HandshakeInv'
        BY <1>2, <1>4, <1>5, HeardMapped
    <2>2. ControlInv'
        BY <1>2, <1>4, <1>5, <1>11, ControlTaken DEF Hears
    <2>. QED
        BY <2>1, <2>2
<1>. QED
    BY <1>15, <1>16, <1>17, <1>18, <1>19, <1>20, <1>21, <1>22, <1>23 DEF ProxyInv

(* A message about a connection the process lacks.                         *)
LEMMA OnUnknownKeeps ==
    ASSUME ProxyInv, NEW s \in Side, OnUnknown(s)
    PROVE  ProxyInv'
<1>1. PICK c : c = Msg(s).con
    OBVIOUS
<1>2. PICK id : /\ id \in {"forward_write", "connection_status"}
                /\ Receive(s, id, << >>)
    BY DEF OnUnknown
<1>3. /\ UNCHANGED <<dh, linked, lost, acceptor, pcons, sock, reading, taken, writing,
                     outside, sent, got, part, failed>>
      /\ c \notin pcons[s] /\ Ran(s, << >>)
      /\ dead' = [dead EXCEPT ![s] = "unknown"]
    BY <1>1 DEF OnUnknown, cons, ends
<1>4. TypeOK
    BY DEF ProxyInv
<1>5. PICK p \in Side : /\ p = Peer(s) /\ p # s /\ Peer(p) = s
                        /\ \A t \in Side : t = s \/ t = p
    BY PeerIs
<1>6. /\ queue[s] # << >> /\ Now(s).kind = "control" /\ dead[s] = "no"
      /\ control' = [control EXCEPT ![s] = "armed"]
      /\ control' \in [Side -> {"armed", "ready", "off"}]
      /\ Mapped /\ c \in Con /\ Msg(s).id = id
    BY <1>1, <1>2, HeardOf
<1>7. PICK x : Hears(s, x)
    BY <1>2, HeardOf
<1>8. x \in About(c) /\ \A d : x \notin Creates(d)
    <2>1. x \in Sealeds /\ x.msg.id = id /\ x.msg.con = c
        BY <1>1, <1>6, <1>7 DEF Hears
    <2>. QED
        BY <1>2, <2>1, MessageIs
<1>9. /\ Pops(wire'[p], wire[p], x)
      /\ \A t \in Side : \A S :
           /\ None(wire[t], S) => None(wire'[t], S)
           /\ Single(wire[t], S) => Single(wire'[t], S)
           /\ x \notin S => (None(wire'[t], S) <=> None(wire[t], S))
      /\ \A t \in Side : \A A, B :
           /\ Ends(wire[t], A, B) => Ends(wire'[t], A, B)
           /\ Leads(wire[t], A, B) /\ x \notin A => Leads(wire'[t], A, B)
    BY <1>4, <1>5, <1>7, HearsIs
<1>10. wire'[s] = wire[s]
    BY <1>7 DEF Hears
<1>11. /\ queue' \in [Side -> Seq(Handlers)]
       /\ \A t \in Side : t # s => queue'[t] = queue[t]
       /\ None(queue'[s], Controls) /\ AcceptsStay /\ ReadsStay /\ WritesStay
    <2>1. /\ << >> \in Seq(Handlers)
          /\ None(<< >>, Controls) /\ None(<< >>, Accepts)
        BY MoreIs
    <2>2. ControlInv
        BY DEF ProxyInv
    <2>. QED
        BY <1>3, <1>4, <1>6, <2>1, <2>2, ControlRan
<1>12. p \in failed
    <2>. SUFFICES ASSUME p \notin failed
                  PROVE  FALSE
        OBVIOUS
    <2>1. Leads(wire[p], Creates(c), About(c))
        BY <1>3, <1>5, <1>6 DEF ProxyInv, WireInv
    <2>. QED
        BY <1>8, <1>9, <2>1 DEF Pops
<1>13. /\ dead' \in [Side -> {"no", "freed", "unknown", "no acceptor"}]
       /\ dead'[s] = "unknown" /\ dead'[p] = dead[p]
    BY <1>3, <1>4, <1>5 DEF TypeOK
<1>14. TypeOK'
    BY <1>3, <1>4, <1>6, <1>7, <1>11, <1>13 DEF TypeOK, Hears, Sealeds
<1>15. FaultInv' /\ DiesOfFaults'
    <2>1. lost => lost'
        BY <1>3
    <2>2. \A t \in Side : dead[t] \in {"freed", "no acceptor"} => lost
        BY DEF ProxyInv, FaultInv
    <2>3. \A t \in Side : dead'[t] \in {"freed", "no acceptor"} => dead'[t] = dead[t]
        BY <1>5, <1>13
    <2>4. \A t \in Side : dead'[t] \in {"freed", "no acceptor"} => lost'
        BY <2>1, <2>2, <2>3, Zenon
    <2>5. (\A t \in Side : ~linked'[t] => lost') /\ (acceptor' = "closed" => lost')
        BY <1>3, <2>1 DEF ProxyInv, FaultInv
    <2>6. \A t \in Side : dead'[t] = "unknown" => Peer(t) \in failed'
        <3>1. dead[p] = "unknown" => Peer(p) \in failed
            BY DEF ProxyInv, DiesOfFaults
        <3>. QED
            BY <1>3, <1>5, <1>12, <1>13, <3>1
    <2>7. FaultInv'
        BY <2>4, <2>5, Zenon DEF FaultInv
    <2>8. DiesOfFaults'
        BY <2>4, <2>6, Zenon DEF DiesOfFaults
    <2>. QED
        BY <2>7, <2>8
<1>16. FreshInv'
    BY <1>3, <1>9, <1>11 DEF ProxyInv, FreshInv, ReadsStay, WritesStay
<1>17. CreateInv'
    BY <1>3, <1>8, <1>9 DEF ProxyInv, CreateInv, Side
<1>18. AcceptInv'
    BY <1>3, <1>11, AcceptFrame DEF ProxyInv
<1>19. TokenInv'
    BY <1>3, <1>8, <1>9, <1>11, TokenFrame DEF ProxyInv, WritesStay
<1>20. WireInv'
    <2>. SUFFICES ASSUME NEW t \in Side, NEW d \in Con, t \notin failed
                  PROVE  /\ d \in pcons[Peer(t)] \/ Leads(wire'[t], Creates(d), About(d))
                         /\ Ends(wire'[t], Closes(d), About(d))
        BY <1>3 DEF WireInv
    <2>1. /\ d \in pcons[Peer(t)] \/ Leads(wire[t], Creates(d), About(d))
          /\ Ends(wire[t], Closes(d), About(d))
        BY DEF ProxyInv, WireInv
    <2>. QED
        BY <1>8, <1>9, <2>1
<1>21. OrderInv'
    <2>1. ASSUME NEW t \in Side, NEW d \in Con, Receives(t, d)'
          PROVE  /\ Receives(t, d) /\ Arrived(t, d)' = Arrived(t, d)
                 /\ Fed(Peer(t), d)' = Fed(Peer(t), d) /\ wire'[Peer(t)] = wire[Peer(t)]
        <3>1. t = p
            BY <1>5, <1>13, <2>1 DEF Receives
        <3>2. Receives(t, d)
            BY <1>3, <1>13, <2>1, <3>1 DEF Receives
        <3>3. Arrived(t, d)' = Arrived(t, d)
            BY <1>3 DEF Arrived
        <3>4. Fed(Peer(t), d)' = Fed(Peer(t), d)
            BY <1>3, <1>5, <1>11, <3>1 DEF Fed, ReadsStay
        <3>. QED
            BY <1>5, <1>10, <3>1, <3>2, <3>3, <3>4
    <2>. QED
        BY <1>3, <2>1 DEF ProxyInv, OrderInv
<1>22. HandshakeInv' /\ ControlInv'
    <2>1. HandshakeInv'
        BY <1>3, <1>6, <1>7, HeardMapped
    <2>2. ControlInv'
        BY <1>3, <1>6, <1>10, <1>11, ControlTaken
    <2>. QED
        BY <2>1, <2>2
<1>. QED
    BY <1>14, <1>15, <1>16, <1>17, <1>18, <1>19, <1>20, <1>21, <1>22 DEF ProxyInv

(* A chunk arrives and is written, or there is no socket to write it to.   *)
LEMMA OnForwardWriteKeeps ==
    ASSUME ProxyInv, NEW s \in Side, OnForwardWrite(s)
    PROVE  ProxyInv'
<1>1. PICK c : c = Msg(s).con
    OBVIOUS
<1>2. PICK bad : bad = Handler("write", c, FALSE)
    OBVIOUS
<1>3. /\ UNCHANGED <<dh, linked, lost, acceptor, pcons, sock, reading, taken,
                     outside, sent, got, part, dead>>
      /\ c \in pcons[s] /\ Receive(s, "forward_write", << >>)
    BY <1>1 DEF OnForwardWrite, cons, ends
<1>4. PICK more :
        /\ Ran(s, more)
        /\ \/ /\ sock[s][c] = "open" /\ more = << >> /\ failed' = failed
              /\ writing' = [writing EXCEPT ![s][c] = Append(@, <<c, Msg(s).data>>)]
           \/ /\ sock[s][c] # "open" /\ more = <<bad>>
              /\ failed' = failed \cup {s} /\ writing' = writing
    BY <1>1, <1>2 DEF OnForwardWrite
<1>5. TypeOK /\ failed \subseteq failed' /\ failed' \subseteq Side
    BY <1>4 DEF ProxyInv, TypeOK
<1>6. PICK p \in Side : /\ p = Peer(s) /\ p # s /\ Peer(p) = s
                        /\ \A t \in Side : t = s \/ t = p
    BY PeerIs
<1>7. /\ queue[s] # << >> /\ Now(s).kind = "control" /\ dead[s] = "no"
      /\ control' = [control EXCEPT ![s] = "armed"]
      /\ control' \in [Side -> {"armed", "ready", "off"}]
      /\ Mapped /\ c \in Con /\ Msg(s).id = "forward_write"
    BY <1>1, <1>3, HeardOf
<1>8. PICK x : Hears(s, x)
    BY <1>3, HeardOf
<1>9. /\ x \in Carries(c) /\ x.msg.data \in Nat /\ x.msg.data = Msg(s).data
      /\ \A d : x \notin Creates(d) /\ (x \in Carries(d) => d = c)
    <2>1. x \in Sealeds /\ x.msg.id = "forward_write" /\ x.msg.con = c /\ x.msg = Msg(s)
        BY <1>1, <1>7, <1>8 DEF Hears
    <2>. QED
        BY <2>1, MessageIs
<1>10. /\ Pops(wire'[p], wire[p], x)
       /\ \A t \in Side : \A S :
            /\ None(wire[t], S) => None(wire'[t], S)
            /\ Single(wire[t], S) => Single(wire'[t], S)
            /\ x \notin S => (None(wire'[t], S) <=> None(wire[t], S))
       /\ \A t \in Side : \A A, B :
            /\ Ends(wire[t], A, B) => Ends(wire'[t], A, B)
            /\ Leads(wire[t], A, B) /\ x \notin A => Leads(wire'[t], A, B)
       /\ \A t \in Side, d \in Con : x \notin Carries(d) =>
            \A a, top \in Nat : Flow(wire[t], d, a, top) =>
                /\ Flow(wire'[t], d, a, top)
                /\ Full(wire[t], d, a, top) => Full(wire'[t], d, a, top)
    BY <1>5, <1>6, <1>8, HearsIs
<1>11. /\ wire'[s] = wire[s] /\ wire[p] \in Seq(Sealeds) /\ wire[p] # << >>
       /\ x = Head(wire[p]) /\ wire'[p] = Tail(wire[p])
    BY <1>5, <1>6, <1>8 DEF Hears, TypeOK, Sealeds
<1>12. sock[s][c] # "none"
    BY <1>3, <1>7 DEF ProxyInv, FreshInv
<1>13. /\ more \in Seq(Handlers) /\ None(more, Controls) /\ None(more, Accepts)
       /\ \A d : /\ None(more, Reads(d)) /\ None(more, HasRead(d))
                 /\ d # c \/ s \notin failed' => None(more, Writes(d))
    <2>1. CASE more = << >>
        BY <2>1, MoreIs
    <2>2. CASE more = <<bad>> /\ s \in failed'
        <3>1. bad \in Handlers /\ bad.kind = "write" /\ bad.con = c
            <4>1. bad \in Handlers
                BY <1>2, <1>7, HandlerIs
            <4>. QED
                BY <1>2, <4>1 DEF Handler
        <3>2. /\ bad \notin Controls /\ bad \notin Accepts
              /\ \A d : /\ bad \notin Reads(d) /\ bad \notin HasRead(d)
                        /\ d # c => bad \notin Writes(d)
            BY <3>1, HandlerIn
        <3>. QED
            BY <2>2, <3>1, <3>2, MoreIs
    <2>. QED
        BY <1>4, <2>1, <2>2
<1>14. /\ queue' \in [Side -> Seq(Handlers)]
       /\ \A t \in Side : t # s => queue'[t] = queue[t]
       /\ None(queue'[s], Controls) /\ AcceptsStay
       /\ \A d :
            /\ None(queue'[s], Reads(d)) <=>
                 None(queue[s], Reads(d)) /\ None(more, Reads(d))
            /\ None(queue'[s], HasRead(d)) <=>
                 None(queue[s], HasRead(d)) /\ None(more, HasRead(d))
            /\ None(queue'[s], Writes(d)) <=>
                 None(queue[s], Writes(d)) /\ None(more, Writes(d))
            /\ Single(queue[s], Reads(d)) /\ None(more, Reads(d)) =>
                 Single(queue'[s], Reads(d))
    <2>1. ControlInv
        BY DEF ProxyInv
    <2>. QED
        BY <1>4, <1>5, <1>7, <1>13, <2>1, ControlRan
<1>15. ReadsStay
    BY <1>13, <1>14 DEF ReadsStay
<1>16. \A t \in Side, d \in Con :
         /\ ~(t = s /\ d = c) => (None(queue'[t], Writes(d)) <=> None(queue[t], Writes(d)))
         /\ t \notin failed' => (None(queue'[t], Writes(d)) <=> None(queue[t], Writes(d)))
    BY <1>13, <1>14
<1>17. PICK w \in Seq(Con \X Nat) : w = writing[s][c]
    <2>1. writing \in [Side -> [Con -> Seq(Con \X Nat)]]
        BY <1>5 DEF TypeOK
    <2>. QED
        BY <1>7, <2>1
<1>18. /\ writing' \in [Side -> [Con -> Seq(Con \X Nat)]]
       /\ \A t \in Side, d \in Con : ~(t = s /\ d = c) => writing'[t][d] = writing[t][d]
       /\ sock[s][c] = "open" => writing'[s][c] = Append(w, <<c, x.msg.data>>)
       /\ sock[s][c] # "open" => writing'[s][c] = w
    <2>1. writing \in [Side -> [Con -> Seq(Con \X Nat)]]
        BY <1>5 DEF TypeOK
    <2>2. CASE sock[s][c] = "open"
        <3>1. PICK e : e = <<c, x.msg.data>>
            OBVIOUS
        <3>2. e \in Con \X Nat
            BY <1>7, <1>9, <3>1
        <3>3. PICK v : v = Append(w, e)
            OBVIOUS
        <3>4. v \in Seq(Con \X Nat)
            BY <1>17, <3>2, <3>3, AppendProperties
        <3>5. PICK k : k = [writing[s] EXCEPT ![c] = v]
            OBVIOUS
        <3>6. /\ k \in [Con -> Seq(Con \X Nat)] /\ k[c] = v
              /\ \A d \in Con : d # c => k[d] = writing[s][d]
            BY <1>7, <2>1, <3>4, <3>5
        <3>7. writing' = [writing EXCEPT ![s] = k]
            BY <1>4, <1>9, <1>17, <2>2, <3>1, <3>3, <3>5
        <3>. QED
            BY <2>1, <2>2, <3>1, <3>3, <3>6, <3>7
    <2>3. CASE sock[s][c] # "open"
        BY <1>4, <1>17, <2>1, <2>3
    <2>. QED
        BY <2>2, <2>3
<1>19. TypeOK'
    BY <1>3, <1>5, <1>7, <1>8, <1>14, <1>18 DEF TypeOK, Hears, Sealeds
<1>20. FreshInv'
    <2>1. \A t \in Side, d \in Con : sock[t][d] = "none" =>
            /\ None(queue'[t], Reads(d)) /\ None(queue'[t], Writes(d))
            /\ None(wire'[t], About(d))
        <3>. SUFFICES ASSUME NEW t \in Side, NEW d \in Con, sock[t][d] = "none"
                      PROVE  /\ None(queue'[t], Reads(d)) /\ None(queue'[t], Writes(d))
                             /\ None(wire'[t], About(d))
            OBVIOUS
        <3>1. ~(t = s /\ d = c)
            BY <1>12
        <3>2. /\ None(wire[t], About(d))
              /\ None(queue[t], Reads(d)) /\ None(queue[t], Writes(d))
            BY DEF ProxyInv, FreshInv
        <3>. QED
            BY <1>10, <1>15, <1>16, <3>1, <3>2 DEF ReadsStay
    <2>2. \A t \in Side, d \in Con : sock[t][d] # "open" => writing'[t][d] = << >>
        <3>. SUFFICES ASSUME NEW t \in Side, NEW d \in Con, sock[t][d] # "open"
                      PROVE  writing'[t][d] = << >>
            OBVIOUS
        <3>1. writing[t][d] = << >>
            BY DEF ProxyInv, FreshInv
        <3>. QED
            BY <1>17, <1>18, <3>1
    <2>. QED
        BY <1>3, <2>1, <2>2 DEF ProxyInv, FreshInv
<1>21. CreateInv'
    BY <1>3, <1>9, <1>10 DEF ProxyInv, CreateInv, Side
<1>22. AcceptInv'
    BY <1>3, <1>14, AcceptFrame DEF ProxyInv
<1>23. TokenInv'
    <2>1. \A t \in Side, d \in Con :
            ~None(queue'[t], Writes(d)) => ~None(queue[t], Writes(d)) \/ t \in failed'
        BY <1>16
    <2>. QED
        BY <1>3, <1>5, <1>9, <1>10, <1>15, <2>1, TokenFrame DEF ProxyInv
<1>24. WireInv'
    <2>. SUFFICES ASSUME NEW t \in Side, NEW d \in Con, t \notin failed
                  PROVE  /\ d \in pcons[Peer(t)] \/ Leads(wire'[t], Creates(d), About(d))
                         /\ Ends(wire'[t], Closes(d), About(d))
        BY <1>3, <1>5 DEF WireInv
    <2>1. /\ d \in pcons[Peer(t)] \/ Leads(wire[t], Creates(d), About(d))
          /\ Ends(wire[t], Closes(d), About(d))
        BY DEF ProxyInv, WireInv
    <2>. QED
        BY <1>9, <1>10, <2>1
<1>25. OrderInv'
    <2>1. \A t \in Side, d \in Con : /\ Receives(t, d)' <=> Receives(t, d)
                                     /\ Fed(Peer(t), d)' = Fed(Peer(t), d)
        BY <1>3, <1>15, PeerIs DEF Receives, Fed, ReadsStay
    <2>2. ASSUME NEW t \in Side, NEW d \in Con, Receives(t, d), ~(t = s /\ d = c)
          PROVE  /\ Waiting(got[t][d], writing'[t][d], part[t][d], d)
                 /\ Flow(wire'[Peer(t)], d, Arrived(t, d)', taken[Peer(t)][d])
                 /\ ~lost =>
                      /\ Flow(wire'[Peer(t)], d, Arrived(t, d)', Fed(Peer(t), d))
                      /\ Full(wire'[Peer(t)], d, Arrived(t, d)', Fed(Peer(t), d))
        <3>1. PICK q \in Side : q = Peer(t)
            BY PeerIs
        <3>2. PICK a \in Nat : a = Arrived(t, d)
            BY <1>5, LensAre
        <3>3. PICK top \in Nat : top = taken[q][d]
            BY <1>5 DEF TypeOK
        <3>4. /\ Waiting(got[t][d], writing[t][d], part[t][d], d)
              /\ Flow(wire[q], d, a, top)
              /\ ~lost => Flow(wire[q], d, a, Fed(q, d)) /\ Full(wire[q], d, a, Fed(q, d))
            BY <2>2, <3>1, <3>2, <3>3 DEF ProxyInv, OrderInv
        <3>5. Arrived(t, d)' = a /\ writing'[t][d] = writing[t][d]
            BY <1>3, <1>18, <2>2, <3>2 DEF Arrived
        <3>6. CASE q = s
            <4>1. wire'[q] = wire[q]
                BY <1>11, <3>6
            <4>. QED
                BY <3>1, <3>3, <3>4, <3>5, <4>1
        <3>7. CASE d # c
            <4>1. x \notin Carries(d)
                BY <1>9, <3>7
            <4>2. Flow(wire'[q], d, a, top)
                BY <1>10, <3>4, <4>1
            <4>3. ~lost => Flow(wire'[q], d, a, Fed(q, d)) /\ Full(wire'[q], d, a, Fed(q, d))
                <5>1. ~lost => Fed(q, d) \in Nat
                    <6>1. ~lost => a <= Fed(q, d)
                        BY <3>4 DEF Flow
                    <6>2. Fed(q, d) \in Int
                        BY <3>3 DEF Fed
                    <6>. QED
                        BY <6>1, <6>2
                <5>. QED
                    BY <1>10, <3>4, <4>1, <5>1
            <4>. QED
                BY <3>1, <3>3, <3>4, <3>5, <4>2, <4>3
        <3>. QED
            BY <1>6, <2>2, <3>1, <3>6, <3>7
    <2>3. ASSUME Receives(s, c)
          PROVE  /\ Waiting(got[s][c], writing'[s][c], part[s][c], c)
                 /\ Flow(wire'[p], c, Arrived(s, c)', taken[p][c])
                 /\ ~lost =>
                      /\ Flow(wire'[p], c, Arrived(s, c)', Fed(p, c))
                      /\ Full(wire'[p], c, Arrived(s, c)', Fed(p, c))
        <3>1. sock[s][c] = "open"
            BY <1>12, <2>3 DEF Receives
        <3>2. PICK g \in Nat : g = Len(got[s][c])
            BY <1>5, <1>7, LensAre
        <3>3. PICK n \in Nat : n = Len(w)
            BY <1>17, LenProperties
        <3>4. PICK top \in Nat : top = taken[p][c]
            <4>1. taken \in [Side -> [Con -> Nat]]
                BY <1>5 DEF TypeOK
            <4>. QED
                BY <1>7, <4>1
        <3>5. PICK a \in Nat : a = g + n
            OBVIOUS
        <3>6. Arrived(s, c) = a
            BY <1>17, <3>2, <3>3, <3>5 DEF Arrived
        <3>7. /\ Waiting(got[s][c], w, part[s][c], c)
              /\ Flow(wire[p], c, a, top)
              /\ ~lost => Flow(wire[p], c, a, Fed(p, c)) /\ Full(wire[p], c, a, Fed(p, c))
            BY <1>6, <1>7, <1>17, <2>3, <3>2, <3>3, <3>4, <3>6 DEF ProxyInv, OrderInv
        <3>8. x.msg.data = a + 1 /\ Flow(wire'[p], c, a + 1, top)
            <4>1. Flow(wire[p], c, a, top)
                BY <3>7
            <4>2. PICK u : u = wire'[p]
                OBVIOUS
            <4>4. PICK y \in Seq(Sealeds) : y = wire[p]
                BY <1>11
            <4>5. y # << >> /\ u = Tail(y) /\ x = Head(y) /\ Flow(y, c, a, top)
                BY <1>11, <4>1, <4>2, <4>4
            <4>6. x \in Carries(c) => x.msg.data = a + 1 /\ Flow(u, c, a + 1, top)
                BY <4>5, FlowPopped
            <4>3. x.msg.data = a + 1 /\ Flow(u, c, a + 1, top)
                BY <1>9, <4>6
            <4>. QED
                BY <4>2, <4>3
        <3>9. ~lost => Flow(wire'[p], c, a + 1, Fed(p, c)) /\ Full(wire'[p], c, a + 1, Fed(p, c))
            <4>1. ~lost => Fed(p, c) \in Nat
                <5>1. ~lost => a <= Fed(p, c)
                    BY <3>7 DEF Flow
                <5>2. Fed(p, c) \in Int
                    BY <3>4 DEF Fed
                <5>. QED
                    BY <5>1, <5>2
            <4>. QED
                BY <1>9, <1>11, <3>7, <4>1, FlowPopped
        <3>10. PICK e : e = <<c, x.msg.data>>
            OBVIOUS
        <3>11. e \in Con \X Nat
            BY <1>7, <1>9, <3>10
        <3>12. PICK v : v = Append(w, e)
            OBVIOUS
        <3>13. /\ Len(v) = n + 1 /\ v[n + 1] = e
               /\ \A i \in 1 .. n : v[i] = w[i]
            BY <1>17, <3>3, <3>11, <3>12, AppendProperties
        <3>14. writing'[s][c] = v
            BY <1>18, <3>1, <3>10, <3>12
        <3>15. Arrived(s, c)' = a + 1
            <4>1. Arrived(s, c)' = Len(got'[s][c]) + Len(writing'[s][c])
                BY DEF Arrived
            <4>2. Len(got'[s][c]) = g /\ Len(writing'[s][c]) = n + 1
                BY <1>3, <3>2, <3>13, <3>14
            <4>3. g + (n + 1) = a + 1
                BY <3>5
            <4>. QED
                BY <4>1, <4>2, <4>3
        <3>16. Waiting(got[s][c], v, part[s][c], c)
            <4>1. got[s][c] \in Seq(Con \X Nat)
              <5>1. got \in [Side -> [Con -> Seq(Con \X Nat)]]
                  BY <1>5 DEF TypeOK
              <5>. QED
                  BY <1>7, <5>1
            <4>2. e = <<c, Len(got[s][c]) + Len(w) + 1>>
                BY <3>2, <3>3, <3>5, <3>8, <3>10
            <4>. QED
                BY <1>7, <1>17, <3>7, <3>12, <4>1, <4>2, WaitingPushed
        <3>. QED
            BY <1>3, <3>4, <3>8, <3>9, <3>14, <3>15, <3>16
    <2>4. ASSUME NEW t \in Side, NEW d \in Con, Receives(t, d)
          PROVE  /\ Waiting(got[t][d], writing'[t][d], part[t][d], d)
                 /\ Flow(wire'[Peer(t)], d, Arrived(t, d)', taken[Peer(t)][d])
                 /\ ~lost =>
                      /\ Flow(wire'[Peer(t)], d, Arrived(t, d)', Fed(Peer(t), d))
                      /\ Full(wire'[Peer(t)], d, Arrived(t, d)', Fed(Peer(t), d))
        BY <1>6, <2>2, <2>3, <2>4
    <2>. QED
        BY <1>3, <2>1, <2>4 DEF ProxyInv, OrderInv
<1>26. FaultInv' /\ DiesOfFaults'
    BY <1>3, <1>5, FaultFrame, DeathFrame DEF ProxyInv
<1>27. HandshakeInv' /\ ControlInv'
    <2>1. HandshakeInv'
        BY <1>3, <1>7, <1>8, HeardMapped
    <2>2. ControlInv'
        BY <1>3, <1>7, <1>11, <1>14, ControlTaken
    <2>. QED
        BY <2>1, <2>2
<1>. QED
    BY <1>19, <1>20, <1>21, <1>22, <1>23, <1>24, <1>25, <1>26, <1>27 DEF ProxyInv

(* A connection is at its end: its socket is closed.                       *)
LEMMA OnStatusKeeps ==
    ASSUME ProxyInv, NEW s \in Side, OnStatus(s)
    PROVE  ProxyInv'
<1>1. PICK c : c = Msg(s).con
    OBVIOUS
<1>2. /\ UNCHANGED <<dh, linked, lost, acceptor, taken, outside, sent, got, part, dead>>
      /\ c \in pcons[s] /\ Receive(s, "connection_status", << >>)
      /\ CloseSockets(s, {c}) /\ Ran(s, Aborted(s, c))
    BY <1>1 DEF OnStatus, ends
<1>3. TypeOK
    BY DEF ProxyInv
<1>4. PICK p \in Side : /\ p = Peer(s) /\ p # s /\ Peer(p) = s
                        /\ \A t \in Side : t = s \/ t = p
    BY PeerIs
<1>5. /\ queue[s] # << >> /\ Now(s).kind = "control" /\ dead[s] = "no"
      /\ control' = [control EXCEPT ![s] = "armed"]
      /\ control' \in [Side -> {"armed", "ready", "off"}]
      /\ Mapped /\ c \in Con /\ Msg(s).id = "connection_status"
    BY <1>1, <1>2, HeardOf
<1>6. PICK x : Hears(s, x)
    BY <1>2, HeardOf
<1>7. /\ x \in Closes(c) /\ x \in About(c)
      /\ \A d : x \notin Creates(d) /\ x \notin Carries(d)
    <2>1. x \in Sealeds /\ x.msg.id = "connection_status" /\ x.msg.con = c
        BY <1>1, <1>5, <1>6 DEF Hears
    <2>. QED
        BY <2>1, MessageIs
<1>8. /\ Pops(wire'[p], wire[p], x)
      /\ \A t \in Side : \A S :
           /\ None(wire[t], S) => None(wire'[t], S)
           /\ Single(wire[t], S) => Single(wire'[t], S)
           /\ x \notin S => (None(wire'[t], S) <=> None(wire[t], S))
      /\ \A t \in Side : \A A, B :
           /\ Ends(wire[t], A, B) => Ends(wire'[t], A, B)
           /\ Leads(wire[t], A, B) /\ x \notin A => Leads(wire'[t], A, B)
      /\ FlowsStay
    BY <1>3, <1>4, <1>6, <1>7, HearsIs DEF FlowsStay
<1>9. /\ wire'[s] = wire[s]
      /\ ~None(wire[p], Closes(c)) /\ ~None(wire[p], About(c))
    <2>1. wire'[s] = wire[s]
        BY <1>6 DEF Hears
    <2>. QED
        BY <1>7, <1>8, <2>1 DEF Pops
<1>10. /\ pcons' \in [Side -> SUBSET Con] /\ reading' \in [Side -> SUBSET Con]
       /\ sock' \in [Side -> [Con -> {"none", "open", "refused", "closed"}]]
       /\ writing' \in [Side -> [Con -> Seq(Con \X Nat)]]
       /\ failed' \subseteq Side /\ failed \subseteq failed'
       /\ \A t \in Side : t # s =>
            /\ pcons'[t] = pcons[t] /\ reading'[t] = reading[t]
            /\ \A d \in Con : /\ sock'[t][d] = sock[t][d]
                              /\ writing'[t][d] = writing[t][d]
       /\ pcons'[s] = pcons[s] \ {c} /\ reading'[s] = reading[s] \ {c}
       /\ \A d \in Con : d # c => /\ sock'[s][d] = sock[s][d]
                                  /\ writing'[s][d] = writing[s][d]
       /\ writing'[s][c] = << >>
       /\ sock[s][c] = "open" => sock'[s][c] = "closed"
       /\ sock[s][c] # "open" => sock'[s][c] = sock[s][c]
       /\ writing[s][c] # << >> => s \in failed'
    <2>1. {c} \in SUBSET Con
        BY <1>5
    <2>2. PICK C \in SUBSET Con : C = {c}
        BY <2>1
    <2>3. CloseSockets(s, C)
        BY <1>2, <2>2
    <2>4. c \in C /\ \A d : d \in C => d = c
        BY <2>2
    <2>. QED
        BY <1>3, <2>2, <2>3, <2>4, CloseIs
<1>11. \A t \in Side, d \in Con :
         /\ sock'[t][d] = "none" <=> sock[t][d] = "none"
         /\ sock'[t][d] # sock[t][d] => sock'[t][d] = "closed" /\ sock[t][d] = "open"
    BY <1>10
<1>12. /\ Aborted(s, c) \in Seq(Handlers)
       /\ None(Aborted(s, c), Controls) /\ None(Aborted(s, c), Accepts)
       /\ Single(Aborted(s, c), Reads(c))
       /\ c \notin reading[s] => None(Aborted(s, c), Reads(c))
       /\ writing[s][c] = << >> => None(Aborted(s, c), Writes(c))
       /\ \A d : /\ None(Aborted(s, c), HasRead(d))
                 /\ d # c => /\ None(Aborted(s, c), Reads(d))
                             /\ None(Aborted(s, c), Writes(d))
    BY <1>3, <1>5, AbortedIs, AbortedIn
<1>13. PICK more : more = Aborted(s, c)
    OBVIOUS
<1>14. /\ queue' \in [Side -> Seq(Handlers)]
       /\ \A t \in Side : t # s => queue'[t] = queue[t]
       /\ None(queue'[s], Controls) /\ AcceptsStay
       /\ \A d :
            /\ None(queue'[s], Reads(d)) <=>
                 None(queue[s], Reads(d)) /\ None(more, Reads(d))
            /\ None(queue'[s], HasRead(d)) <=>
                 None(queue[s], HasRead(d)) /\ None(more, HasRead(d))
            /\ None(queue'[s], Writes(d)) <=>
                 None(queue[s], Writes(d)) /\ None(more, Writes(d))
            /\ Single(queue[s], Reads(d)) /\ None(more, Reads(d)) =>
                 Single(queue'[s], Reads(d))
            /\ None(queue[s], Reads(d)) /\ Single(more, Reads(d)) =>
                 Single(queue'[s], Reads(d))
    <2>1. ControlInv
        BY DEF ProxyInv
    <2>. QED
        BY <1>2, <1>3, <1>5, <1>12, <1>13, <2>1, ControlRan
<1>15. FedStays
    BY <1>12, <1>13, <1>14 DEF FedStays
<1>16. \A t \in Side, d \in Con : ~(t = s /\ d = c) =>
         /\ None(queue'[t], Reads(d)) <=> None(queue[t], Reads(d))
         /\ None(queue'[t], Writes(d)) <=> None(queue[t], Writes(d))
         /\ Single(queue[t], Reads(d)) => Single(queue'[t], Reads(d))
         /\ d \in reading'[t] <=> d \in reading[t]
         /\ d \in pcons'[t] <=> d \in pcons[t]
    <2>1. \A t \in Side, d \in Con : ~(t = s /\ d = c) =>
            /\ d \in reading'[t] <=> d \in reading[t]
            /\ d \in pcons'[t] <=> d \in pcons[t]
        BY <1>10
    <2>. QED
        BY <1>12, <1>13, <1>14, <2>1
<1>17. TypeOK'
    BY <1>2, <1>3, <1>5, <1>6, <1>10, <1>14 DEF TypeOK, Hears, Sealeds
<1>18. sock[s][c] # "none" /\ sock[p][c] # "none"
    BY <1>2, <1>5, <1>9 DEF ProxyInv, FreshInv
<1>19. FreshInv'
    <2>1. \A t \in Side, d \in Con : sock'[t][d] = "none" =>
            /\ d \notin pcons'[t] /\ d \notin reading'[t]
            /\ got'[t][d] = << >> /\ taken'[t][d] = 0
            /\ None(queue'[t], Reads(d)) /\ None(queue'[t], Writes(d))
            /\ None(wire'[t], About(d))
        <3>. SUFFICES ASSUME NEW t \in Side, NEW d \in Con, sock'[t][d] = "none"
                      PROVE  /\ d \notin pcons'[t] /\ d \notin reading'[t]
                             /\ got'[t][d] = << >> /\ taken'[t][d] = 0
                             /\ None(queue'[t], Reads(d)) /\ None(queue'[t], Writes(d))
                             /\ None(wire'[t], About(d))
            OBVIOUS
        <3>1. sock[t][d] = "none" /\ ~(t = s /\ d = c)
            BY <1>11, <1>18
        <3>2. /\ d \notin pcons[t] /\ d \notin reading[t]
              /\ got[t][d] = << >> /\ taken[t][d] = 0
              /\ None(queue[t], Reads(d)) /\ None(queue[t], Writes(d))
              /\ None(wire[t], About(d))
            BY <3>1 DEF ProxyInv, FreshInv
        <3>. QED
            BY <1>2, <1>8, <1>16, <3>1, <3>2
    <2>2. \A t \in Side, d \in Con : sock'[t][d] # "open" => writing'[t][d] = << >>
        <3>. SUFFICES ASSUME NEW t \in Side, NEW d \in Con, sock'[t][d] # "open"
                      PROVE  writing'[t][d] = << >>
            OBVIOUS
        <3>1. CASE t = s /\ d = c
            BY <1>10, <3>1
        <3>2. CASE ~(t = s /\ d = c)
            <4>1. sock[t][d] # "open" /\ writing'[t][d] = writing[t][d]
                BY <1>10, <3>2
            <4>. QED
                BY <4>1 DEF ProxyInv, FreshInv
        <3>. QED
            BY <3>1, <3>2
    <2>3. ASSUME NEW d \in Con
          PROVE  /\ sock'["home"][d] # "none" => sock'["relay"][d] # "none"
                 /\ sock'["home"][d] \in {"none", "refused"} => outside'["home"][d] = "none"
                 /\ outside'["relay"][d] = "none" => sock'["relay"][d] = "none"
                 /\ acceptor' = "none" => outside'["relay"][d] = "none"
        <3>1. /\ sock["home"][d] # "none" => sock["relay"][d] # "none"
              /\ sock["home"][d] \in {"none", "refused"} => outside["home"][d] = "none"
              /\ outside["relay"][d] = "none" => sock["relay"][d] = "none"
              /\ acceptor = "none" => outside["relay"][d] = "none"
            BY DEF ProxyInv, FreshInv
        <3>2. /\ sock'["relay"][d] = "none" <=> sock["relay"][d] = "none"
              /\ sock'["home"][d] = "none" <=> sock["home"][d] = "none"
              /\ sock'["home"][d] \in {"none", "refused"} =>
                   sock["home"][d] \in {"none", "refused"}
            BY <1>11 DEF Side
        <3>. QED
            BY <1>2, <3>1, <3>2
    <2>. QED
        BY <2>1, <2>2, <2>3 DEF FreshInv
<1>20. CreateInv'
    <2>. SUFFICES ASSUME NEW d \in Con
                  PROVE  /\ Single(wire'["relay"], Creates(d))
                         /\ ~None(wire'["relay"], Creates(d)) =>
                              /\ sock'["relay"][d] # "none" /\ sock'["home"][d] = "none"
                              /\ d \in pcons'["relay"] \/ lost
        BY <1>2 DEF CreateInv
    <2>1. /\ Single(wire["relay"], Creates(d))
          /\ ~None(wire["relay"], Creates(d)) =>
               /\ sock["relay"][d] # "none" /\ sock["home"][d] = "none"
               /\ d \in pcons["relay"] \/ lost
        BY DEF ProxyInv, CreateInv
    <2>2. "relay" \in Side /\ "home" \in Side
        BY DEF Side
    <2>3. /\ Single(wire'["relay"], Creates(d))
          /\ None(wire'["relay"], Creates(d)) <=> None(wire["relay"], Creates(d))
        BY <1>7, <1>8, <2>1, <2>2
    <2>4. CASE d = c
        <3>1. sock["home"][c] # "none"
            BY <1>4, <1>18, <2>2
        <3>. QED
            BY <2>1, <2>3, <2>4, <3>1
    <2>5. CASE d # c
        BY <1>11, <1>16, <2>1, <2>2, <2>3, <2>5
    <2>. QED
        BY <2>4, <2>5
<1>21. AcceptInv'
    <2>1. \A d \in Con : sock'["relay"][d] = "none" <=> sock["relay"][d] = "none"
        BY <1>11 DEF Side
    <2>. QED
        BY <1>2, <1>14, <2>1, AcceptFrame DEF ProxyInv
<1>22. TokenInv'
    <2>. SUFFICES ASSUME ~lost, NEW t \in Side, NEW d \in Con
                  PROVE  /\ OneRead(t, d)'
                         /\ ~None(queue'[t], Writes(d)) => t \in failed'
                         /\ t \notin failed' /\ (d \in reading'[t] \/ ~None(queue'[t], Reads(d))) =>
                              /\ d \in pcons'[Peer(t)] \/ ~None(wire'[t], Creates(d))
                              /\ None(wire'[t], Closes(d))
        BY <1>2 DEF TokenInv
    <2>1. /\ OneRead(t, d)
          /\ ~None(queue[t], Writes(d)) => t \in failed
          /\ t \notin failed /\ (d \in reading[t] \/ ~None(queue[t], Reads(d))) =>
               /\ d \in pcons[Peer(t)] \/ ~None(wire[t], Creates(d))
               /\ None(wire[t], Closes(d))
        BY DEF ProxyInv, TokenInv
    <2>2. t \in failed => t \in failed'
        BY <1>10
    <2>3. CASE t = s /\ d = c
        <3>1. Single(queue'[s], Reads(c))
            <4>1. CASE c \in reading[s]
                BY <1>12, <1>13, <1>14, <2>1, <2>3, <4>1 DEF OneRead
            <4>2. CASE c \notin reading[s]
                BY <1>12, <1>13, <1>14, <2>1, <2>3, <4>2 DEF OneRead
            <4>. QED
                BY <4>1, <4>2
        <3>2. OneRead(t, d)'
            BY <1>10, <2>3, <3>1 DEF OneRead
        <3>3. ~None(queue'[s], Writes(c)) => s \in failed'
            BY <1>10, <1>12, <1>13, <1>14, <2>1, <2>2, <2>3
        <3>4. ~None(queue'[s], Reads(c)) => c \in reading[s] \/ ~None(queue[s], Reads(c))
            BY <1>12, <1>13, <1>14
        <3>5. c \notin reading'[s]
            BY <1>10
        <3>6. pcons'[Peer(s)] = pcons[Peer(s)]
            BY <1>4, <1>10
        <3>. QED
            BY <1>9, <2>1, <2>2, <2>3, <3>2, <3>3, <3>4, <3>5, <3>6
    <2>4. CASE ~(t = s /\ d = c)
        <3>1. OneRead(t, d)'
            BY <1>16, <2>1, <2>4 DEF OneRead
        <3>2. ~None(queue'[t], Writes(d)) => t \in failed'
            BY <1>16, <2>1, <2>2, <2>4
        <3>3. CASE t = p /\ d = c
            <4>1. t \notin failed => d \notin reading[t] /\ None(queue[t], Reads(d))
                BY <1>9, <2>1, <3>3
            <4>. QED
                BY <1>16, <2>2, <2>4, <3>1, <3>2, <4>1
        <3>4. CASE ~(t = p /\ d = c)
            <4>1. d \in pcons[Peer(t)] => d \in pcons'[Peer(t)]
                <5>1. PICK q \in Side : q = Peer(t) /\ (q = s => t = p)
                    BY <1>4, PeerIs
                <5>. QED
                    BY <1>16, <3>4, <5>1
            <4>2. /\ None(wire[t], Closes(d)) => None(wire'[t], Closes(d))
                  /\ ~None(wire[t], Creates(d)) => ~None(wire'[t], Creates(d))
                BY <1>7, <1>8
            <4>. QED
                BY <1>16, <2>1, <2>2, <2>4, <3>1, <3>2, <4>1, <4>2
        <3>. QED
            BY <3>3, <3>4
    <2>. QED
        BY <2>3, <2>4
<1>23. WireInv'
    <2>. SUFFICES ASSUME NEW t \in Side, NEW d \in Con, t \notin failed
                  PROVE  /\ d \in pcons'[Peer(t)] \/ Leads(wire'[t], Creates(d), About(d))
                         /\ Ends(wire'[t], Closes(d), About(d))
        BY <1>10 DEF WireInv
    <2>1. /\ d \in pcons[Peer(t)] \/ Leads(wire[t], Creates(d), About(d))
          /\ Ends(wire[t], Closes(d), About(d))
        BY DEF ProxyInv, WireInv
    <2>2. Ends(wire'[t], Closes(d), About(d))
        BY <1>8, <2>1
    <2>3. CASE t = p /\ d = c
        <3>1. None(wire'[p], About(c))
            BY <1>7, <1>8, <2>1, <2>3 DEF Pops
        <3>2. Leads(wire'[p], Creates(c), About(c))
            BY <1>8, <3>1 DEF Pops
        <3>. QED
            BY <2>2, <2>3, <3>2
    <2>4. CASE ~(t = p /\ d = c)
        <3>1. d \in pcons[Peer(t)] => d \in pcons'[Peer(t)]
            <4>1. PICK q \in Side : q = Peer(t) /\ (q = s => t = p)
                BY <1>4, PeerIs
            <4>. QED
                BY <1>16, <2>4, <4>1
        <3>2. Leads(wire[t], Creates(d), About(d)) => Leads(wire'[t], Creates(d), About(d))
            BY <1>7, <1>8
        <3>. QED
            BY <2>1, <2>2, <3>1, <3>2
    <2>. QED
        BY <2>3, <2>4
<1>24. OrderInv'
    <2>1. ASSUME NEW t \in Side, NEW d \in Con, Receives(t, d)'
          PROVE  Receives(t, d) /\ writing'[t][d] = writing[t][d]
        <3>1. sock'[t][d] \in {"none", "open"}
            BY <2>1 DEF Receives
        <3>2. ~(t = s /\ d = c)
            BY <1>10, <1>18, <3>1
        <3>3. sock'[t][d] = sock[t][d] /\ writing'[t][d] = writing[t][d]
            BY <1>10, <3>2
        <3>. QED
            BY <1>2, <2>1, <3>3 DEF Receives
    <2>. QED
        BY <1>2, <1>3, <1>8, <1>15, <2>1, OrderFrame DEF ProxyInv
<1>25. FaultInv' /\ DiesOfFaults'
    BY <1>2, <1>10, FaultFrame, DeathFrame DEF ProxyInv
<1>26. HandshakeInv' /\ ControlInv'
    <2>1. HandshakeInv'
        BY <1>2, <1>5, <1>6, HeardMapped
    <2>2. ControlInv'
        BY <1>2, <1>5, <1>9, <1>14, ControlTaken
    <2>. QED
        BY <2>1, <2>2
<1>. QED
    BY <1>17, <1>19, <1>20, <1>21, <1>22, <1>23, <1>24, <1>25, <1>26 DEF ProxyInv

(* The control connection is at its end: all sockets are closed.           *)
LEMMA OnControlClosedKeeps ==
    ASSUME ProxyInv, NEW s \in Side, OnControlClosed(s)
    PROVE  ProxyInv'
<1>1. /\ UNCHANGED <<dh, wire, lost, taken, outside, sent, got, part, dead>>
      /\ queue[s] # << >> /\ Now(s).kind = "control"
      /\ wire[Peer(s)] = << >>
      /\ control' = [control EXCEPT ![s] = "off"]
      /\ linked' = [linked EXCEPT ![s] = FALSE]
      /\ CloseSockets(s, pcons[s])
    BY DEF OnControlClosed, Runs, ends
<1>2. /\ TypeOK /\ Peer(s) \in Side /\ Peer(s) # s /\ Peer(Peer(s)) = s
      /\ \A t \in Side : t = s \/ t = Peer(s)
    BY PeerIs DEF ProxyInv
<1>3. PICK last \in Seq(Handlers) :
        /\ Ran(s, AllAborted(s) \o last)
        /\ \/ last = << >> /\ acceptor' = acceptor
           \/ acceptor # "none" /\ acceptor' = "closed"
        /\ \A S : S \in {Controls, Accepts} => None(last, S)
        /\ \A d : None(last, Reads(d)) /\ None(last, HasRead(d)) /\ None(last, Writes(d))
    <2>1. << >> \in Seq(Handlers) /\ \A S : None(<< >>, S)
        BY MoreIs
    <2>2. PICK h : h = Handler("accept", 0, FALSE)
        OBVIOUS
    <2>3. h \in Handlers /\ h.kind = "accept" /\ ~h.ok
        <3>1. h \in Handlers
            BY <2>2, HandlerIs
        <3>. QED
            BY <2>2, <3>1 DEF Handler
    <2>4. /\ <<h>> \in Seq(Handlers) /\ None(<<h>>, Controls) /\ None(<<h>>, Accepts)
          /\ \A d : None(<<h>>, Reads(d)) /\ None(<<h>>, HasRead(d)) /\ None(<<h>>, Writes(d))
        BY <2>3, HandlerIn, MoreIs
    <2>5. CASE s = "relay" /\ acceptor # "none"
        <3>1. /\ acceptor' = "closed"
              /\ Ran(s, AllAborted(s) \o (IF acceptor = "armed" THEN <<h>> ELSE << >>))
            BY <2>2, <2>5 DEF OnControlClosed
        <3>2. CASE acceptor = "armed"
            BY <2>4, <2>5, <3>1, <3>2
        <3>3. CASE acceptor # "armed"
            BY <2>1, <2>5, <3>1, <3>3
        <3>. QED
            BY <3>2, <3>3
    <2>6. CASE ~(s = "relay" /\ acceptor # "none")
        <3>1. acceptor' = acceptor /\ Ran(s, AllAborted(s))
            BY <2>6 DEF OnControlClosed
        <3>2. AllAborted(s) \o << >> = AllAborted(s)
            BY <1>2, AllAbortedIn, ConcatEmptySeq
        <3>. QED
            BY <2>1, <3>1, <3>2
    <2>. QED
        BY <2>5, <2>6
<1>4. PICK more : more = AllAborted(s) \o last
    OBVIOUS
<1>5. /\ more \in Seq(Handlers) /\ None(more, Controls) /\ None(more, Accepts)
      /\ \A d : /\ None(more, HasRead(d))
                /\ d \notin pcons[s] => None(more, Reads(d)) /\ None(more, Writes(d))
    <2>1. PICK all : all = AllAborted(s)
        OBVIOUS
    <2>2. /\ all \in Seq(Handlers)
          /\ None(all, Controls) /\ None(all, Accepts)
          /\ \A d : /\ None(all, HasRead(d))
                    /\ d \notin pcons[s] => None(all, Reads(d)) /\ None(all, Writes(d))
        BY <1>2, <2>1, AllAbortedIn
    <2>3. more \in Seq(Handlers) /\ Joins(more, all, last)
        BY <1>4, <2>1, <2>2, Joined
    <2>. QED
        BY <1>3, <2>2, <2>3 DEF Joins
<1>6. /\ queue' \in [Side -> Seq(Handlers)]
      /\ \A t \in Side : t # s => queue'[t] = queue[t]
      /\ None(queue'[s], Controls) /\ AcceptsStay
      /\ \A d :
           /\ None(queue'[s], Reads(d)) <=>
                None(queue[s], Reads(d)) /\ None(more, Reads(d))
           /\ None(queue'[s], HasRead(d)) <=>
                None(queue[s], HasRead(d)) /\ None(more, HasRead(d))
           /\ None(queue'[s], Writes(d)) <=>
                None(queue[s], Writes(d)) /\ None(more, Writes(d))
    <2>1. ControlInv
        BY DEF ProxyInv
    <2>. QED
        BY <1>1, <1>2, <1>3, <1>4, <1>5, <2>1, ControlRan
<1>7. FedStays
    BY <1>5, <1>6 DEF FedStays
<1>8. lost
    <2>1. PICK h : h = Now(s)
        OBVIOUS
    <2>2. queue[s] \in Seq(Handlers)
        BY <1>2 DEF TypeOK
    <2>3. h \in Handlers /\ Pops(Tail(queue[s]), queue[s], h)
        BY <1>1, <2>1, <2>2, Popped DEF Now
    <2>4. h \in Controls
        BY <1>1, <2>1, <2>3, HandlerIn
    <2>5. ~None(queue[s], Controls)
        BY <2>3, <2>4 DEF Pops
    <2>. QED
        BY <1>1, <2>5 DEF ProxyInv, ControlInv
<1>9. /\ pcons' \in [Side -> SUBSET Con] /\ reading' \in [Side -> SUBSET Con]
      /\ sock' \in [Side -> [Con -> {"none", "open", "refused", "closed"}]]
      /\ writing' \in [Side -> [Con -> Seq(Con \X Nat)]]
      /\ failed' \subseteq Side /\ failed \subseteq failed'
      /\ \A t \in Side : t # s =>
           /\ pcons'[t] = pcons[t] /\ reading'[t] = reading[t]
           /\ \A c \in Con : /\ sock'[t][c] = sock[t][c]
                             /\ writing'[t][c] = writing[t][c]
      /\ pcons'[s] = {} /\ reading'[s] = reading[s] \ pcons[s]
      /\ \A c \in Con : c \notin pcons[s] => /\ sock'[s][c] = sock[s][c]
                                             /\ writing'[s][c] = writing[s][c]
      /\ \A c \in pcons[s] : /\ writing'[s][c] = << >>
                             /\ sock[s][c] = "open" => sock'[s][c] = "closed"
                             /\ sock[s][c] # "open" => sock'[s][c] = sock[s][c]
    <2>1. PICK C \in SUBSET Con : C = pcons[s]
        BY <1>2 DEF TypeOK
    <2>2. CloseSockets(s, C)
        BY <1>1, <2>1
    <2>3. pcons[s] \ C = {}
        BY <2>1
    <2>. QED
        BY <1>2, <2>1, <2>2, <2>3, CloseIs
<1>10. \A t \in Side, d \in Con :
         /\ sock'[t][d] = "none" <=> sock[t][d] = "none"
         /\ sock'[t][d] # sock[t][d] => sock'[t][d] = "closed" /\ sock[t][d] = "open"
    BY <1>9
<1>11. \A t \in Side, d \in Con : sock[t][d] = "none" =>
         d \notin pcons[t] /\ d \notin reading[t]
    BY DEF ProxyInv, FreshInv
<1>12. /\ acceptor' \in {"none", "armed", "ready", "closed"}
       /\ acceptor' = "none" <=> acceptor = "none"
       /\ acceptor' = "armed" => acceptor = "armed"
    BY <1>2, <1>3 DEF TypeOK
<1>13. TypeOK'
    <2>1. /\ linked' \in [Side -> BOOLEAN]
          /\ control' \in [Side -> {"armed", "ready", "off"}]
        BY <1>1, <1>2 DEF TypeOK
    <2>. QED
        BY <1>1, <1>2, <1>6, <1>9, <1>12, <2>1 DEF TypeOK
<1>14. ControlInv'
    <2>1. \A t \in Side : t # s => control'[t] = control[t]
        BY <1>1, <1>2 DEF TypeOK
    <2>2. Single(queue'[s], Controls)
        BY <1>6 DEF None, Single
    <2>3. \A t \in Side : /\ Single(queue'[t], Controls)
                          /\ control'[t] # "ready" => None(queue'[t], Controls)
        BY <1>6, <2>1, <2>2 DEF ProxyInv, ControlInv
    <2>4. lost'
        BY <1>1, <1>8
    <2>. QED
        BY <2>3, <2>4 DEF ControlInv
<1>15. FaultInv' /\ DiesOfFaults'
    <2>1. lost'
        BY <1>1, <1>8
    <2>2. FaultInv'
        BY <2>1, Zenon DEF FaultInv
    <2>3. DiesOfFaults'
        BY <1>1, <1>9, DeathFrame DEF ProxyInv
    <2>. QED
        BY <2>2, <2>3
<1>16. HandshakeInv'
    BY <1>1, <1>3, <1>12 DEF ProxyInv, HandshakeInv, HelloOut, HelloBack, Mapping, Mapped
<1>17. FreshInv'
    <2>1. \A t \in Side, d \in Con : sock'[t][d] = "none" =>
            /\ d \notin pcons'[t] /\ d \notin reading'[t]
            /\ got'[t][d] = << >> /\ taken'[t][d] = 0
            /\ None(queue'[t], Reads(d)) /\ None(queue'[t], Writes(d))
            /\ None(wire'[t], About(d))
        <3>. SUFFICES ASSUME NEW t \in Side, NEW d \in Con, sock'[t][d] = "none"
                      PROVE  /\ d \notin pcons'[t] /\ d \notin reading'[t]
                             /\ got'[t][d] = << >> /\ taken'[t][d] = 0
                             /\ None(queue'[t], Reads(d)) /\ None(queue'[t], Writes(d))
                             /\ None(wire'[t], About(d))
            OBVIOUS
        <3>1. sock[t][d] = "none"
            BY <1>10
        <3>2. /\ d \notin pcons[t] /\ d \notin reading[t]
              /\ got[t][d] = << >> /\ taken[t][d] = 0
              /\ None(queue[t], Reads(d)) /\ None(queue[t], Writes(d))
              /\ None(wire[t], About(d))
            BY <3>1 DEF ProxyInv, FreshInv
        <3>3. d \notin pcons'[t] /\ d \notin reading'[t]
            BY <1>9, <3>2
        <3>4. None(queue'[t], Reads(d)) /\ None(queue'[t], Writes(d))
            <4>1. CASE t = s
                BY <1>5, <1>6, <3>2, <4>1
            <4>2. CASE t # s
                BY <1>6, <3>2, <4>2
            <4>. QED
                BY <4>1, <4>2
        <3>. QED
            BY <1>1, <3>2, <3>3, <3>4
    <2>2. \A t \in Side, d \in Con : sock'[t][d] # "open" => writing'[t][d] = << >>
        <3>. SUFFICES ASSUME NEW t \in Side, NEW d \in Con, sock'[t][d] # "open"
                      PROVE  writing'[t][d] = << >>
            OBVIOUS
        <3>1. CASE t = s /\ d \in pcons[s]
            BY <1>9, <3>1
        <3>2. CASE ~(t = s /\ d \in pcons[s])
            <4>1. sock[t][d] # "open" /\ writing'[t][d] = writing[t][d]
                BY <1>9, <3>2
            <4>. QED
                BY <4>1 DEF ProxyInv, FreshInv
        <3>. QED
            BY <3>1, <3>2
    <2>3. ASSUME NEW d \in Con
          PROVE  /\ sock'["home"][d] # "none" => sock'["relay"][d] # "none"
                 /\ sock'["home"][d] \in {"none", "refused"} => outside'["home"][d] = "none"
                 /\ outside'["relay"][d] = "none" => sock'["relay"][d] = "none"
                 /\ acceptor' = "none" => outside'["relay"][d] = "none"
        <3>1. /\ sock["home"][d] # "none" => sock["relay"][d] # "none"
              /\ sock["home"][d] \in {"none", "refused"} => outside["home"][d] = "none"
              /\ outside["relay"][d] = "none" => sock["relay"][d] = "none"
              /\ acceptor = "none" => outside["relay"][d] = "none"
            BY DEF ProxyInv, FreshInv
        <3>2. /\ sock'["relay"][d] = "none" <=> sock["relay"][d] = "none"
              /\ sock'["home"][d] = "none" <=> sock["home"][d] = "none"
              /\ sock'["home"][d] \in {"none", "refused"} =>
                   sock["home"][d] \in {"none", "refused"}
            BY <1>10 DEF Side
        <3>. QED
            BY <1>1, <1>12, <3>1, <3>2
    <2>. QED
        BY <2>1, <2>2, <2>3 DEF FreshInv
<1>18. CreateInv'
    <2>1. lost'
        BY <1>1, <1>8
    <2>2. \A d \in Con : /\ sock'["relay"][d] = "none" <=> sock["relay"][d] = "none"
                         /\ sock'["home"][d] = "none" <=> sock["home"][d] = "none"
        BY <1>10 DEF Side
    <2>. QED
        BY <1>1, <2>1, <2>2 DEF ProxyInv, CreateInv
<1>19. AcceptInv'
    <2>1. \A d \in Con : sock'["relay"][d] = "none" <=> sock["relay"][d] = "none"
        BY <1>10 DEF Side
    <2>. QED
        BY <1>1, <1>6, <1>12, <2>1 DEF ProxyInv, AcceptInv, AcceptsStay
<1>20. TokenInv'
    BY <1>1, <1>8 DEF TokenInv
<1>21. WireInv'
    <2>. SUFFICES ASSUME NEW t \in Side, NEW d \in Con, t \notin failed
                  PROVE  /\ d \in pcons'[Peer(t)] \/ Leads(wire'[t], Creates(d), About(d))
                         /\ Ends(wire'[t], Closes(d), About(d))
        BY <1>9 DEF WireInv
    <2>1. CASE t = s
        <3>1. /\ d \in pcons[Peer(t)] \/ Leads(wire[t], Creates(d), About(d))
              /\ Ends(wire[t], Closes(d), About(d))
            BY DEF ProxyInv, WireInv
        <3>2. pcons'[Peer(t)] = pcons[Peer(t)]
            BY <1>2, <1>9, <2>1
        <3>. QED
            BY <1>1, <3>1, <3>2
    <2>2. CASE t = Peer(s)
        <3>1. wire'[t] = << >>
            BY <1>1, <2>2
        <3>. QED
            BY <3>1, NothingIn
    <2>. QED
        BY <1>2, <2>1, <2>2
<1>22. OrderInv'
    <2>1. ASSUME NEW t \in Side, NEW d \in Con, Receives(t, d)'
          PROVE  Receives(t, d) /\ writing'[t][d] = writing[t][d]
        <3>1. sock'[t][d] \in {"none", "open"}
            BY <2>1 DEF Receives
        <3>2. sock'[t][d] = sock[t][d]
            BY <1>10, <3>1
        <3>3. writing'[t][d] = writing[t][d]
            BY <1>9, <1>11, <3>1, <3>2
        <3>. QED
            BY <1>1, <2>1, <3>2, <3>3 DEF Receives
    <2>2. FlowsStay
        BY <1>1, AllStay
    <2>. QED
        BY <1>1, <1>2, <1>7, <2>1, <2>2, OrderFrame DEF ProxyInv
<1>. QED
    BY <1>13, <1>14, <1>15, <1>16, <1>17, <1>18, <1>19, <1>20, <1>21, <1>22 DEF ProxyInv

-----------------------------------------------------------------------------
(* A message of the handshake comes before any connection.                 *)
LEMMA HandshakeKeeps ==
    ASSUME ProxyInv, acceptor = "none",
           wire' \in [Side -> Seq(Sealeds)],
           \A t \in Side, c \in Con :
               None(wire'[t], Creates(c)) /\ None(wire'[t], About(c)),
           ReadsStay, WritesStay, AcceptsStay,
           acceptor' \in {"none", "armed"},
           UNCHANGED <<linked, lost, pcons, sock, reading, taken, writing, outside,
                       sent, got, part, dead, failed>>
    PROVE  /\ FaultInv' /\ FreshInv' /\ CreateInv' /\ AcceptInv' /\ TokenInv'
           /\ WireInv' /\ OrderInv' /\ DiesOfFaults'
<1>1. \A t \in Side, c \in Con :
        /\ sock[t][c] = "none" /\ outside["relay"][c] = "none"
        /\ c \notin reading[t] /\ None(queue[t], Reads(c))
        /\ None(wire[t], About(c))
    <2>1. \A c \in Con : /\ outside["relay"][c] = "none"
                         /\ sock["relay"][c] = "none" /\ sock["home"][c] = "none"
        BY DEF ProxyInv, FreshInv
    <2>. QED
        BY <2>1 DEF ProxyInv, FreshInv, Side
<1>2. \A t \in Side, c \in Con : /\ None(wire[t], Carries(c)) /\ None(wire'[t], Carries(c))
                                 /\ None(wire'[t], Closes(c))
    <2>1. wire \in [Side -> Seq(Sealeds)]
        BY DEF ProxyInv, TypeOK, Sealeds
    <2>. QED
        BY <1>1, <2>1, NoneWithin
<1>3. FaultInv'
    <2>1. /\ \A s \in Side : ~linked[s] => lost
          /\ \A s \in Side : dead[s] \in {"freed", "no acceptor"} => lost
        BY DEF ProxyInv, FaultInv
    <2>2. acceptor' # "closed"
        OBVIOUS
    <2>. QED
        BY <2>1, <2>2, Zenon DEF FaultInv
<1>4. FreshInv'
    BY <1>1 DEF ProxyInv, FreshInv, ReadsStay, WritesStay
<1>5. CreateInv'
    <2>1. \A c \in Con : Single(wire'["relay"], Creates(c))
        BY DEF None, Single, Side
    <2>. QED
        BY <2>1 DEF CreateInv, Side
<1>6. AcceptInv'
    <2>1. None(queue["relay"], Accepts)
        BY DEF ProxyInv, AcceptInv
    <2>2. None(queue'["relay"], Accepts)
        BY <2>1 DEF AcceptsStay
    <2>3. \A c \in Con : None(queue'["relay"], AcceptsOf(c))
        BY <2>2, NoneWithin
    <2>4. Single(queue'["relay"], Accepts)
        BY <2>2 DEF None, Single
    <2>. QED
        BY <2>2, <2>3, <2>4 DEF AcceptInv
<1>7. TokenInv'
    <2>1. \A t \in Side, c \in Con : None(wire[t], Creates(c))
        BY <1>1 DEF ProxyInv, CreateInv, HandshakeInv, Side
    <2>2. /\ \A t \in Side, c \in Con :
               ~None(queue'[t], Writes(c)) => ~None(queue[t], Writes(c)) \/ t \in failed'
          /\ failed \subseteq failed'
        BY DEF WritesStay
    <2>. QED
        BY <1>2, <2>1, <2>2, TokenFrame DEF ProxyInv
<1>8. WireInv'
    <2>1. \A t \in Side, c \in Con : /\ Leads(wire'[t], Creates(c), About(c))
                                     /\ Ends(wire'[t], Closes(c), About(c))
        BY <1>2 DEF None, Leads, Ends
    <2>. QED
        BY <2>1 DEF WireInv
<1>9. OrderInv'
    <2>1. FlowsStay
        <3>. SUFFICES ASSUME NEW t \in Side, NEW c \in Con, NEW d \in Nat, NEW top \in Nat,
                             Flow(wire[t], c, d, top)
                      PROVE  /\ Flow(wire'[t], c, d, top)
                             /\ Full(wire[t], c, d, top) => Full(wire'[t], c, d, top)
            BY DEF FlowsStay
        <3>1. d <= top
            BY DEF Flow
        <3>2. Flow(wire'[t], c, d, top)
            BY <1>2, <3>1 DEF Flow, None
        <3>3. Full(wire[t], c, d, top) => d = top
            BY <1>2 DEF Full, None
        <3>. QED
            BY <3>2, <3>3 DEF Full
    <2>2. FedStays /\ TypeOK
        BY AllStay DEF ProxyInv
    <2>3. \A t \in Side, c \in Con :
            Receives(t, c)' => Receives(t, c) /\ writing'[t][c] = writing[t][c]
        BY DEF Receives
    <2>. QED
        BY <2>1, <2>2, <2>3, OrderFrame DEF ProxyInv
<1>10. DiesOfFaults'
    BY DeathFrame DEF ProxyInv
<1>. QED
    BY <1>3, <1>4, <1>5, <1>6, <1>7, <1>8, <1>9, <1>10

(* The handshake's messages belong to no connection.                       *)
LEMMA HandshakeSays ==
    ASSUME NEW w, NEW x \in Sealeds, AtMost(w, x),
           x.msg.id \in {"init_diffie_hellman", "create_server"}
    PROVE  /\ \A c : None(w, Creates(c)) /\ None(w, About(c))
           /\ w # << >> => w = <<x>> /\ Head(w) = x /\ Tail(w) = << >>
<1>1. \A c : x \notin Creates(c) /\ x \notin About(c)
    BY MessageIs
<1>2. CASE w = << >>
    BY <1>2, NothingIn
<1>3. CASE w = <<x>>
    <2>1. Len(w) = 1 /\ w[1] = x /\ Head(w) = x /\ Tail(w) = << >>
        BY <1>3
    <2>2. \A i \in 1 .. Len(w) : w[i] = x
        BY <2>1
    <2>. QED
        BY <1>1, <1>3, <2>1, <2>2 DEF None
<1>. QED
    BY <1>2, <1>3 DEF AtMost

(* The other side's public key is there.                                   *)
LEMMA OnHelloKeeps ==
    ASSUME ProxyInv, NEW s \in Side, OnHello(s)
    PROVE  ProxyInv'
<1>1. PICK hello : hello = Sealed(Hello, FALSE)
    OBVIOUS
<1>2. PICK create : create = Sealed(CreateServer, TRUE)
    OBVIOUS
<1>3. PICK reply : reply = IF dh[s] = "none" THEN hello ELSE create
    OBVIOUS
<1>4. /\ hello \in Sealeds /\ create \in Sealeds /\ reply \in Sealeds
      /\ hello.msg.id = "init_diffie_hellman" /\ create.msg.id = "create_server"
      /\ Hello.id = "init_diffie_hellman" /\ hello.msg = Hello /\ create.msg = CreateServer
    BY <1>1, <1>2, <1>3, SealedIs
<1>5. PICK replies : replies = <<reply>>
    OBVIOUS
<1>6. replies \in Seq(Sealeds)
    BY <1>4, <1>5
<1>7. /\ UNCHANGED <<linked, lost, acceptor, pcons, sock, reading, taken, writing,
                     outside, sent, got, part, dead, failed>>
      /\ Receive(s, "init_diffie_hellman", replies) /\ Ran(s, << >>)
      /\ dh' = [dh EXCEPT ![s] = "shared"]
    <2>1. dh[s] = "none" => Encrypted(s, Hello) = hello
        BY <1>1 DEF Encrypted
    <2>2. replies = IF dh[s] = "none" THEN <<Encrypted(s, Hello)>>
                    ELSE <<Sealed(CreateServer, TRUE)>>
        BY <1>2, <1>3, <1>5, <2>1
    <2>. QED
        BY <1>4, <2>2 DEF OnHello, ComputeSharedKey, cons, ends
<1>8. TypeOK /\ ControlInv
    BY DEF ProxyInv
<1>9. PICK p \in Side : /\ p = Peer(s) /\ p # s /\ Peer(p) = s
                        /\ \A t \in Side : t = s \/ t = p
    BY PeerIs
<1>10. /\ queue[s] # << >> /\ Now(s).kind = "control"
       /\ control' = [control EXCEPT ![s] = "armed"]
       /\ wire' \in [Side -> Seq(Sealeds)]
       /\ wire[p] # << >> /\ Head(wire[p]).msg = Msg(s)
       /\ Msg(s).id = "init_diffie_hellman"
       /\ wire'[p] = Tail(wire[p])
       /\ wire'[s] = IF lost THEN wire[s] ELSE wire[s] \o replies
       /\ Head(wire[p]) \in Sealeds
    BY <1>6, <1>7, <1>8, <1>9, ReceiveIs
<1>11. /\ queue' \in [Side -> Seq(Handlers)]
       /\ \A t \in Side : t # s => queue'[t] = queue[t]
       /\ None(queue'[s], Controls)
       /\ ReadsStay /\ WritesStay /\ AcceptsStay
    <2>1. /\ << >> \in Seq(Handlers) /\ None(<< >>, Controls) /\ None(<< >>, Accepts)
        BY MoreIs
    <2>. QED
        BY <1>7, <1>8, <1>10, <2>1, ControlRan
<1>12. dh \in [Side -> {"none", "sent", "shared"}]
    BY <1>8 DEF TypeOK
<1>13. /\ dh' \in [Side -> {"none", "sent", "shared"}]
       /\ dh'[s] = "shared" /\ dh'[p] = dh[p]
    BY <1>7, <1>9, <1>12
<1>14. /\ acceptor = "none" /\ wire[s] = << >> /\ wire'[p] = << >>
       /\ AtMost(wire'[s], reply)
       /\ HelloBack' \/ Mapping'
    <2>1. ~Mapped
        <3>1. Head(wire[p]) \in Early /\ p \in {"relay", "home"}
            BY <1>10, MessageIs DEF Side
        <3>2. wire[p] \in Seq(Sealeds)
            BY <1>8 DEF TypeOK, Sealeds
        <3>3. PICK w : w = wire[p]
            OBVIOUS
        <3>4. Pops(Tail(w), w, Head(w))
            BY <1>10, <3>2, <3>3, Popped
        <3>5. ~None(w, Early)
            BY <3>1, <3>3, <3>4 DEF Pops
        <3>. QED
            BY <3>1, <3>3, <3>5 DEF Mapped
    <2>2. /\ s = "relay" => p = "home"
          /\ s = "home" => p = "relay"
          /\ s = "relay" \/ s = "home"
        BY <1>9, PeerIs DEF Side
    <2>3. << >> \o replies = <<reply>>
        BY <1>5, <1>6, ConcatEmptySeq
    <2>4. wire[s] = << >> => AtMost(wire'[s], reply)
        BY <1>10, <2>3 DEF AtMost
    <2>5. CASE HelloOut
        <3>1. s = "relay" /\ p = "home"
            BY <1>10, <2>2, <2>5 DEF HelloOut
        <3>2. AtMost(wire["home"], hello) /\ wire["relay"] = << >>
            BY <1>1, <2>5 DEF HelloOut
        <3>3. wire'["home"] = << >>
            BY <1>4, <1>10, <3>1, <3>2, HandshakeSays
        <3>4. AtMost(wire'["relay"], hello) /\ reply = hello
            BY <1>3, <2>4, <2>5, <3>1, <3>2 DEF HelloOut
        <3>5. acceptor = "none" /\ dh["home"] = "sent"
            BY <2>5 DEF HelloOut
        <3>6. HelloBack'
            BY <1>1, <1>7, <1>13, <3>1, <3>3, <3>4, <3>5 DEF HelloBack, AtMost
        <3>. QED
            BY <3>1, <3>2, <3>3, <3>4, <3>5, <3>6
    <2>6. CASE HelloBack
        <3>1. s = "home" /\ p = "relay"
            BY <1>10, <2>2, <2>6 DEF HelloBack
        <3>2. AtMost(wire["relay"], hello) /\ wire["home"] = << >>
            BY <1>1, <2>6 DEF HelloBack
        <3>3. wire'["relay"] = << >>
            BY <1>4, <1>10, <3>1, <3>2, HandshakeSays
        <3>4. AtMost(wire'["home"], create) /\ reply = create
            BY <1>3, <2>4, <2>6, <3>1, <3>2 DEF HelloBack
        <3>5. acceptor = "none" /\ dh["relay"] = "shared"
            BY <2>6 DEF HelloBack
        <3>6. Mapping'
            BY <1>2, <1>7, <1>13, <3>1, <3>3, <3>4, <3>5 DEF Mapping, AtMost
        <3>. QED
            BY <3>1, <3>2, <3>3, <3>4, <3>5, <3>6
    <2>7. CASE Mapping
        <3>1. s = "relay" /\ p = "home"
            BY <1>10, <2>2, <2>7 DEF Mapping
        <3>2. AtMost(wire["home"], create)
            BY <1>2, <2>7 DEF Mapping
        <3>3. Head(wire["home"]) = create
            BY <1>4, <1>10, <3>1, <3>2, HandshakeSays
        <3>. QED
            BY <1>4, <1>10, <3>1, <3>3
    <2>. QED
        BY <2>1, <2>5, <2>6, <2>7 DEF ProxyInv, HandshakeInv
<1>15. \A t \in Side, c \in Con : None(wire'[t], Creates(c)) /\ None(wire'[t], About(c))
    <2>1. \A c : None(wire'[s], Creates(c)) /\ None(wire'[s], About(c))
        BY <1>3, <1>4, <1>14, HandshakeSays
    <2>2. \A c : None(wire'[p], Creates(c)) /\ None(wire'[p], About(c))
        BY <1>14, NothingIn
    <2>. QED
        BY <1>9, <2>1, <2>2
<1>16. HandshakeInv'
    BY <1>14, <1>15 DEF HandshakeInv, Side
<1>17. ControlInv'
    BY <1>7, <1>10, <1>11, <1>14, ControlTaken
<1>18. TypeOK'
    <2>1. control' \in [Side -> {"armed", "ready", "off"}]
        BY <1>8, <1>10 DEF TypeOK
    <2>2. wire' \in [Side -> Seq([msg : Message, enc : BOOLEAN])]
        BY <1>10 DEF Sealeds
    <2>. QED
        BY <1>7, <1>8, <1>11, <1>13, <2>1, <2>2 DEF TypeOK
<1>19. /\ FaultInv' /\ FreshInv' /\ CreateInv' /\ AcceptInv' /\ TokenInv'
       /\ WireInv' /\ OrderInv' /\ DiesOfFaults'
    BY <1>7, <1>10, <1>11, <1>14, <1>15, HandshakeKeeps
<1>. QED
    BY <1>16, <1>17, <1>18, <1>19 DEF ProxyInv

(* The port is mapped.                                                     *)
LEMMA OnCreateServerKeeps ==
    ASSUME ProxyInv, NEW s \in Side, OnCreateServer(s)
    PROVE  ProxyInv'
<1>1. PICK hello : hello = Sealed(Hello, FALSE)
    OBVIOUS
<1>2. PICK create : create = Sealed(CreateServer, TRUE)
    OBVIOUS
<1>3. /\ hello \in Sealeds /\ create \in Sealeds
      /\ hello.msg.id = "init_diffie_hellman" /\ create.msg.id = "create_server"
      /\ CreateServer.id = "create_server"
    BY <1>1, <1>2, SealedIs
<1>4. /\ UNCHANGED <<dh, linked, lost, pcons, sock, reading, taken, writing,
                     outside, sent, got, part, dead, failed>>
      /\ Receive(s, "create_server", << >>) /\ Ran(s, << >>)
      /\ acceptor' = "armed"
    BY <1>3 DEF OnCreateServer, cons, ends
<1>5. TypeOK /\ ControlInv /\ << >> \in Seq(Sealeds)
    BY DEF ProxyInv
<1>6. PICK p \in Side : /\ p = Peer(s) /\ p # s /\ Peer(p) = s
                        /\ \A t \in Side : t = s \/ t = p
    BY PeerIs
<1>7. wire \in [Side -> Seq(Sealeds)]
    BY <1>5 DEF TypeOK, Sealeds
<1>8. /\ queue[s] # << >> /\ Now(s).kind = "control"
      /\ control' = [control EXCEPT ![s] = "armed"]
      /\ wire' \in [Side -> Seq(Sealeds)]
      /\ wire[p] # << >> /\ Head(wire[p]).msg = Msg(s)
      /\ Msg(s).id = "create_server"
      /\ wire'[p] = Tail(wire[p])
      /\ wire'[s] = IF lost THEN wire[s] ELSE wire[s] \o << >>
      /\ Head(wire[p]) \in Sealeds
    <2>1. PICK replies \in Seq(Sealeds) : replies = << >>
        BY <1>5
    <2>2. Receive(s, "create_server", replies)
        BY <1>4, <2>1
    <2>3. wire'[s] = IF lost THEN wire[s] ELSE wire[s] \o replies
        BY <1>5, <2>2, ReceiveIs
    <2>. QED
        BY <1>5, <1>6, <2>1, <2>2, <2>3, ReceiveIs
<1>9. wire'[s] = wire[s]
    BY <1>7, <1>8, ConcatEmptySeq
<1>10. /\ queue' \in [Side -> Seq(Handlers)]
       /\ \A t \in Side : t # s => queue'[t] = queue[t]
       /\ None(queue'[s], Controls)
       /\ ReadsStay /\ WritesStay /\ AcceptsStay
    <2>1. /\ << >> \in Seq(Handlers) /\ None(<< >>, Controls) /\ None(<< >>, Accepts)
        BY MoreIs
    <2>. QED
        BY <1>4, <1>5, <1>8, <2>1, ControlRan
<1>11. /\ acceptor = "none" /\ wire[s] = << >> /\ wire'[p] = << >>
       /\ dh["relay"] = "shared" /\ dh["home"] = "shared"
    <2>1. ~Mapped
        <3>1. Head(wire[p]) \in Early /\ p \in {"relay", "home"}
            BY <1>8, MessageIs DEF Side
        <3>2. PICK w : w = wire[p]
            OBVIOUS
        <3>3. Pops(Tail(w), w, Head(w))
            BY <1>7, <1>8, <3>2, Popped
        <3>4. ~None(w, Early)
            BY <3>1, <3>2, <3>3 DEF Pops
        <3>. QED
            BY <3>1, <3>2, <3>4 DEF Mapped
    <2>2. /\ s = "relay" => p = "home"
          /\ s = "home" => p = "relay"
          /\ s = "relay" \/ s = "home"
        BY <1>6, PeerIs DEF Side
    <2>3. AtMost(wire[p], hello) => Head(wire[p]) = hello
        BY <1>3, <1>8, HandshakeSays
    <2>4. Head(wire[p]) # hello
        BY <1>3, <1>8
    <2>5. ~HelloOut /\ ~HelloBack
        BY <1>1, <1>8, <2>2, <2>3, <2>4 DEF HelloOut, HelloBack
    <2>6. Mapping
        BY <2>1, <2>5 DEF ProxyInv, HandshakeInv
    <2>7. s = "relay" /\ p = "home"
        BY <1>8, <2>2, <2>6 DEF Mapping
    <2>8. AtMost(wire[p], create)
        BY <1>2, <2>6, <2>7 DEF Mapping
    <2>9. wire'[p] = << >>
        BY <1>3, <1>8, <2>8, HandshakeSays
    <2>. QED
        BY <2>6, <2>7, <2>9 DEF Mapping
<1>12. \A t \in Side : \A S : None(wire'[t], S)
    BY <1>6, <1>9, <1>11, NothingIn
<1>13. HandshakeInv'
    <2>1. Mapped'
        BY <1>4, <1>11, <1>12 DEF Mapped, Side
    <2>. QED
        BY <1>12, <2>1 DEF HandshakeInv, Side
<1>14. ControlInv'
    BY <1>4, <1>8, <1>9, <1>10, ControlTaken
<1>15. TypeOK'
    <2>1. control' \in [Side -> {"armed", "ready", "off"}]
        BY <1>5, <1>8 DEF TypeOK
    <2>2. wire' \in [Side -> Seq([msg : Message, enc : BOOLEAN])]
        BY <1>8 DEF Sealeds
    <2>. QED
        BY <1>4, <1>5, <1>10, <2>1, <2>2 DEF TypeOK
<1>16. /\ FaultInv' /\ FreshInv' /\ CreateInv' /\ AcceptInv' /\ TokenInv'
       /\ WireInv' /\ OrderInv' /\ DiesOfFaults'
    BY <1>4, <1>8, <1>10, <1>11, <1>12, HandshakeKeeps
<1>. QED
    BY <1>13, <1>14, <1>15, <1>16 DEF ProxyInv

-----------------------------------------------------------------------------
(* home has sent its public key, and there is nothing else.                *)
LEMMA InitKeeps == Init => ProxyInv
<1>. SUFFICES ASSUME Init
              PROVE  ProxyInv
    OBVIOUS
<1>1. PICK hello : hello = Sealed(Hello, FALSE)
    OBVIOUS
<1>2. hello \in Sealeds /\ hello.msg.id = "init_diffie_hellman"
    BY <1>1, SealedIs
<1>3. PICK first : first = <<hello>>
    OBVIOUS
<1>4. first \in Seq(Sealeds) /\ AtMost(first, hello)
    BY <1>2, <1>3 DEF AtMost
<1>5. /\ dh \in [Side -> {"none", "sent", "shared"}]
      /\ dh["relay"] = "none" /\ dh["home"] = "sent"
    BY DEF Init, Each, Side
<1>6. /\ wire \in [Side -> Seq(Sealeds)]
      /\ wire["relay"] = << >> /\ wire["home"] = first
    <2>1. PICK no \in Seq(Sealeds) : no = << >>
        BY EmptySeq
    <2>2. wire = [[s \in Side |-> no] EXCEPT !["home"] = first]
        BY <1>1, <1>3, <2>1 DEF Init, Each
    <2>3. "relay" \in Side /\ "home" \in Side
        BY DEF Side
    <2>. QED
        BY <1>4, <2>1, <2>2, <2>3
<1>7. /\ queue \in [Side -> Seq(Handlers)]
      /\ \A s \in Side : queue[s] = << >> /\ \A S : None(queue[s], S) /\ Single(queue[s], S)
    <2>1. \A s \in Side : queue[s] = << >>
        BY DEF Init, Each
    <2>2. queue \in [Side -> Seq(Handlers)]
        BY DEF Init, Each
    <2>. QED
        BY <2>1, <2>2, NothingIn
<1>8. /\ control \in [Side -> {"armed", "ready", "off"}]
      /\ linked \in [Side -> BOOLEAN] /\ \A s \in Side : linked[s]
      /\ lost = FALSE /\ acceptor = "none" /\ failed = {}
      /\ dead \in [Side -> {"no", "freed", "unknown", "no acceptor"}]
      /\ \A s \in Side : dead[s] = "no"
    BY DEF Init, Each
<1>9. /\ pcons \in [Side -> SUBSET Con] /\ reading \in [Side -> SUBSET Con]
      /\ \A s \in Side : pcons[s] = {} /\ reading[s] = {}
    BY DEF Init, Each
<1>10. /\ sock \in [Side -> [Con -> {"none", "open", "refused", "closed"}]]
       /\ outside \in [Side -> [Con -> {"none", "open", "closed"}]]
       /\ \A s \in Side, c \in Con : sock[s][c] = "none" /\ outside[s][c] = "none"
    BY DEF Init, EachCon
<1>11. /\ sent \in [Side -> [Con -> Nat]] /\ taken \in [Side -> [Con -> Nat]]
       /\ \A s \in Side, c \in Con : sent[s][c] = 0 /\ taken[s][c] = 0
    BY DEF Init, EachCon
<1>12. /\ writing \in [Side -> [Con -> Seq(Con \X Nat)]]
       /\ got \in [Side -> [Con -> Seq(Con \X Nat)]]
       /\ \A s \in Side, c \in Con : writing[s][c] = << >> /\ got[s][c] = << >>
       /\ part \in [Side -> [Con -> SUBSET Nat]]
    <2>1. PICK no : no = << >>
        OBVIOUS
    <2>2. no \in Seq(Con \X Nat)
        BY <2>1
    <2>3. /\ writing = [s \in Side |-> [c \in Con |-> no]]
          /\ got = [s \in Side |-> [c \in Con |-> no]]
        BY <2>1 DEF Init, EachCon
    <2>4. part \in [Side -> [Con -> SUBSET Nat]]
        BY DEF Init, EachCon
    <2>. QED
        BY <2>1, <2>2, <2>3, <2>4
<1>13. TypeOK
    <2>1. wire \in [Side -> Seq([msg : Message, enc : BOOLEAN])]
        BY <1>6 DEF Sealeds
    <2>2. \A s \in Side, c \in Con : taken[s][c] <= sent[s][c]
        BY <1>11
    <2>3. lost \in BOOLEAN /\ failed \subseteq Side
        BY <1>8
    <2>. QED
        BY <1>5, <1>7, <1>8, <1>9, <1>10, <1>11, <1>12, <2>1, <2>2, <2>3 DEF TypeOK
<1>14. \A s \in Side, c \in Con : None(wire[s], Creates(c)) /\ None(wire[s], About(c))
    <2>1. \A c : /\ None(wire["home"], Creates(c)) /\ None(wire["home"], About(c))
                 /\ None(wire["relay"], Creates(c)) /\ None(wire["relay"], About(c))
        BY <1>2, <1>4, <1>6, HandshakeSays, NothingIn
    <2>. QED
        BY <2>1 DEF Side
<1>15. ControlInv
    BY <1>7 DEF ControlInv
<1>16. FaultInv /\ DiesOfFaults
    BY <1>8 DEF FaultInv, DiesOfFaults
<1>17. HandshakeInv
    <2>1. HelloOut
        BY <1>1, <1>4, <1>5, <1>6, <1>8 DEF HelloOut
    <2>. QED
        BY <1>14, <2>1 DEF HandshakeInv, Side
<1>18. FreshInv
    BY <1>7, <1>9, <1>10, <1>11, <1>12, <1>14 DEF FreshInv, Side
<1>19. CreateInv
    <2>1. \A c \in Con : Single(wire["relay"], Creates(c))
        BY <1>14 DEF None, Single, Side
    <2>. QED
        BY <1>14, <2>1 DEF CreateInv, Side
<1>20. AcceptInv
    BY <1>7 DEF AcceptInv, Side
<1>21. TokenInv
    BY <1>7, <1>9 DEF TokenInv, OneRead
<1>22. WireInv
    <2>1. \A s \in Side, c \in Con : None(wire[s], Closes(c))
        BY <1>6, <1>14, NoneWithin
    <2>2. \A s \in Side, c \in Con : /\ Leads(wire[s], Creates(c), About(c))
                                     /\ Ends(wire[s], Closes(c), About(c))
        BY <1>14, <2>1 DEF None, Leads, Ends
    <2>. QED
        BY <2>2 DEF WireInv
<1>23. OrderInv
    <2>. SUFFICES ASSUME NEW s \in Side, NEW c \in Con
                  PROVE  /\ Delivered(got[s][c], part[s][c], c, sent[Peer(s)][c])
                         /\ Waiting(got[s][c], writing[s][c], part[s][c], c)
                         /\ Flow(wire[Peer(s)], c, Arrived(s, c), taken[Peer(s)][c])
                         /\ Flow(wire[Peer(s)], c, Arrived(s, c), Fed(Peer(s), c))
                         /\ Full(wire[Peer(s)], c, Arrived(s, c), Fed(Peer(s), c))
        BY DEF OrderInv
    <2>1. PICK p \in Side : p = Peer(s)
        BY PeerIs
    <2>2. Len(got[s][c]) = 0 /\ Len(writing[s][c]) = 0
        BY <1>12
    <2>3. Arrived(s, c) = 0
        BY <2>2 DEF Arrived
    <2>4. Fed(p, c) = 0 /\ taken[p][c] = 0 /\ sent[p][c] = 0
        BY <1>7, <1>11 DEF Fed
    <2>5. None(wire[p], Carries(c))
        BY <1>6, <1>14, NoneWithin
    <2>6. Flow(wire[p], c, 0, 0) /\ Full(wire[p], c, 0, 0)
        BY <2>5 DEF Flow, Full, None
    <2>7. /\ Delivered(got[s][c], part[s][c], c, sent[Peer(s)][c])
          /\ Waiting(got[s][c], writing[s][c], part[s][c], c)
      <3>1. 1 .. 0 = {} /\ 0 + 0 = 0
          OBVIOUS
      <3>. QED
          BY <2>2, <3>1, Zenon DEF Delivered, Waiting
    <2>. QED
        BY <2>1, <2>2, <2>3, <2>4, <2>6, <2>7
<1>. QED
    BY <1>13, <1>15, <1>16, <1>17, <1>18, <1>19, <1>20, <1>21, <1>22, <1>23 DEF ProxyInv

(* Every step keeps what holds of the two proxies.                         *)
LEMMA StepKeeps == ProxyInv /\ [Next]_vars => ProxyInv'
<1>. SUFFICES ASSUME ProxyInv, [Next]_vars
              PROVE  ProxyInv'
    OBVIOUS
<1>1. CASE UNCHANGED vars
    <2>1. /\ UNCHANGED <<dh, wire, queue, control, linked, acceptor, pcons, sock, reading>>
          /\ UNCHANGED <<writing, outside, sent, taken, got, part, lost, dead, failed>>
        BY <1>1 DEF vars, link, cons, ends
    <2>2. TypeOK' /\ ControlInv' /\ FaultInv' /\ HandshakeInv' /\ DiesOfFaults'
        BY <2>1 DEF ProxyInv, TypeOK, ControlInv, FaultInv, HandshakeInv, HelloOut,
                    HelloBack, Mapping, Mapped, DiesOfFaults
    <2>3. FreshInv' /\ CreateInv' /\ AcceptInv'
        BY <2>1 DEF ProxyInv, FreshInv, CreateInv, AcceptInv
    <2>4. TokenInv' /\ WireInv'
        BY <2>1 DEF ProxyInv, TokenInv, OneRead, WireInv
    <2>5. OrderInv'
        <3>1. \A s \in Side, c \in Con : Receives(s, c)' => Receives(s, c)
            BY <2>1 DEF Receives
        <3>2. TypeOK /\ ReadsStay /\ FlowsStay
            BY <2>1, AllStay DEF ProxyInv
        <3>. QED
            BY <2>1, <3>1, <3>2, AllStay, OrderFrame DEF ProxyInv
    <2>. QED
        BY <2>2, <2>3, <2>4, <2>5 DEF ProxyInv
<1>2. CASE Outside
    <2>1. CASE Lose
        BY <2>1, LoseKeeps
    <2>2. ASSUME NEW c \in Con, UserConnects(c)
          PROVE  ProxyInv'
        BY <2>2, UserConnectsKeeps
    <2>3. ASSUME NEW c \in Con, NEW s \in Side, OutsideSends(s, c)
          PROVE  ProxyInv'
        BY <2>3, SendsKeeps
    <2>4. ASSUME NEW c \in Con, NEW s \in Side, OutsideCloses(s, c)
          PROVE  ProxyInv'
        BY <2>4, ClosesKeeps
    <2>. QED
        BY <1>2, <2>1, <2>2, <2>3, <2>4 DEF Outside
<1>3. ASSUME NEW s \in Side, Handle(s)
      PROVE  ProxyInv'
    <2>1. CASE OnRead(s)
        BY <2>1, OnReadKeeps
    <2>2. CASE OnError(s)
        BY <2>2, OnErrorKeeps
    <2>3. CASE OnHello(s)
        BY <2>3, OnHelloKeeps
    <2>4. CASE OnCreateServer(s)
        BY <2>4, OnCreateServerKeeps
    <2>5. CASE OnCreateConnection(s)
        BY <2>5, OnCreateConnectionKeeps
    <2>6. CASE OnUnknown(s)
        BY <2>6, OnUnknownKeeps
    <2>7. CASE OnForwardWrite(s)
        BY <2>7, OnForwardWriteKeeps
    <2>8. CASE OnStatus(s)
        BY <2>8, OnStatusKeeps
    <2>9. CASE OnControlClosed(s)
        BY <2>9, OnControlClosedKeeps
    <2>10. CASE OnAccept
        BY <2>10, OnAcceptKeeps
    <2>11. CASE OnAcceptError
        BY <2>11, OnAcceptErrorKeeps
    <2>. QED
        BY <1>3, <2>1, <2>2, <2>3, <2>4, <2>5, <2>6, <2>7, <2>8, <2>9, <2>10, <2>11
           DEF Handle
<1>4. ASSUME NEW s \in Side, Ready(s)
      PROVE  ProxyInv'
    <2>1. CASE ControlReady(s)
        BY <2>1, ControlReadyKeeps
    <2>2. ASSUME NEW c \in Con, ReadReady(s, c)
          PROVE  ProxyInv'
        BY <2>2, ReadReadyKeeps
    <2>3. ASSUME NEW c \in Con, WritePart(s, c)
          PROVE  ProxyInv'
        BY <2>3, WritePartKeeps
    <2>4. ASSUME NEW c \in Con, WriteReady(s, c)
          PROVE  ProxyInv'
        BY <2>4, WriteReadyKeeps
    <2>. QED
        BY <1>4, <2>1, <2>2, <2>3, <2>4 DEF Ready
<1>. QED
    BY <1>1, <1>2, <1>3, <1>4 DEF Next

(* What the invariant says of the head of the wire: it is read with a key  *)
(* exactly if it was written with one.                                     *)
LEMMA HeadsAreUnderstood == ProxyInv => Understood
<1>. SUFFICES ASSUME ProxyInv, NEW s \in Side, wire[Peer(s)] # << >>
              PROVE  Head(wire[Peer(s)]).enc = (dh[s] = "shared")
    BY DEF Understood
<1>1. PICK p \in Side : p = Peer(s)
    BY PeerIs
<1>2. /\ s = "relay" => p = "home"
      /\ s = "home" => p = "relay"
      /\ s = "relay" \/ s = "home"
    BY <1>1, PeerIs DEF Side
<1>3. PICK hello : hello = Sealed(Hello, FALSE)
    OBVIOUS
<1>4. PICK create : create = Sealed(CreateServer, TRUE)
    OBVIOUS
<1>5. /\ hello \in Sealeds /\ hello.enc = FALSE /\ hello.msg.id = "init_diffie_hellman"
      /\ create \in Sealeds /\ create.enc = TRUE /\ create.msg.id = "create_server"
    BY <1>3, <1>4, SealedIs
<1>6. CASE HelloOut \/ HelloBack
    <2>1. AtMost(wire[p], hello) /\ dh[s] # "shared"
        <3>1. CASE HelloOut
            <4>1. s = "relay" /\ p = "home"
                BY <1>1, <1>2, <3>1 DEF HelloOut
            <4>. QED
                BY <1>3, <3>1, <4>1 DEF HelloOut
        <3>2. CASE HelloBack
            <4>1. s = "home" /\ p = "relay"
                BY <1>1, <1>2, <3>2 DEF HelloBack
            <4>. QED
                BY <1>3, <3>2, <4>1 DEF HelloBack
        <3>. QED
            BY <1>6, <3>1, <3>2
    <2>2. Head(wire[p]) = hello
        BY <1>1, <1>5, <2>1, HandshakeSays
    <2>. QED
        BY <1>1, <1>5, <2>1, <2>2
<1>7. CASE Mapping
    <2>1. AtMost(wire[p], create) /\ dh[s] = "shared"
        BY <1>1, <1>2, <1>4, <1>7 DEF Mapping
    <2>2. Head(wire[p]) = create
        BY <1>1, <1>5, <2>1, HandshakeSays
    <2>. QED
        BY <1>1, <1>5, <2>1, <2>2
<1>8. CASE Mapped
    <2>1. None(wire[p], Early) /\ dh[s] = "shared"
        BY <1>2, <1>8 DEF Mapped
    <2>2. wire[p] \in Seq(Sealeds)
        BY DEF ProxyInv, TypeOK, Sealeds
    <2>3. PICK w : w = wire[p]
        OBVIOUS
    <2>4. PICK x : x = Head(w)
        OBVIOUS
    <2>5. Pops(Tail(w), w, x) /\ x \in Sealeds
        BY <1>1, <2>2, <2>3, <2>4, Popped
    <2>6. x \notin Early
        BY <2>1, <2>3, <2>5 DEF Pops
    <2>7. x.enc = TRUE
        BY <2>5, <2>6, MessageIs
    <2>. QED
        BY <1>1, <2>1, <2>3, <2>4, <2>7
<1>. QED
    BY <1>6, <1>7, <1>8 DEF ProxyInv, HandshakeInv

(* What goes over the control connection is understood: both sides change  *)
(* to the shared key at the same message.  And whatever connects, breaks,  *)
(* closes or is refused, what an end receives is what the other end of its *)
(* connection sent, each chunk once and after all before it, but for those *)
(* whose write took several calls, which other writes may pass.            *)
THEOREM RelayCarriesInOrder == Spec => []RelaySound
<1>1. ProxyInv => RelaySound
    <2>. SUFFICES ASSUME ProxyInv
                  PROVE  InOrder
        BY HeadsAreUnderstood DEF ProxyInv, RelaySound
    <2>. SUFFICES ASSUME NEW s \in Side, NEW c \in Con
                  PROVE  \A i \in DOMAIN got[s][c] :
                           /\ got[s][c][i] \in {c} \X (1 .. sent[Peer(s)][c])
                           /\ \A j \in 1 .. i - 1 : got[s][c][j] # got[s][c][i]
                           /\ \A d \in 1 .. got[s][c][i][2] - 1 :
                                \/ d \in part[s][c]
                                \/ \E j \in 1 .. i - 1 : got[s][c][j] = <<c, d>>
        BY Zenon DEF InOrder
    <2>1. got[s][c] \in Seq(Con \X Nat)
        BY DEF ProxyInv, TypeOK
    <2>2. DOMAIN got[s][c] = 1 .. Len(got[s][c])
        BY <2>1
    <2>3. \A x, top : IsChunk(x, c, top) => x \in {c} \X (1 .. top)
        BY DEF IsChunk
    <2>4. Delivered(got[s][c], part[s][c], c, sent[Peer(s)][c])
        BY DEF ProxyInv, OrderInv
    <2>. QED
        BY <2>2, <2>3, <2>4, Zenon DEF Delivered
<1>. QED
    BY <1>1, InitKeeps, StepKeeps, PTL DEF Spec

(* A process follows a message to a connection that it lacks only if its   *)
(* peer had a write fail; it uses a control_connection that was freed, or  *)
(* a mapped port that was closed, only after the connection broke.         *)
THEOREM ProxyDiesOfFaults == Spec => []DiesOfFaults
<1>1. ProxyInv => DiesOfFaults
    BY DEF ProxyInv
<1>. QED
    BY <1>1, InitKeeps, StepKeeps, PTL DEF Spec

=============================================================================
