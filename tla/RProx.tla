------------------------------- MODULE RProx -------------------------------
(***************************************************************************)
(* The reverse proxy (libs/rprox): "home" connects to "relay" and asks it  *)
(* to accept connections on a port; what a user sends there is carried     *)
(* over the control connection to a service that "home" can reach, and     *)
(* back.                                                                   *)
(*                                                                         *)
(* Each process runs one io_service in one thread: an operation that is    *)
(* ready puts its handler at the end of queue[s], and handlers run one at  *)
(* a time in that order.  A process that uses what is no longer there is   *)
(* down.  A message is on the wire as a whole and in the order of the      *)
(* calls to send; blowfish is whether a message was encrypted.  A chunk of *)
(* a user's stream is received with its last byte: its write may take      *)
(* several calls, and those of other writes come in between.               *)
(***************************************************************************)
EXTENDS Integers, SequencesExt, FiniteSetsExt

CONSTANTS
    MaxCon,    \* bound: the users that ever connect
    MaxData    \* bound: the chunks all ends together send

ASSUME BoundAssumption == MaxCon \in Nat /\ MaxData \in Nat

Side == {"relay", "home"}
Con == 1 .. MaxCon
Peer(s) == CHOOSE t \in Side : t # s

VARIABLES
    dh,        \* m_dh: "none", "sent" once a public key is out, or "shared"
    wire,      \* the messages on their way, by the side that sent them
    queue,     \* the handlers that are ready to run
    control,   \* whether the control connection is read: "armed", "ready", "off"
    linked,    \* whether the server object still holds the control_connection
    acceptor,  \* the mapped port of relay: "none", "armed", "ready", "closed"
    pcons,     \* the keys of pcons
    sock,      \* the socket of each proxy_connection
    reading,   \* the connections with a read that is not ready
    writing,   \* the chunks of async_writes that are not finished
    part,      \* history: the chunks a socket did not take at once
    outside,   \* the other end of that socket: the user, or the service
    sent,      \* how many chunks that end has sent
    taken,     \* how many of them were read
    got,       \* what that end has received
    lost,      \* whether the control connection is broken
    dead,      \* why a process is down, or "no"
    failed     \* history: the writes to an outside end that failed

link == <<dh, wire, control, linked, lost>>
ends == <<outside, sent, got>>
cons == <<pcons, sock, reading, taken>>
vars == <<link, queue, acceptor, cons, writing, part, ends, dead, failed>>

Each(x) == [s \in Side |-> x]
EachCon(x) == [s \in Side |-> [c \in Con |-> x]]

(* A message on the wire, and whether blowfish is applied to it.           *)
Sealed(msg, enc) == [msg |-> msg, enc |-> enc]

Hello == [id |-> "init_diffie_hellman"]

(* home has connected, and init_handshake has sent its public key.         *)
Init ==
    /\ dh = [Each("none") EXCEPT !["home"] = "sent"]
    /\ wire = [Each(<< >>) EXCEPT !["home"] = <<Sealed(Hello, FALSE)>>]
    /\ queue = Each(<< >>) /\ control = Each("armed")
    /\ linked = Each(TRUE) /\ acceptor = "none"
    /\ pcons = Each({}) /\ sock = EachCon("none") /\ reading = Each({})
    /\ writing = EachCon(<< >>) /\ part = EachCon({})
    /\ outside = EachCon("none") /\ sent = EachCon(0) /\ taken = EachCon(0)
    /\ got = EachCon(<< >>)
    /\ lost = FALSE /\ dead = Each("no") /\ failed = {}

-----------------------------------------------------------------------------
(* What is ready gets its handler into the queue.                          *)
Handler(kind, c, ok) == [kind |-> kind, con |-> c, ok |-> ok]
Post(s, h) == queue' = [queue EXCEPT ![s] = Append(@, h)]

ControlReady(s) ==
    /\ dead[s] = "no" /\ control[s] = "armed"
    /\ wire[Peer(s)] # << >> \/ lost
    /\ control' = [control EXCEPT ![s] = "ready"]
    /\ Post(s, Handler("control", 0, TRUE))
    /\ UNCHANGED <<dh, wire, linked, lost, acceptor, cons, writing, ends, dead,
                   failed, part>>

(* The socket has a chunk, or its other end is closed and all is read.     *)
ReadReady(s, c) ==
    /\ dead[s] = "no" /\ c \in reading[s]
    /\ reading' = [reading EXCEPT ![s] = @ \ {c}]
    /\ \/ /\ taken[s][c] < sent[s][c]
          /\ taken' = [taken EXCEPT ![s][c] = @ + 1]
          /\ Post(s, Handler("read", c, TRUE))
       \/ /\ taken[s][c] = sent[s][c] /\ outside[s][c] = "closed"
          /\ Post(s, Handler("read", c, FALSE))
          /\ UNCHANGED taken
    /\ UNCHANGED <<link, acceptor, pcons, sock, writing, part, ends, dead,
                   failed>>

(* The writes that the socket may take bytes of: the first one, and those  *)
(* behind others that are to go on with what it did not take of them.      *)
Due(s, c) ==
    {i \in DOMAIN writing[s][c] :
        \A j \in 1 .. i - 1 : writing[s][c][j][2] \in part[s][c]}

(* async_write goes on with the rest in a call of its own.                 *)
WritePart(s, c) ==
    /\ dead[s] = "no" /\ outside[s][c] = "open"
    /\ \E i \in Due(s, c) :
        part' = [part EXCEPT ![s][c] = @ \cup {writing[s][c][i][2]}]
    /\ UNCHANGED <<link, queue, acceptor, cons, writing, ends, dead, failed>>

(* The handler of a write that is done does nothing and is not posted; one *)
(* to an end that is closed may fail, or be done in vain.                  *)
WriteReady(s, c) ==
    /\ dead[s] = "no"
    /\ \E i \in Due(s, c) :
        /\ writing' = [writing EXCEPT ![s][c] = RemoveAt(@, i)]
        /\ \/ /\ outside[s][c] = "open"
              /\ got' = [got EXCEPT ![s][c] = Append(@, writing[s][c][i])]
              /\ UNCHANGED <<queue, failed>>
           \/ /\ outside[s][c] = "closed"
              /\ \/ Post(s, Handler("write", c, FALSE)) /\ failed' = failed \cup {s}
                 \/ UNCHANGED <<queue, failed>>
              /\ UNCHANGED got
    /\ UNCHANGED <<link, acceptor, cons, outside, sent, dead, part>>

(* Users connect one after the other: the k-th gets connection id k.       *)
UserConnects(c) ==
    /\ dead["relay"] = "no" /\ acceptor = "armed"
    /\ c \in Con /\ \A d \in Con : outside["relay"][d] = "none" <=> c <= d
    /\ acceptor' = "ready"
    /\ outside' = [outside EXCEPT !["relay"][c] = "open"]
    /\ Post("relay", Handler("accept", c, TRUE))
    /\ UNCHANGED <<link, cons, writing, part, sent, got, dead, failed>>

OutsideSends(s, c) ==
    /\ outside[s][c] = "open"
    /\ MapThenSumSet(LAMBDA t : SumFunction(sent[t]), Side) < MaxData
    /\ sent' = [sent EXCEPT ![s][c] = @ + 1]
    /\ UNCHANGED <<link, queue, acceptor, cons, writing, outside, got, dead,
                   failed, part>>

OutsideCloses(s, c) ==
    /\ outside[s][c] = "open"
    /\ outside' = [outside EXCEPT ![s][c] = "closed"]
    /\ UNCHANGED <<link, queue, acceptor, cons, writing, sent, got, dead,
                   failed, part>>

(* Of what is on the wire, each side still receives a part.                *)
Lose ==
    /\ ~lost
    /\ lost' = TRUE
    /\ \E n \in [Side -> 0 .. Max({Len(wire[s]) : s \in Side})] :
        /\ \A s \in Side : n[s] <= Len(wire[s])
        /\ wire' = [s \in Side |-> SubSeq(wire[s], 1, n[s])]
    /\ UNCHANGED <<dh, control, linked, queue, acceptor, cons, writing, ends,
                   dead, failed, part>>

-----------------------------------------------------------------------------
(* The handler at the head of the queue; it may post more.                 *)
Now(s) == Head(queue[s])

Runs(s, kind, ok) ==
    dead[s] = "no" /\ queue[s] # << >> /\ Now(s).kind = kind /\ Now(s).ok = ok

Ran(s, more) == queue' = [queue EXCEPT ![s] = Tail(@) \o more]

Encrypted(s, msg) == Sealed(msg, dh[s] = "shared")

Send(s, msg) ==
    wire' = IF lost THEN wire
            ELSE [wire EXCEPT ![s] = Append(@, Encrypted(s, msg))]

Status(c) == [id |-> "connection_status", con |-> c]
ForwardWrite(c, chunk) == [id |-> "forward_write", con |-> c, data |-> chunk]
CreateConnection(c) == [id |-> "create_connection", con |-> c]
CreateServer == [id |-> "create_server"]

(* An accept that has not run its handler shares the control_connection.   *)
Held(s) ==
    \/ linked[s]
    \/ s = "relay" /\ acceptor = "armed"
    \/ \E h \in ToSet(queue[s]) : h.kind = "accept"

(* shared_ptr(echo_connection) throws when the object is freed, unless a   *)
(* write to the broken connection is still unfinished and shares it.       *)
Echo(s, msg) ==
    IF Held(s) THEN Send(s, msg) /\ UNCHANGED dead
    ELSE /\ UNCHANGED wire
         /\ dead' \in {dead, [dead EXCEPT ![s] = "freed"]}

(* (A slip: what was read is forwarded, and no more is read.)              *)
OnReadOnce(s) ==
    /\ Runs(s, "read", TRUE)
    /\ Echo(s, ForwardWrite(Now(s).con, taken[s][Now(s).con]))
    /\ Ran(s, << >>)
    /\ UNCHANGED <<dh, control, linked, lost, acceptor, cons, writing, ends,
                   failed, part>>

(* proxy_connection::on_read; reading a closed socket fails at once.       *)
OnRead(s) ==
    /\ Runs(s, "read", TRUE)
    /\ LET c == Now(s).con IN
       /\ Echo(s, ForwardWrite(c, taken[s][c]))
       /\ IF sock[s][c] = "open"
          THEN reading' = [reading EXCEPT ![s] = @ \cup {c}] /\ Ran(s, << >>)
          ELSE UNCHANGED reading /\ Ran(s, <<Handler("read", c, FALSE)>>)
    /\ UNCHANGED <<dh, control, linked, lost, acceptor, pcons, sock, taken,
                   writing, part, ends, failed>>

(* (A slip: after an error, it reads again.)                               *)
OnErrorReads(s) ==
    /\ Runs(s, "read", FALSE) \/ Runs(s, "write", FALSE)
    /\ Echo(s, Status(Now(s).con))
    /\ Ran(s, <<Handler("read", Now(s).con, FALSE)>>)
    /\ UNCHANGED <<dh, control, linked, lost, acceptor, cons, writing, ends,
                   failed, part>>

(* on_read and on_write: the peer is told; the entry stays.                *)
OnError(s) ==
    /\ Runs(s, "read", FALSE) \/ Runs(s, "write", FALSE)
    /\ Echo(s, Status(Now(s).con))
    /\ Ran(s, << >>)
    /\ UNCHANGED <<dh, control, linked, lost, acceptor, cons, writing, ends,
                   failed, part>>

(* handle_mapped_port_accept, which accepts again.                         *)
OnAccept ==
    /\ Runs("relay", "accept", TRUE)
    /\ LET c == Now("relay").con IN
       /\ Send("relay", CreateConnection(c))
       /\ pcons' = [pcons EXCEPT !["relay"] = @ \cup {c}]
       /\ sock' = [sock EXCEPT !["relay"][c] = "open"]
       /\ reading' = [reading EXCEPT !["relay"] = @ \cup {c}]
    /\ IF acceptor = "closed"
       THEN UNCHANGED acceptor /\ dead' = [dead EXCEPT !["relay"] = "no acceptor"]
       ELSE acceptor' = "armed" /\ UNCHANGED dead
    /\ Ran("relay", << >>)
    /\ UNCHANGED <<dh, control, linked, lost, taken, writing, part, ends,
                   failed>>

OnAcceptError ==
    /\ Runs("relay", "accept", FALSE)
    /\ Ran("relay", << >>)
    /\ UNCHANGED <<link, acceptor, cons, writing, part, ends, dead, failed>>

-----------------------------------------------------------------------------
(* read_message: a message is handled, and the next one is read.           *)
Msg(s) == Head(wire[Peer(s)]).msg

Receive(s, id, replies) ==
    /\ Runs(s, "control", TRUE)
    /\ wire[Peer(s)] # << >> /\ Msg(s).id = id
    /\ control' = [control EXCEPT ![s] = "armed"]
    /\ wire' = [wire EXCEPT ![Peer(s)] = Tail(@),
                            ![s] = IF lost THEN @ ELSE @ \o replies]

ComputeSharedKey(s) == dh' = [dh EXCEPT ![s] = "shared"]

(* (A slip: the answer is sent after there is a key.)                      *)
OnHelloSealed(s) ==
    /\ Receive(s, Hello.id,
               IF dh[s] = "none" THEN <<Sealed(Hello, TRUE)>>
               ELSE <<Sealed(CreateServer, TRUE)>>)
    /\ ComputeSharedKey(s)
    /\ Ran(s, << >>)
    /\ UNCHANGED <<linked, lost, acceptor, cons, writing, part, ends, dead,
                   failed>>

(* The answer is sent before there is a key.  At home, connected() goes on *)
(* to map_port, once the service accepts a first, unused connection.       *)
OnHello(s) ==
    /\ Receive(s, Hello.id,
               IF dh[s] = "none" THEN <<Encrypted(s, Hello)>>
               ELSE <<Sealed(CreateServer, TRUE)>>)
    /\ ComputeSharedKey(s)
    /\ Ran(s, << >>)
    /\ UNCHANGED <<linked, lost, acceptor, cons, writing, part, ends, dead,
                   failed>>

OnCreateServer(s) ==
    /\ Receive(s, CreateServer.id, << >>)
    /\ acceptor' = "armed"
    /\ Ran(s, << >>)
    /\ UNCHANGED <<dh, linked, lost, cons, writing, part, ends, dead, failed>>

(* The service accepts, or it refuses: then nothing is read or said.       *)
OnCreateConnection(s) ==
    /\ Receive(s, "create_connection", << >>)
    /\ LET c == Msg(s).con IN
       /\ pcons' = [pcons EXCEPT ![s] = @ \cup {c}]
       /\ \/ /\ sock' = [sock EXCEPT ![s][c] = "open"]
             /\ outside' = [outside EXCEPT ![s][c] = "open"]
             /\ reading' = [reading EXCEPT ![s] = @ \cup {c}]
          \/ /\ sock' = [sock EXCEPT ![s][c] = "refused"]
             /\ UNCHANGED <<outside, reading>>
    /\ Ran(s, << >>)
    /\ UNCHANGED <<dh, linked, lost, acceptor, taken, writing, sent, got, dead,
                   failed, part>>

(* A message about a connection pcons lacks is followed to nowhere.        *)
OnUnknown(s) ==
    /\ \E id \in {"forward_write", "connection_status"} : Receive(s, id, << >>)
    /\ Msg(s).con \notin pcons[s]
    /\ dead' = [dead EXCEPT ![s] = "unknown"]
    /\ Ran(s, << >>)
    /\ UNCHANGED <<dh, linked, lost, acceptor, cons, writing, part, ends,
                   failed>>

OnForwardWrite(s) ==
    /\ Receive(s, "forward_write", << >>)
    /\ LET c == Msg(s).con IN
       /\ c \in pcons[s]
       /\ IF sock[s][c] = "open"
          THEN /\ writing' = [writing EXCEPT ![s][c] =
                                Append(@, <<c, Msg(s).data>>)]
               /\ Ran(s, << >>)
               /\ UNCHANGED failed
          ELSE /\ Ran(s, <<Handler("write", c, FALSE)>>)
               /\ failed' = failed \cup {s}
               /\ UNCHANGED writing
    /\ UNCHANGED <<dh, linked, lost, acceptor, cons, ends, dead, part>>

(* Closing a socket aborts what is pending on it.                          *)
Aborted(s, c) ==
    (IF c \in reading[s] THEN <<Handler("read", c, FALSE)>> ELSE << >>)
    \o [i \in DOMAIN writing[s][c] |-> Handler("write", c, FALSE)]

AllAborted(s) ==
    FlattenSeq([c \in Con |-> IF c \in pcons[s] THEN Aborted(s, c) ELSE << >>])

CloseSockets(s, C) ==
    /\ pcons' = [pcons EXCEPT ![s] = @ \ C]
    /\ sock' = [sock EXCEPT ![s] =
                  [c \in Con |-> IF c \in C /\ @[c] = "open" THEN "closed" ELSE @[c]]]
    /\ reading' = [reading EXCEPT ![s] = @ \ C]
    /\ writing' = [writing EXCEPT ![s] =
                     [c \in Con |-> IF c \in C THEN << >> ELSE @[c]]]
    /\ failed' = IF \E c \in C : writing[s][c] # << >> THEN failed \cup {s}
                 ELSE failed

(* (A slip: what closing a socket aborts says nothing.)                    *)
OnStatusQuiet(s) ==
    /\ Receive(s, "connection_status", << >>)
    /\ Msg(s).con \in pcons[s]
    /\ CloseSockets(s, {Msg(s).con})
    /\ Ran(s, << >>)
    /\ UNCHANGED <<dh, linked, lost, acceptor, taken, ends, dead, part>>

OnStatus(s) ==
    /\ Receive(s, "connection_status", << >>)
    /\ Msg(s).con \in pcons[s]
    /\ CloseSockets(s, {Msg(s).con})
    /\ Ran(s, Aborted(s, Msg(s).con))
    /\ UNCHANGED <<dh, linked, lost, acceptor, taken, ends, dead, part>>

(* The control connection is at its end: all sockets are closed, then the  *)
(* mapped port and the server's hold on the control_connection.            *)
OnControlClosed(s) ==
    /\ Runs(s, "control", TRUE)
    /\ wire[Peer(s)] = << >>
    /\ control' = [control EXCEPT ![s] = "off"]
    /\ CloseSockets(s, pcons[s])
    /\ IF s = "relay" /\ acceptor # "none"
       THEN /\ acceptor' = "closed"
            /\ Ran(s, AllAborted(s) \o
                 (IF acceptor = "armed" THEN <<Handler("accept", 0, FALSE)>>
                  ELSE << >>))
       ELSE UNCHANGED acceptor /\ Ran(s, AllAborted(s))
    /\ linked' = [linked EXCEPT ![s] = FALSE]
    /\ UNCHANGED <<dh, wire, lost, taken, ends, dead, part>>

Handle(s) ==
    \/ OnRead(s) \/ OnError(s)
    \/ OnHello(s) \/ OnCreateServer(s) \/ OnCreateConnection(s)
    \/ OnUnknown(s) \/ OnForwardWrite(s) \/ OnStatus(s) \/ OnControlClosed(s)
    \/ s = "relay" /\ (OnAccept \/ OnAcceptError)

Ready(s) ==
    \/ ControlReady(s)
    \/ \E c \in Con : ReadReady(s, c) \/ WritePart(s, c) \/ WriteReady(s, c)

Outside ==
    \/ Lose
    \/ \E c \in Con :
        \/ UserConnects(c)
        \/ \E s \in Side : OutsideSends(s, c) \/ OutsideCloses(s, c)

Next == Outside \/ \E s \in Side : Handle(s) \/ Ready(s)

(* io_service::run, and the ends read what they are sent.                  *)
Fairness ==
    \A s \in Side :
        /\ WF_vars(Handle(s)) /\ WF_vars(ControlReady(s))
        /\ \A c \in Con : WF_vars(ReadReady(s, c)) /\ WF_vars(WriteReady(s, c))

Spec == Init /\ [][Next]_vars /\ Fairness

-----------------------------------------------------------------------------
Message ==
    {Hello, CreateServer}
        \cup [id : {"create_connection", "connection_status"}, con : Con]
        \cup [id : {"forward_write"}, con : Con, data : Nat]

Handlers ==
    [kind : {"control"}, con : {0}, ok : {TRUE}]
        \cup [kind : {"accept"}, con : {0}, ok : {FALSE}]
        \cup [kind : {"accept"}, con : Con, ok : {TRUE}]
        \cup [kind : {"read", "write"}, con : Con, ok : BOOLEAN]

TypeOK ==
    /\ dh \in [Side -> {"none", "sent", "shared"}]
    /\ wire \in [Side -> Seq([msg : Message, enc : BOOLEAN])]
    /\ queue \in [Side -> Seq(Handlers)]
    /\ control \in [Side -> {"armed", "ready", "off"}]
    /\ linked \in [Side -> BOOLEAN] /\ lost \in BOOLEAN
    /\ acceptor \in {"none", "armed", "ready", "closed"}
    /\ pcons \in [Side -> SUBSET Con] /\ reading \in [Side -> SUBSET Con]
    /\ sock \in [Side -> [Con -> {"none", "open", "refused", "closed"}]]
    /\ outside \in [Side -> [Con -> {"none", "open", "closed"}]]
    /\ writing \in [Side -> [Con -> Seq(Con \X Nat)]]
    /\ part \in [Side -> [Con -> SUBSET Nat]]
    /\ got \in [Side -> [Con -> Seq(Con \X Nat)]]
    /\ sent \in [Side -> [Con -> Nat]] /\ taken \in [Side -> [Con -> Nat]]
    /\ \A s \in Side : \A c \in Con : taken[s][c] <= sent[s][c]
    /\ dead \in [Side -> {"no", "freed", "unknown", "no acceptor"}]
    /\ failed \subseteq Side

(* Both ends change to the key at the same message: whatever is read next  *)
(* was encrypted exactly if the reader decrypts.                           *)
Understood ==
    \A s \in Side :
        wire[Peer(s)] # << >> => Head(wire[Peer(s)]).enc = (dh[s] = "shared")

(* What an end receives is what the other end of its connection sent, each *)
(* chunk once and after all before it but those whose write took several   *)
(* calls, which others may pass.                                           *)
InOrder ==
    \A s \in Side, c \in Con : \A i \in DOMAIN got[s][c] :
        /\ got[s][c][i] \in {c} \X (1 .. sent[Peer(s)][c])
        /\ \A j \in 1 .. i - 1 : got[s][c][j] # got[s][c][i]
        /\ \A d \in 1 .. got[s][c][i][2] - 1 :
              \/ d \in part[s][c]
              \/ \E j \in 1 .. i - 1 : got[s][c][j] = <<c, d>>

(* What goes over the control connection is understood, and arrives in     *)
(* order, but for chunks that a socket did not take at once.               *)
RelaySound == TypeOK /\ Understood /\ InOrder

(* A process follows a message to a connection it lacks only if its peer   *)
(* had a write fail; otherwise each connection is given up once by either  *)
(* side, and nothing comes after.  The rest takes a broken connection.     *)
DiesOfFaults ==
    \A s \in Side :
        /\ dead[s] = "unknown" => Peer(s) \in failed
        /\ dead[s] \in {"freed", "no acceptor"} => lost

(* An end that closes is forgotten on both sides, unless the service had   *)
(* refused the connection: then the relay keeps it.                        *)
ClosedIsForgotten ==
    \A s \in Side, c \in Con :
        outside[s][c] = "closed" ~>
            \/ \A t \in Side : c \notin pcons[t]
            \/ sock["home"][c] = "refused"
            \/ lost \/ dead # Each("no")

(* What an end sends arrives, unless one of the ends closes.               *)
SentArrives ==
    \A s \in Side, c \in Con :
        sent[s][c] > 0 ~>
            \/ Len(got[Peer(s)][c]) = sent[s][c]
            \/ \E t \in Side : outside[t][c] = "closed"
            \/ sock["home"][c] = "refused"
            \/ lost \/ dead # Each("no")
=============================================================================
