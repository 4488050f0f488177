----------------------------- MODULE BitBlocks -----------------------------
(***************************************************************************)
(* The block store (libs/bitblocks/node.cpp): a node cuts a file into      *)
(* blocks, stores each under its hash, here or with a peer, and stores     *)
(* under its own hash the metafile that lists them.  Downloads follow that *)
(* list one request at a time.                                             *)
(*                                                                         *)
(* A block stands for its hash and for its encrypted data.  Sizes are      *)
(* scaled: BlockSize is the megabyte, Pad the 8 bytes blowfish works on    *)
(* and Word the 2^64 of size_t.                                            *)
(***************************************************************************)
EXTENDS Integers, SequencesExt

CONSTANTS
    Job,        \* the calls of import_file, export_file, upload_file, download_urn
    File, Size, \* the files and their lengths
    Peer,       \* the nodes this one connects to
    Holds,      \* the files a peer holds before
    BlockSize, Pad, Word,
    Window      \* bound: the messages a connection buffers before writes wait

ASSUME SizeAssumption ==
    /\ Pad \in Nat \ {0} /\ BlockSize \in Nat \ {0} /\ BlockSize % Pad = 0
    /\ Word \in Nat
    /\ \A f \in File : Size[f] \in Nat /\ Size[f] + BlockSize < Word
    /\ Holds \in [Peer -> SUBSET File] /\ "me" \notin Peer

VARIABLES
    store,      \* m_blocks of each node
    conns,      \* m_connections
    link,       \* the connection to each peer: "none", "up" or "broken"
    out, in,    \* the messages to and from each peer
    requests,   \* m_requests of each connection: who waits for which id
    next_req_id,
    job,        \* what each call has come to
    dead        \* why the process is gone, or "no"

net == <<conns, link, out, in>>
vars == <<store, net, requests, next_req_id, job, dead>>

Me == "me"
Node == Peer \cup {Me}

(* The hash of a metafile, of its k-th block, and of a block of no bytes.  *)
Meta(f) == <<f, 0>>
Block(f, k) == <<f, k>>
Nothing == << >>

(* How import_file and upload_file cut the rest of a file: the next block  *)
(* is padded, and both sums are taken in size_t.                           *)
BlockOf(len) == Min({BlockSize, (((len + Pad - 1) % Word) \div Pad) * Pad})
Rest(len) == (len - BlockOf(len)) % Word

(* The blocks of a file; a metafile that is done lists them all.           *)
LastBlock(f) == (Size[f] + BlockSize - 1) \div BlockSize
BlocksOf(f) == {Block(f, k) : k \in 1 .. LastBlock(f)}
Whole(f) == BlocksOf(f) \cup {Meta(f)}

Idle == [op |-> "none", state |-> "idle"]

Init ==
    /\ store = [n \in Node |-> IF n = Me THEN {} ELSE UNION {Whole(f) : f \in Holds[n]}]
    /\ conns = << >> /\ link = [p \in Peer |-> "none"]
    /\ out = [p \in Peer |-> << >>] /\ in = [p \in Peer |-> << >>]
    /\ requests = [p \in Peer |-> {}] /\ next_req_id = [p \in Peer |-> 0]
    /\ job = [j \in Job |-> Idle] /\ dead = "no"

-----------------------------------------------------------------------------
(* Connections.                                                            *)
Connect(p) ==
    /\ dead = "no" /\ link[p] = "none"
    /\ conns' = Append(conns, p)
    /\ link' = [link EXCEPT ![p] = "up"]
    /\ UNCHANGED <<store, out, in, requests, next_req_id, job, dead>>

(* A connection breaks; a part of what was sent still arrives.             *)
Break(p) ==
    /\ link[p] = "up"
    /\ link' = [link EXCEPT ![p] = "broken"]
    /\ \E n \in 0 .. Len(out[p]) : out' = [out EXCEPT ![p] = SubSeq(@, 1, n)]
    /\ \E n \in 0 .. Len(in[p]) : in' = [in EXCEPT ![p] = SubSeq(@, 1, n)]
    /\ UNCHANGED <<store, conns, requests, next_req_id, job, dead>>

(* A connection goes on to its next message, as long as it is not closed.  *)
Reads(p) == dead = "no" /\ p \in ToSet(conns)

(* read_message fails, and closed() drops the connection: whoever waits    *)
(* for it is not told.                                                     *)
Closed(p) ==
    /\ Reads(p) /\ link[p] = "broken" /\ in[p] = << >>
    /\ \E i \in DOMAIN conns : conns[i] = p /\ conns' = RemoveAt(conns, i)
    /\ UNCHANGED <<store, link, out, in, requests, next_req_id, job, dead>>

Sent(p, msg) == out' = IF link[p] = "up" THEN [out EXCEPT ![p] = Append(@, msg)] ELSE out

StoreBlock(b) == [id |-> "store_block", block |-> b]
RequestBlock(i, b) == [id |-> "request_block", req |-> i, block |-> b]
ReportBlock(i, b) == [id |-> "report_block", req |-> i, data |-> b]

(* (A slip: a request for a block the peer lacks is dropped.)              *)
ServeHeld(p) ==
    /\ out[p] # << >>
    /\ LET m == Head(out[p]) IN
       /\ out' = [out EXCEPT ![p] = Tail(@)]
       /\ IF m.id = "store_block"
          THEN store' = [store EXCEPT ![p] = @ \cup {m.block}] /\ UNCHANGED in
          ELSE /\ in' = IF link[p] # "up" \/ m.block \notin store[p] THEN in
                        ELSE [in EXCEPT ![p] = Append(@, ReportBlock(m.req, m.block))]
               /\ UNCHANGED store
    /\ UNCHANGED <<conns, link, requests, next_req_id, job, dead>>

(* What is read of a block; of one that is missing, no bytes.              *)
ReadBlock(n, b) == IF b \in store[n] THEN b ELSE Nothing

(* A peer's handle_message.                                                *)
Serve(p) ==
    /\ out[p] # << >>
    /\ LET m == Head(out[p]) IN
       /\ out' = [out EXCEPT ![p] = Tail(@)]
       /\ IF m.id = "store_block"
          THEN store' = [store EXCEPT ![p] = @ \cup {m.block}] /\ UNCHANGED in
          ELSE /\ in' = IF link[p] # "up" THEN in
                        ELSE [in EXCEPT ![p] =
                                Append(@, ReportBlock(m.req, ReadBlock(p, m.block)))]
               /\ UNCHANGED store
    /\ UNCHANGED <<conns, link, requests, next_req_id, job, dead>>

-----------------------------------------------------------------------------
(* import_file, a block at a time; a block of no bytes adds nothing.       *)
Import(j, f) ==
    /\ job[j] = Idle
    /\ job' = [job EXCEPT ![j] = [op |-> "import", file |-> f, len |-> Size[f],
                                  at |-> 0, state |-> "cutting"]]
    /\ UNCHANGED <<store, net, requests, next_req_id, dead>>

(* (A slip: the last block is left out.)                                   *)
ImportBlockShort(j) ==
    /\ job[j].op = "import" /\ job[j].state = "cutting"
    /\ LET k == job[j].at + 1 IN
       IF job[j].len > BlockSize
       THEN /\ store' = [store EXCEPT ![Me] = @ \cup {Block(job[j].file, k)}]
            /\ job' = [job EXCEPT ![j].len = Rest(@), ![j].at = k]
       ELSE /\ store' = [store EXCEPT ![Me] = @ \cup {Meta(job[j].file)}]
            /\ job' = [job EXCEPT ![j].state = "ok"]
    /\ UNCHANGED <<net, requests, next_req_id, dead>>

ImportBlock(j) ==
    /\ job[j].op = "import" /\ job[j].state = "cutting"
    /\ LET len == job[j].len
           k == IF BlockOf(len) > 0 THEN job[j].at + 1 ELSE job[j].at
       IN IF len > 0
          THEN /\ store' = [store EXCEPT ![Me] = @ \cup
                    {IF BlockOf(len) > 0 THEN Block(job[j].file, k) ELSE Nothing}]
               /\ job' = [job EXCEPT ![j].len = Rest(len), ![j].at = k]
          ELSE /\ store' = [store EXCEPT ![Me] = @ \cup {Meta(job[j].file)}]
               /\ job' = [job EXCEPT ![j].state = "ok"]
    /\ UNCHANGED <<net, requests, next_req_id, dead>>

(* export_file: where a block is missing, what was in the buffer is        *)
(* decrypted again and written.  Without the metafile it has no data.      *)
Export(j, f) ==
    /\ job[j] = Idle
    /\ IF Meta(f) \in store[Me]
       THEN /\ job' = [job EXCEPT ![j] =
                  [op |-> "export", file |-> f, state |-> "ok",
                   wrote |-> [k \in 1 .. LastBlock(f) |->
                        ReadBlock(Me, Block(f, k))]]]
            /\ UNCHANGED dead
       ELSE dead' = "no metafile" /\ UNCHANGED job
    /\ UNCHANGED <<store, net, requests, next_req_id>>

-----------------------------------------------------------------------------
(* (A slip: a short block is not sent.)                                    *)
SendBlockFull(j, u) ==
    IF u.len >= BlockSize
    THEN /\ Sent(Head(conns), StoreBlock(Block(u.file, u.at + 1)))
         /\ job' = [job EXCEPT ![j] = [u EXCEPT !.len = Rest(@), !.at = @ + 1,
                                                !.on = Head(conns)]]
    ELSE /\ Sent(Head(conns), StoreBlock(Meta(u.file)))
         /\ job' = [job EXCEPT ![j] = [u EXCEPT !.state = "last",
                                                !.on = Head(conns)]]

(* upload_file_state::send_block.  Each block goes to the first connection *)
(* there is by then; without one upload_block throws.                      *)
SendBlock(j, u) ==
    LET p == Head(conns)
        k == IF BlockOf(u.len) > 0 THEN u.at + 1 ELSE u.at
    IN IF u.len > 0
       THEN /\ Sent(p, StoreBlock(IF BlockOf(u.len) > 0 THEN Block(u.file, k)
                                  ELSE Nothing))
            /\ job' = [job EXCEPT ![j] = [u EXCEPT !.len = Rest(@), !.at = k,
                                                   !.on = p]]
       ELSE /\ Sent(p, StoreBlock(Meta(u.file)))
            /\ job' = [job EXCEPT ![j] = [u EXCEPT !.state = "last", !.on = p]]

UploadFile(f, p) == [op |-> "upload", file |-> f, len |-> Size[f], at |-> 0,
                     on |-> p, state |-> "writing"]

Upload(j, f) ==
    /\ job[j] = Idle /\ conns # << >>
    /\ SendBlock(j, UploadFile(f, Head(conns)))
    /\ UNCHANGED <<store, conns, link, in, requests, next_req_id, dead>>

Writing(j) == job[j].op = "upload" /\ job[j].state \in {"writing", "last"}

(* A write has completed; on a broken connection it may have failed.       *)
WriteFailed(j) ==
    /\ Writing(j) /\ link[job[j].on] = "broken"
    /\ job' = [job EXCEPT ![j].state = "error"]
    /\ UNCHANGED <<store, net, requests, next_req_id, dead>>

WriteDone(j) ==
    /\ Writing(j)
    /\ Len(out[job[j].on]) < Window
    /\ \/ /\ job[j].state = "last"
          /\ job' = [job EXCEPT ![j].state = "ok"] /\ UNCHANGED <<out, dead>>
       \/ /\ job[j].state = "writing" /\ conns = << >>
          /\ dead' = "no connection" /\ UNCHANGED <<out, job>>
       \/ /\ job[j].state = "writing" /\ conns # << >>
          /\ SendBlock(j, job[j]) /\ UNCHANGED dead
    /\ UNCHANGED <<store, conns, link, in, requests, next_req_id>>

-----------------------------------------------------------------------------
(* download_block and request_block: the first connection is asked.        *)
Ask(j, b, pending) ==
    LET p == Head(conns)
        i == next_req_id[p] + 1
    IN /\ next_req_id' = [next_req_id EXCEPT ![p] = i]
       /\ requests' = [pending EXCEPT ![p] = @ \cup {[req |-> i, job |-> j]}]
       /\ Sent(p, RequestBlock(i, b))

(* Without a connection, front() is of an empty list.                      *)
Download(j, f) ==
    /\ job[j] = Idle
    /\ IF conns = << >>
       THEN dead' = "no connection" /\ UNCHANGED <<out, requests, next_req_id, job>>
       ELSE /\ job' = [job EXCEPT ![j] = [op |-> "download", file |-> f, at |-> 0,
                                          wrote |-> << >>, state |-> "waiting"]]
            /\ Ask(j, Meta(f), requests)
            /\ UNCHANGED dead
    /\ UNCHANGED <<store, conns, link, in>>

(* meta_block_complete, and block_complete for each block: one of no bytes *)
(* is passed over, and a metafile of no bytes is read past its end.        *)
Complete(j, data, pending) ==
    LET d == job[j]
        wrote == IF d.at = 0 \/ data = Nothing THEN d.wrote
                 ELSE Append(d.wrote, data)
    IN \/ /\ d.at = 0 /\ data = Nothing
          /\ dead' = "no metafile"
          /\ UNCHANGED <<job, out, requests, next_req_id>>
       \/ /\ d.at < LastBlock(d.file) /\ ~(d.at = 0 /\ data = Nothing)
          /\ job' = [job EXCEPT ![j] = [d EXCEPT !.at = @ + 1, !.wrote = wrote]]
          /\ Ask(j, Block(d.file, d.at + 1), pending)
          /\ UNCHANGED dead
       \/ /\ d.at = LastBlock(d.file) /\ ~(d.at = 0 /\ data = Nothing)
          /\ job' = [job EXCEPT ![j] = [d EXCEPT !.state = "ok", !.wrote = wrote]]
          /\ requests' = pending
          /\ UNCHANGED <<out, next_req_id, dead>>

(* A report completes the request it names; an unexpected one is dropped.  *)
Report(p) ==
    /\ Reads(p) /\ in[p] # << >>
    /\ LET m == Head(in[p])
           named == {r \in requests[p] : r.req = m.req} IN
       /\ in' = [in EXCEPT ![p] = Tail(@)]
       /\ IF named = {}
          THEN UNCHANGED <<job, out, requests, next_req_id, dead>>
          ELSE \E r \in named :
                  Complete(r.job, m.data, [requests EXCEPT ![p] = @ \ {r}])
    /\ UNCHANGED <<store, conns, link>>

Start(j) ==
    /\ dead = "no"
    /\ \E f \in File : Import(j, f) \/ Export(j, f) \/ Upload(j, f) \/ Download(j, f)

Continue(j) == dead = "no" /\ (ImportBlock(j) \/ WriteDone(j) \/ WriteFailed(j))

Next ==
    \/ \E p \in Peer : Connect(p) \/ Break(p) \/ Closed(p) \/ Serve(p) \/ Report(p)
    \/ \E j \in Job : Start(j) \/ Continue(j)

(* Handlers run, peers answer, and a socket takes its writes in turn.      *)
Fairness ==
    /\ \A p \in Peer : WF_vars(Closed(p)) /\ WF_vars(Serve(p)) /\ WF_vars(Report(p))
    /\ \A j \in Job : SF_vars(Continue(j))

Spec == Init /\ [][Next]_vars /\ Fairness

-----------------------------------------------------------------------------
Msgs(p) == ToSet(out[p]) \cup ToSet(in[p])
Data == {Nothing} \cup UNION {Whole(f) : f \in File}

TypeOK ==
    /\ store \in [Node -> SUBSET Data]
    /\ IsInjective(conns) /\ ToSet(conns) \subseteq Peer
    /\ link \in [Peer -> {"none", "up", "broken"}]
    /\ \A p \in Peer : \A m \in Msgs(p) :
        m.id \in {"store_block", "request_block", "report_block"}
    /\ \A p \in Peer : \A r \in requests[p] :
        r.req \in 1 .. next_req_id[p] /\ job[r.job].op = "download"
    /\ \A j \in Job : job[j].state \in
        {"idle", "cutting", "writing", "last", "waiting", "ok", "error"}
    /\ dead \in {"no", "no connection", "no metafile"}

NoneBroken == \A p \in Peer : link[p] # "broken"

(* Whoever holds a metafile holds the blocks it lists: it is stored, or    *)
(* sent, after them.  An upload that outlives a connection goes on with    *)
(* another peer, which then lacks the first blocks.                        *)
ListedIsHeld ==
    \A n \in Node, f \in File :
        Meta(f) \in store[n] /\ (n = Me \/ NoneBroken) => BlocksOf(f) \subseteq store[n]

(* A download writes the file's blocks in their order, each once; only     *)
(* blocks the peers did not hold can be missing at its end, of which the   *)
(* caller is not told.                                                     *)
FetchedInOrder ==
    \A j \in Job : job[j].op = "download" =>
        LET w == job[j].wrote
            f == job[j].file
        IN /\ \A k \in DOMAIN w : w[k] \in BlocksOf(f)
           /\ \A k, l \in DOMAIN w : k < l => w[k][2] < w[l][2]
           /\ job[j].state = "ok" /\ (\A p \in Peer : f \in Holds[p]) =>
                Len(w) = LastBlock(f)

(* A file is exported as it was imported.                                  *)
ExportedWhole ==
    \A j \in Job : job[j].op = "export" =>
        job[j].wrote = [k \in 1 .. LastBlock(job[j].file) |-> Block(job[j].file, k)]

(* Files are held, fetched and exported block for block.                   *)
FilesSound == TypeOK /\ ListedIsHeld /\ FetchedInOrder /\ ExportedWhole

(* An upload that reports success has its file with the peer it was sent   *)
(* to in the end, while no connection breaks.                              *)
UploadedIsStored ==
    \A j \in Job :
        job[j].op = "upload" /\ job[j].state = "ok" ~>
            \/ job[j].op = "upload" /\ Whole(job[j].file) \subseteq store[job[j].on]
            \/ ~NoneBroken

(* The connections a call waits for.                                       *)
Stranded(j) ==
    \E p \in Peer : link[p] = "broken" /\ \E r \in requests[p] : r.job = j

(* A download comes to its end, unless the connection it waits for breaks: *)
(* then nobody completes it.                                               *)
DownloadEnds ==
    \A j \in Job :
        job[j].state = "waiting" ~>
            job[j].state # "waiting" \/ Stranded(j) \/ dead # "no"

Cut(j) == job[j].state \in {"cutting", "writing", "last"}
Padded(j) == Size[job[j].file] % Pad = 0

(* A file whose length is a multiple of 8 is cut to its end.               *)
PaddedIsCut == \A j \in Job : Cut(j) /\ Padded(j) ~> ~Cut(j) \/ dead # "no"

(* Whoever waits for a peer or cuts a file comes to an end, for files whose*)
(* length is a multiple of 8: of any other, the rest goes below zero and   *)
(* import_file and upload_file go on cutting for ever.                     *)
CallsEnd == DownloadEnds /\ PaddedIsCut
=============================================================================
