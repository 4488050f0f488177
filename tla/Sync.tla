-------------------------------- MODULE Sync --------------------------------
(***************************************************************************)
(* How nodes keep the same chain (libs/gpm/node: server, connection, the   *)
(* messages, and what the node's handlers send).  A connection asks for    *)
(* the block after its own head when it starts, goes on asking while the   *)
(* answers are accepted, and passes on what its node newly accepts.        *)
(*                                                                         *)
(* A block is its hash, a number, of which only siblings are compared: the *)
(* k-th block is k, or -k if it is to be lower than its siblings.  Its     *)
(* transactions and the state are those of module Node and always apply    *)
(* here.  The io thread posts each message to the main thread, so it is    *)
(* handled when it is taken from the wire.                                 *)
(***************************************************************************)
EXTENDS Integers, FiniteSets, SequencesExt, FiniteSetsExt

CONSTANTS
    Node,
    Links,     \* who connects to whom
    Trx,
    MaxBlock,  \* bound: the blocks anybody finds, or turns generation on for
    MayLose    \* whether connections break

Nobody == "nobody"

ASSUME LinkAssumption ==
    /\ MaxBlock \in Nat /\ MayLose \in BOOLEAN
    /\ IsFiniteSet(Node) /\ Nobody \notin Node
    /\ Links \subseteq Node \X Node

BlockHash == LET k == MaxBlock + Cardinality(Node) IN (-k .. k) \ {0}
NoBlock == 0

VARIABLES
    prev,    \* prev_block of every block generated so far
    chain,   \* m_block_chain of each node
    known,   \* the transactions in m_trx_db of each node
    wire,    \* the messages from one node to another
    link,    \* the TCP connections: "none", "up" or "lost"
    listed,  \* m_connections: the peers
    signals, \* the peers whose connection has new_block_con and new_trx_con
    reading, \* the peers whose connection is read
    failing, \* the peers a write to whom has failed, and is not handled yet
    dead,    \* the nodes that erased the end of m_connections
    apart    \* history: links that began with nothing to ask for or to pass on

data == <<prev, chain, known>>
cons == <<link, listed, signals, reading>>
syncVars == <<data, wire, cons, failing, dead, apart>>

SyncInit ==
    /\ prev = [h \in {} |-> NoBlock]
    /\ chain = [n \in Node |-> << >>] /\ known = [n \in Node |-> {}]
    /\ wire = [e \in Node \X Node |-> << >>]
    /\ link = [e \in Links |-> "none"]
    /\ listed = [n \in Node |-> {}] /\ signals = [n \in Node |-> {}]
    /\ reading = [n \in Node |-> {}] /\ failing = [n \in Node |-> {}]
    /\ dead = {} /\ apart = {}

-----------------------------------------------------------------------------
Up(n, m) == \E e \in {<<n, m>>, <<m, n>>} \cap Links : link[e] = "up"
Lost(n, m) == \E e \in {<<n, m>>, <<m, n>>} \cap Links : link[e] = "lost"

GetFullBlock(i) == [id |-> "get_full_block", index |-> i]
ReportTransaction(t) == [id |-> "report_transaction", trx |-> t]
ReportFullBlock(h, i, head) ==
    [id |-> "report_full_block", blk |-> h, index |-> i, head_index |-> head]

(* send_message of msg to each peer in ps, when m's message is taken.  On  *)
(* a broken connection a write may fail, or not yet.                       *)
Sends(n, ps, msgs, m) ==
    /\ wire' = [e \in DOMAIN wire |->
          (IF e = <<m, n>> THEN Tail(wire[e]) ELSE wire[e]) \o
          (IF e[1] = n /\ e[2] \in ps /\ Up(n, e[2]) THEN msgs[e[2]] ELSE << >>)]
    /\ \E bad \in SUBSET {p \in ps : Lost(n, p) /\ msgs[p] # << >>} :
          failing' = [failing EXCEPT ![n] = @ \cup bad]

(* new_block and new_transaction, to all but the connection that is        *)
(* blocked, m's; that one may be sent an answer of its own.                *)
Emits(n, msg, m, answer) ==
    Sends(n, Node, [p \in Node |-> IF p = m THEN answer
                                   ELSE IF p \in signals[n] THEN <<msg>>
                                   ELSE << >>], m)

Answers(n, m, answer) == Sends(n, {m}, [p \in {m} |-> answer], m)

HeadIndex(n) == Len(chain[n]) - 1

(* The node's own blocks.  A genesis block is told to nobody.              *)
NewBlock(h, p) ==
    /\ LET k == Cardinality(DOMAIN prev) + 1 IN
       \/ h = k
       \/ h = -k /\ \E x \in DOMAIN prev : prev[x] = p
    /\ prev' = [x \in DOMAIN prev \cup {h} |-> IF x = h THEN p ELSE prev[x]]

EnsureGenesis(n, h) ==
    IF chain[n] # << >> THEN UNCHANGED <<prev, chain>>
    ELSE NewBlock(h, NoBlock) /\ chain' = [chain EXCEPT ![n] = <<h>>]

MayGenerate(n) == n \notin dead /\ Cardinality(DOMAIN prev) < MaxBlock

ConfigureGeneration(n, h) ==
    /\ MayGenerate(n) /\ chain[n] = << >>
    /\ EnsureGenesis(n, h)
    /\ UNCHANGED <<known, wire, cons, failing, dead, apart>>

Found(n, h) ==
    /\ MayGenerate(n) /\ chain[n] # << >>
    /\ NewBlock(h, Last(chain[n]))
    /\ chain' = [chain EXCEPT ![n] = Append(@, h)]
    /\ Emits(n, ReportFullBlock(h, HeadIndex(n) + 1, HeadIndex(n) + 1), Nobody, << >>)
    /\ UNCHANGED <<known, cons, dead, apart>>

(* (A slip: it is told to nobody.)                                         *)
AddTransactionQuiet(n, t, m, h) ==
    /\ n \notin dead /\ t \notin known[n]
    /\ known' = [known EXCEPT ![n] = @ \cup {t}]
    /\ Answers(n, m, << >>)
    /\ EnsureGenesis(n, h)
    /\ UNCHANGED <<cons, dead, apart>>

(* add_transaction of a transaction that is new, the user's or m's; then   *)
(* create_gen_block, which gives an empty node a chain of its own.         *)
AddTransaction(n, t, m, h) ==
    /\ n \notin dead /\ t \notin known[n]
    /\ known' = [known EXCEPT ![n] = @ \cup {t}]
    /\ Emits(n, ReportTransaction(t), m, << >>)
    /\ EnsureGenesis(n, h)
    /\ UNCHANGED <<cons, dead, apart>>

-----------------------------------------------------------------------------
(* connect_to and start, at the end that connects.                         *)
Connect(n, m) ==
    /\ <<n, m>> \in Links /\ link[<<n, m>>] = "none" /\ n \notin dead
    /\ link' = [link EXCEPT ![<<n, m>>] = "up"]
    /\ listed' = [listed EXCEPT ![n] = @ \cup {m}]
    /\ signals' = [signals EXCEPT ![n] = @ \cup {m}]
    /\ reading' = [reading EXCEPT ![n] = @ \cup {m}]
    /\ wire' = [wire EXCEPT ![<<n, m>>] = Append(@, GetFullBlock(HeadIndex(n) + 1))]
    /\ UNCHANGED <<data, failing, dead, apart>>

(* The other end starts in its io thread, while its handlers may run: it   *)
(* asks first, and is told of new blocks later.                            *)
Accept(m, n) ==
    /\ <<n, m>> \in Links /\ link[<<n, m>>] = "up" /\ n \notin listed[m]
    /\ m \notin dead /\ n \notin signals[m]
    /\ listed' = [listed EXCEPT ![m] = @ \cup {n}]
    /\ wire' = [wire EXCEPT ![<<m, n>>] = Append(@, GetFullBlock(HeadIndex(m) + 1))]
    /\ UNCHANGED <<data, link, signals, reading, failing, dead, apart>>

(* What a link can mend: one chain is under the other, an empty one has    *)
(* been or will be asked for by a node that finds it no longer empty, and  *)
(* all transactions that are not in a block are known to both.             *)
Mendable(n, m) ==
    /\ known[n] = known[m]
    /\ IsPrefix(chain[n], chain[m]) \/ IsPrefix(chain[m], chain[n])
    /\ chain[m] = << >> =>
        chain[n] # << >> /\ GetFullBlock(0) \in ToSet(wire[<<m, n>>])

Listen(m, n) ==
    /\ <<n, m>> \in Links /\ n \in listed[m] \ signals[m] /\ m \notin dead
    /\ signals' = [signals EXCEPT ![m] = @ \cup {n}]
    /\ reading' = [reading EXCEPT ![m] = @ \cup {n}]
    /\ apart' = IF Mendable(n, m) THEN apart ELSE apart \cup {{n, m}}
    /\ UNCHANGED <<data, wire, link, listed, failing, dead>>

Lose(e) ==
    /\ MayLose
    /\ link[e] = "up"
    /\ link' = [link EXCEPT ![e] = "lost"]
    /\ \E sent \in Prefixes(wire[e]), answered \in Prefixes(wire[<<e[2], e[1]>>]) :
        wire' = [wire EXCEPT ![e] = sent, ![<<e[2], e[1]>>] = answered]
    /\ UNCHANGED <<data, listed, signals, reading, failing, dead, apart>>

(* closed(): the signals stay connected.  The second time find does not    *)
(* find, and what erase does then is undefined.                            *)
ConnectionClosed(n, m) ==
    IF m \in listed[n]
    THEN listed' = [listed EXCEPT ![n] = @ \ {m}] /\ UNCHANGED dead
    ELSE UNCHANGED listed /\ dead' \in {dead, dead \cup {n}}

ReadFails(n, m) ==
    /\ n \notin dead /\ m \in reading[n]
    /\ Lost(n, m) /\ wire[<<m, n>>] = << >>
    /\ reading' = [reading EXCEPT ![n] = @ \ {m}]
    /\ ConnectionClosed(n, m)
    /\ UNCHANGED <<data, wire, link, signals, failing, apart>>

WriteFails(n, m) ==
    /\ n \notin dead /\ m \in failing[n]
    /\ failing' = [failing EXCEPT ![n] = @ \ {m}]
    /\ ConnectionClosed(n, m)
    /\ UNCHANGED <<data, wire, link, signals, reading, apart>>

-----------------------------------------------------------------------------
Takes(n, m, id) ==
    /\ n \notin dead /\ m \in reading[n]
    /\ wire[<<m, n>>] # << >> /\ Head(wire[<<m, n>>]).id = id

Msg(m, n) == Head(wire[<<m, n>>])

OnTransaction(n, m) ==
    /\ Takes(n, m, "report_transaction")
    /\ LET t == Msg(m, n).trx IN
       \/ \E h \in BlockHash : AddTransaction(n, t, m, h)
       \/ /\ t \in known[n]
          /\ Answers(n, m, << >>)
          /\ UNCHANGED <<data, cons, dead, apart>>

(* (A slip: what get_block_by_index throws is not caught.)                 *)
OnGetFullBlockUncaught(n, m) ==
    /\ Takes(n, m, "get_full_block")
    /\ LET i == Msg(m, n).index IN
       Answers(n, m, IF i > HeadIndex(n) THEN << >>
                     ELSE <<ReportFullBlock(chain[n][i + 1], i, HeadIndex(n))>>)
    /\ dead' = IF chain[n] = << >> THEN dead \cup {n} ELSE dead
    /\ UNCHANGED <<data, cons, apart>>

(* An empty node's index -1 is above any other once it is unsigned: then   *)
(* no block is found, and nothing answered.                                *)
OnGetFullBlock(n, m) ==
    /\ Takes(n, m, "get_full_block")
    /\ LET i == Msg(m, n).index IN
       Answers(n, m,
         IF chain[n] = << >> THEN << >>
         ELSE IF i > HeadIndex(n) THEN <<ReportFullBlock(NoBlock, -1, -1)>>
         ELSE <<ReportFullBlock(chain[n][i + 1], i, HeadIndex(n))>>)
    /\ UNCHANGED <<data, cons, dead, apart>>

(* (A slip: a sibling with any hash takes the head's place.)               *)
AcceptsAny(n, h) ==
    /\ chain[n] # << >> /\ h # NoBlock
    /\ h # Last(chain[n])
    /\ prev[h] \in {Last(chain[n]), prev[Last(chain[n])]}

(* add_block: at the end of the chain, or in the place of a higher head.   *)
Accepts(n, h) ==
    /\ chain[n] # << >> /\ h # NoBlock
    /\ \/ prev[h] = Last(chain[n])
       \/ prev[h] = prev[Last(chain[n])] /\ h < Last(chain[n])

WithHead(s, h) ==
    IF prev[h] = Last(s) THEN Append(s, h) ELSE Append(Front(s), h)

(* (A slip: the last block is not asked for.)                              *)
MoreShort(m, n) ==
    IF Msg(m, n).head_index > Msg(m, n).index + 1
    THEN <<GetFullBlock(HeadIndex(n)' + 1)>> ELSE << >>

(* What is asked for next, if there is more.                               *)
More(m, n) ==
    IF Msg(m, n).head_index > Msg(m, n).index
    THEN <<GetFullBlock(HeadIndex(n)' + 1)>> ELSE << >>

(* add_full_block.  The first block is not passed on.                      *)
OnFullBlock(n, m) ==
    /\ Takes(n, m, "report_full_block")
    /\ LET h == Msg(m, n).blk IN
       \/ /\ chain[n] = << >> /\ Msg(m, n).index = 0
          /\ chain' = [chain EXCEPT ![n] = <<h>>]
          /\ Answers(n, m, More(m, n))
       \/ /\ Accepts(n, h)
          /\ chain' = [chain EXCEPT ![n] = WithHead(@, h)]
          /\ Emits(n, ReportFullBlock(h, HeadIndex(n)', HeadIndex(n)'), m, More(m, n))
       \/ /\ ~Accepts(n, h) /\ ~(chain[n] = << >> /\ Msg(m, n).index = 0)
          /\ Answers(n, m, << >>)
          /\ UNCHANGED chain
    /\ UNCHANGED <<prev, known, cons, dead, apart>>

Handle(n, m) == OnTransaction(n, m) \/ OnGetFullBlock(n, m) \/ OnFullBlock(n, m)

SyncNext ==
    \/ \E n \in Node, h \in BlockHash :
        \/ ConfigureGeneration(n, h) \/ Found(n, h)
        \/ \E t \in Trx : AddTransaction(n, t, Nobody, h)
    \/ \E n, m \in Node :
        \/ Connect(n, m) \/ Accept(n, m) \/ Listen(n, m)
        \/ ReadFails(n, m) \/ WriteFails(n, m) \/ Handle(n, m)
    \/ \E e \in Links : Lose(e)

(* The io thread starts what it accepts, and messages are handled.         *)
SyncFairness ==
    \A n, m \in Node :
        WF_syncVars(Accept(n, m)) /\ WF_syncVars(Listen(n, m)) /\ WF_syncVars(Handle(n, m))

SyncSpec == SyncInit /\ [][SyncNext]_syncVars /\ SyncFairness

-----------------------------------------------------------------------------
Message ==
    [id : {"get_full_block"}, index : Nat]
    \cup [id : {"report_transaction"}, trx : Trx]
    \cup [id : {"report_full_block"}, blk : BlockHash \cup {NoBlock},
          index : Nat \cup {-1}, head_index : Nat \cup {-1}]

SyncTypeOK ==
    /\ DOMAIN prev \subseteq BlockHash
    /\ chain \in [Node -> Seq(DOMAIN prev)] /\ known \in [Node -> SUBSET Trx]
    /\ wire \in [Node \X Node -> Seq(Message)]
    /\ link \in [Links -> {"none", "up", "lost"}]
    /\ listed \in [Node -> SUBSET Node] /\ signals \in [Node -> SUBSET Node]
    /\ reading \in [Node -> SUBSET Node] /\ failing \in [Node -> SUBSET Node]
    /\ \A n \in Node : reading[n] \subseteq signals[n]
    /\ dead \subseteq Node

(* Only a node that lost a peer erases what is not in its list.            *)
DiesOfLoss == \A n \in dead : \E m \in Node : Lost(n, m)

(* A block that two chains share has the same place in both, behind the    *)
(* same blocks.  So a node whose head is on another's chain is given, for  *)
(* the index after its own, the block that follows its head.               *)
SharedHistory ==
    \A n, m \in Node : \A i \in DOMAIN chain[n], j \in DOMAIN chain[m] :
        chain[n][i] = chain[m][j] =>
            i = j /\ \A k \in 1 .. i : chain[n][k] = chain[m][k]

(* Chains agree, connections are kept consistently, and nothing but a lost *)
(* one ends a node.                                                        *)
NodesSound == SyncTypeOK /\ SharedHistory /\ DiesOfLoss

BothUp(n, m) == link[<<n, m>>] = "up" /\ n \notin dead /\ m \notin dead

(* Each of them has a block that the other has not, and that is not only a *)
(* head: neither will ever accept the other's blocks.  Nor is it told of a *)
(* genesis of the other's own.                                             *)
Forked(n, m) ==
    \E i \in 1 .. Min({Len(chain[n]), Len(chain[m])}) :
        /\ chain[n][i] # chain[m][i]
        /\ i = 1 \/ i < Max({Len(chain[n]), Len(chain[m])})

(* Connected nodes come to have the same chain, once no more blocks are    *)
(* generated, if they began with comparable chains and did not fork.       *)
ChainsConverge ==
    <>[](\A e \in Links :
            BothUp(e[1], e[2]) /\ {e[1], e[2]} \notin apart =>
                chain[e[1]] = chain[e[2]] \/ Forked(e[1], e[2]))

(* Connected nodes come to know the same transactions.                     *)
TransactionsSpread ==
    <>[](\A e \in Links :
            BothUp(e[1], e[2]) /\ {e[1], e[2]} \notin apart =>
                known[e[1]] = known[e[2]])

(* A node behind another gets the blocks it lacks.                         *)
CatchesUp ==
    \A e \in Links :
        LET n == e[1]
            m == e[2]
            Behind == BothUp(n, m) /\ {n, m} \notin apart
                      /\ IsStrictPrefix(chain[n], chain[m])
        IN Behind ~> ~Behind
=============================================================================
