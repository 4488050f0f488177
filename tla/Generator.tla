------------------------------ MODULE Generator ------------------------------
(***************************************************************************)
(* The hand-over of candidate blocks between the main thread and the       *)
(* generating thread (libs/gpm/node/node.cpp), through two volatile flags  *)
(* and an event queue.  start_block and the destructor wait in an empty    *)
(* loop until the worker has seen the stop flag; each access to a flag is  *)
(* a step of its own.                                                      *)
(*                                                                         *)
(* Hashing is abstract: a round of nonces finds a block or does not, and   *)
(* the clock, which does not step back, has reached the block's time or    *)
(* has not.                                                                *)
(***************************************************************************)
EXTENDS Integers, FiniteSets, SequencesExt

CONSTANT MaxCandidate  \* bound: the candidates start_block ever makes

ASSUME CandidateAssumption == MaxCandidate \in Nat

VARIABLES
    main,        \* where the main thread is
    enabled,     \* m_gen_enabled
    stop,        \* m_stop_gen
    stopped,     \* m_gen_stopped
    candidates,  \* how many candidates were handed to the thread pool
    handling,    \* the block whose event made start_block run, or None
    posted,      \* the main thread's queue of generated_block events
    worker,      \* where generate is, for each candidate
    found        \* the candidates a good nonce is known for

flags == <<enabled, stop, stopped>>
pool == <<worker, found>>
vars == <<main, flags, candidates, handling, posted, pool>>

None == 0
Candidate == 1 .. MaxCandidate
Live == {c \in Candidate : worker[c] \notin {"none", "done"}}

Init ==
    /\ main = "loop" /\ enabled = FALSE /\ stop = FALSE /\ stopped = TRUE
    /\ candidates = 0 /\ handling = None /\ posted = << >>
    /\ worker = [c \in Candidate |-> "none"] /\ found = {}

-----------------------------------------------------------------------------
(* The main thread, between two handlers: start_block begins.              *)
StartBlock ==
    /\ candidates < MaxCandidate
    /\ stop' = TRUE
    /\ main' = "wait"
    /\ UNCHANGED <<stopped, candidates, pool>>

TurnOn ==
    /\ main = "loop"
    /\ enabled' = TRUE
    /\ StartBlock
    /\ UNCHANGED <<handling, posted>>

(* (A slip for the checks to catch: the worker is not told.)               *)
TurnOffUntold ==
    /\ main = "loop"
    /\ enabled' = FALSE
    /\ UNCHANGED <<main, stop, stopped, candidates, handling, posted, pool>>

TurnOff ==
    /\ main = "loop"
    /\ enabled' = FALSE
    /\ stop' = TRUE
    /\ UNCHANGED <<main, stopped, candidates, handling, posted, pool>>

(* A transaction or a block of another node makes a new candidate.         *)
NewCandidate ==
    /\ main = "loop" /\ enabled
    /\ StartBlock
    /\ UNCHANGED <<enabled, handling, posted>>

(* (A slip: while generation is off, events are left in the queue.)        *)
GeneratedBlockLeft ==
    /\ main = "loop" /\ enabled
    /\ posted # << >>
    /\ posted' = Tail(posted)
    /\ UNCHANGED enabled
    /\ \/ handling' = Head(posted) /\ StartBlock
       \/ UNCHANGED <<main, stop, stopped, candidates, handling, pool>>

(* A block that is accepted makes one as well, while generation is on.     *)
GeneratedBlock ==
    /\ main = "loop"
    /\ posted # << >>
    /\ posted' = Tail(posted)
    /\ UNCHANGED enabled
    /\ \/ enabled /\ handling' = Head(posted) /\ StartBlock
       \/ UNCHANGED <<main, stop, stopped, candidates, handling, pool>>

(* (Slips: the worker is left to say that it runs; the flag is lowered     *)
(* before the worker has seen it.)                                         *)
WaitForWorkerUnmarked ==
    /\ main = "wait"
    /\ stopped
    /\ main' = "lower"
    /\ UNCHANGED <<flags, candidates, handling, posted, pool>>

WaitForWorkerLowered ==
    /\ main = "wait"
    /\ stop' = FALSE
    /\ IF stopped THEN stopped' = FALSE /\ main' = "lower"
       ELSE UNCHANGED <<stopped, main>>
    /\ UNCHANGED <<enabled, candidates, handling, posted, pool>>

(* "block until it finished the last".                                     *)
WaitForWorker ==
    /\ main = "wait"
    /\ stopped
    /\ stopped' = FALSE
    /\ main' = "lower"
    /\ UNCHANGED <<enabled, stop, candidates, handling, posted, pool>>

LowerStop ==
    /\ main = "lower"
    /\ stop' = FALSE
    /\ main' = "run"
    /\ UNCHANGED <<enabled, stopped, candidates, handling, posted, pool>>

RunWorker ==
    /\ main = "run"
    /\ candidates' = candidates + 1
    /\ worker' = [worker EXCEPT ![candidates'] = "queued"]
    /\ handling' = None
    /\ main' = "loop"
    /\ UNCHANGED <<flags, posted, found>>

(* (A slip: the destructor does not ask the worker to stop.)               *)
CloseUntold ==
    /\ main = "loop"
    /\ main' = "closing"
    /\ UNCHANGED <<flags, candidates, handling, posted, pool>>

(* The destructor waits too, and then the flags are gone.                  *)
Close ==
    /\ main = "loop"
    /\ stop' = TRUE
    /\ main' = "closing"
    /\ UNCHANGED <<enabled, stopped, candidates, handling, posted, pool>>

Closed ==
    /\ main = "closing"
    /\ stopped
    /\ main' = "closed"
    /\ UNCHANGED <<flags, candidates, handling, posted, pool>>

Main ==
    \/ TurnOn \/ TurnOff \/ NewCandidate \/ GeneratedBlock
    \/ WaitForWorker \/ LowerStop \/ RunWorker
    \/ Close \/ Closed

-----------------------------------------------------------------------------
(* generate, in a thread of the pool, for candidate c.                     *)
Goes(c, from, to) ==
    /\ worker[c] = from
    /\ worker' = [worker EXCEPT ![c] = to]
    /\ UNCHANGED <<main, enabled, candidates, handling>>

Start(c) ==
    /\ Goes(c, "queued", "hash")
    /\ stopped' = FALSE
    /\ UNCHANGED <<stop, posted, found>>

Hash(c) ==
    /\ Goes(c, "hash", "test")
    /\ found' \in {found, found \cup {c}}
    /\ UNCHANGED <<stop, stopped, posted>>

(* The loop's condition; the clock may have reached the block's time.      *)
Test(c) ==
    /\ \/ ~stop /\ Goes(c, "test", "hash")
       \/ stop /\ Goes(c, "test", "told")
       \/ ~stop /\ c \in found /\ Goes(c, "test", "due")
    /\ UNCHANGED <<stop, stopped, posted, found>>

(* (A slip: what was found is posted until the worker is told to stop.)    *)
PostAgain(c) ==
    /\ c \in found
    /\ Goes(c, "told", "tell") \/ Goes(c, "due", "hash")
    /\ posted' = Append(posted, c)
    /\ UNCHANGED <<stop, stopped, found>>

Post(c) ==
    /\ c \in found
    /\ \E pc \in {"told", "due"} : Goes(c, pc, "tell")
    /\ posted' = Append(posted, c)
    /\ UNCHANGED <<stop, stopped, found>>

(* Told to stop before the time of the block: a nonce it knew is lost.     *)
PostNothing(c) ==
    /\ Goes(c, "told", "end")
    /\ found' = found \ {c}
    /\ UNCHANGED <<stop, stopped, posted>>

Tell(c) ==
    /\ Goes(c, "tell", "end")
    /\ stop' = TRUE
    /\ UNCHANGED <<stopped, posted, found>>

End(c) ==
    /\ Goes(c, "end", "done")
    /\ stopped' = TRUE
    /\ UNCHANGED <<stop, posted, found>>

Work(c) ==
    \/ Start(c) \/ Hash(c) \/ Test(c) \/ Post(c) \/ PostNothing(c)
    \/ Tell(c) \/ End(c)

Next == Main \/ \E c \in Candidate : Work(c)

(* The main thread goes on once its loop ends, the pool runs what it was   *)
(* given, and the event loop does not pass over a posted event for ever.   *)
Fairness ==
    /\ WF_vars(WaitForWorker) /\ WF_vars(LowerStop) /\ WF_vars(RunWorker)
    /\ WF_vars(Closed)
    /\ SF_vars(GeneratedBlock)
    /\ \A c \in Candidate : WF_vars(Work(c))

Spec == Init /\ [][Next]_vars /\ Fairness

-----------------------------------------------------------------------------
TypeOK ==
    /\ main \in {"loop", "wait", "lower", "run", "closing", "closed"}
    /\ enabled \in BOOLEAN /\ stop \in BOOLEAN /\ stopped \in BOOLEAN
    /\ candidates \in 0 .. MaxCandidate
    /\ handling \in Candidate \cup {None}
    /\ posted \in Seq(Candidate) /\ Len(posted) <= candidates
    /\ worker \in [Candidate -> {"none", "queued", "hash", "test", "told",
                                 "due", "tell", "end", "done"}]
    /\ found \subseteq Candidate

(* start_block never leaves two workers behind, which would share the      *)
(* flags, and the worker it waited for was told.                           *)
OneWorker ==
    /\ Live \subseteq {candidates}
    /\ stopped => Live = {}
    /\ main \in {"lower", "run"} => Live = {}

(* No worker reads the flags of a node that is gone.                       *)
ClosedIsQuiet == main = "closed" => Live = {}

(* The flags and the events are one worker's, while there is a node.       *)
WorkersSound == TypeOK /\ OneWorker /\ ClosedIsQuiet

(* start_block returns, whatever the worker is doing when it is called.    *)
StartReturns == main = "wait" ~> main = "loop"

(* So does the destructor.                                                 *)
CloseReturns == main = "closing" ~> main = "closed"

(* The worker hears that generation was turned off, even when it had not   *)
(* been scheduled yet: no later write to the flag loses the request.       *)
OffIsHeard == ~enabled /\ main = "loop" ~> Live = {} \/ enabled

(* A block that was found is handled, also when it was found while         *)
(* start_block was waiting for its worker.                                 *)
FoundIsHandled ==
    \A c \in Candidate :
        c \in ToSet(posted) ~> \/ c \notin ToSet(posted)
                               \/ main \in {"closing", "closed"}

-----------------------------------------------------------------------------
(***************************************************************************)
(* To the handlers, start_block is one step, made when it hands the new    *)
(* candidate to the pool; until then the worker is still on the old one,   *)
(* and a worker that stopped without a block might as well go on.          *)
(***************************************************************************)
EverPosted == {c \in found : worker[c] \in {"tell", "end", "done"}}

M == INSTANCE Miner WITH
       work <- IF candidates \in EverPosted THEN None ELSE candidates,
       posted <- ToSet(posted) \cup ({handling} \ {None})

(* The handlers may take the generating thread for the Miner: whatever it  *)
(* does while start_block waits, it could have done before.                *)
ImplementsMiner == M!Spec
=============================================================================
