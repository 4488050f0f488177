-------------------------------- MODULE Miner --------------------------------
(***************************************************************************)
(* What the handlers of a node may take the generating thread for: it      *)
(* hashes one candidate block, start_block gives it the next one at once,  *)
(* and the only thing it ever does is to post the block it found to the    *)
(* main thread.  A candidate is numbered when start_block makes it.        *)
(***************************************************************************)
EXTENDS Integers

CONSTANT MaxCandidate  \* bound: the candidates start_block ever makes

VARIABLES
    candidates,  \* how many were made
    work,        \* the one that is hashed, or None
    posted       \* found, and not yet handled by the main thread

vars == <<candidates, work, posted>>

None == 0
Candidate == 1 .. MaxCandidate

Init == candidates = 0 /\ work = None /\ posted = {}

StartBlock ==
    /\ candidates < MaxCandidate
    /\ candidates' = candidates + 1
    /\ work' = candidates'

Begin == StartBlock /\ UNCHANGED posted

GeneratedBlock(c) ==
    /\ c \in posted
    /\ posted' = posted \ {c}
    /\ StartBlock \/ UNCHANGED <<candidates, work>>

Found ==
    /\ work # None
    /\ posted' = posted \cup {work}
    /\ work' = None
    /\ UNCHANGED candidates

Next == Begin \/ Found \/ \E c \in Candidate : GeneratedBlock(c)

Spec == Init /\ [][Next]_vars
=============================================================================
