----------------------------- MODULE BlockChain -----------------------------
(***************************************************************************)
(* What a node lets onto its chain (libs/gpm/block_chain/block.cpp): the   *)
(* hash target the generating thread has to meet, and validate, which      *)
(* add_block runs on the whole chain with the new block on it.             *)
(*                                                                         *)
(* A hash is a number, the lower the rarer; a block's own hash is a field  *)
(* of it.  Time is in units of SECONDS_PER_BLOCK.                          *)
(***************************************************************************)
EXTENDS Integers, SequencesExt

CONSTANTS
    MaxHash,      \* get_max_hash()
    BLOCK_WINDOW,
    Grain,        \* a target is (Grain + 1) / Grain of a hash: 257 / 256
    Tolerance,    \* how far in the future a block may be: 30 seconds
    Mined,        \* are all blocks made by generate, at the target?
    MaxLength,    \* bound: the blocks of a chain
    MaxTime       \* bound: when the clock stops

ASSUME HashAssumption ==
    /\ MaxHash \in Nat /\ Grain \in Nat \ {0} /\ BLOCK_WINDOW \in Nat \ {0, 1}
    /\ Tolerance \in Nat /\ Mined \in BOOLEAN
    /\ MaxLength \in Nat /\ MaxTime \in Nat \ {0}

VARIABLES
    bc,    \* m_block_chain
    clock  \* utc_clock() / 1000000

chainVars == <<bc, clock>>

SECONDS_PER_BLOCK == 1
NoHash == 0
Time == 0 .. MaxTime + Tolerance
Block == [hash : 0 .. MaxHash, prev_block : 0 .. MaxHash, utc_time : Time]

-----------------------------------------------------------------------------
(* (Slips for the checks to catch: the loop goes one block too far; it     *)
(* starts from the block before.)                                          *)
WindowTooLong(s, index) ==
    {s[index].hash} \cup
        {s[j].prev_block : j \in {i \in 2 .. index : index - i < BLOCK_WINDOW}}

WindowBefore(s, index) ==
    {s[j].prev_block : j \in {i \in 2 .. index : index - i < BLOCK_WINDOW - 1}}

(* The loop starts from the block's own hash and follows prev_block.       *)
Window(s, index) ==
    {s[index].hash} \cup
        {s[j].prev_block : j \in {i \in 2 .. index : index - i < BLOCK_WINDOW - 1}}

(* (Slips: one step eases as much as two; a target passes the largest hash *)
(* there is.)                                                              *)
EasedTwice(max) ==
    LET m == (max * (Grain + 1) * (Grain + 1)) \div (Grain * Grain)
    IN  IF m > MaxHash THEN MaxHash ELSE m

Eased(max) ==
    LET m == (max * (Grain + 1)) \div Grain
    IN  IF m > MaxHash THEN MaxHash ELSE m

calculate_hash_target(s, index) ==
    IF index = 1 THEN MaxHash ELSE Eased(Max(Window(s, index)))

(* prev_time is never updated, so a block's time is compared with 0.       *)
validate(s) ==
    \A i \in 1 .. Len(s) :
        /\ s[i].utc_time - 0 >= SECONDS_PER_BLOCK
        /\ s[i].prev_block = IF i = 1 THEN NoHash ELSE s[i - 1].hash
        /\ s[i].hash <= calculate_hash_target(s, i)

(* generate succeeds on a block for chain s; the target of an empty chain, *)
(* whose first block create_gen_block makes, is the largest hash.          *)
generate(h, s) ==
    h < IF s = << >> THEN MaxHash ELSE calculate_hash_target(s, Len(s))

-----------------------------------------------------------------------------
ChainInit == bc = << >> /\ clock = SECONDS_PER_BLOCK

Tick ==
    /\ clock < MaxTime
    /\ clock' = clock + 1
    /\ UNCHANGED bc

(* A block nobody on the chain has the hash of, for chain s.               *)
Offered(b, s) ==
    /\ \A i \in 1 .. Len(bc) : bc[i].hash # b.hash
    /\ b.hash # NoHash
    /\ Mined => generate(b.hash, s)

(* The first block, of one's own or of another node, is not validated; an  *)
(* honest one was made at its time.                                        *)
Genesis(b) ==
    /\ bc = << >>
    /\ b.prev_block = NoHash
    /\ Offered(b, << >>)
    /\ generate(b.hash, << >>)
    /\ b.utc_time \in SECONDS_PER_BLOCK .. clock
    /\ bc' = <<b>>
    /\ UNCHANGED clock

Timely(b) == b.utc_time <= clock + Tolerance

AppendBlock(b) ==
    /\ bc # << >> /\ Len(bc) < MaxLength
    /\ b.prev_block = Last(bc).hash
    /\ Timely(b)
    /\ Offered(b, bc)
    /\ validate(Append(bc, b))
    /\ bc' = Append(bc, b)
    /\ UNCHANGED clock

(* (A slip: the higher of two hashes wins.)                                *)
SiblingAbove(b) ==
    /\ b.prev_block # Last(bc).hash
    /\ b.prev_block = Last(bc).prev_block
    /\ b.hash > Last(bc).hash

Sibling(b) ==
    /\ b.prev_block # Last(bc).hash
    /\ b.prev_block = Last(bc).prev_block
    /\ b.hash < Last(bc).hash

ReplaceBlock(b) ==
    /\ bc # << >>
    /\ Sibling(b)
    /\ Timely(b)
    /\ Offered(b, Front(bc))
    /\ validate(Append(Front(bc), b))
    /\ bc' = Append(Front(bc), b)
    /\ UNCHANGED clock

ChainNext ==
    \/ Tick
    \/ \E b \in Block : Genesis(b) \/ AppendBlock(b) \/ ReplaceBlock(b)

ChainSpec == ChainInit /\ [][ChainNext]_chainVars

-----------------------------------------------------------------------------
Target == calculate_hash_target(bc, Len(bc))

ChainTypeOK ==
    /\ bc \in Seq(Block)
    /\ clock \in Time
    /\ bc # << >> => Target \in 0 .. MaxHash

(* Following prev_block for BLOCK_WINDOW - 1 blocks finds the hashes of    *)
(* the last BLOCK_WINDOW blocks, no more and no fewer.                     *)
TargetOfWindow ==
    Len(bc) > 1 =>
        LET n == Len(bc)
            recent == {bc[j].hash : j \in {i \in 1 .. n : n - i < BLOCK_WINDOW}}
        IN  Target = Eased(Max(recent))

(* On every chain, the next block's target is that of the last window.     *)
TargetSound == ChainTypeOK /\ TargetOfWindow

(* What generate finds at the target of the head, validate accepts on the  *)
(* head, though it works out another target, that of the new block, and    *)
(* looks at the whole chain again, the genesis block included.             *)
Mining(h) == [hash |-> h, prev_block |-> Last(bc).hash, utc_time |-> clock]

MinedIsAccepted ==
    bc # << >> =>
        \A h \in 1 .. MaxHash : generate(h, bc) => validate(Append(bc, Mining(h)))

(* Among nodes that meet the target, a block eases it by one grain at most *)
(* (1 / 256, not the 1% per block that the comment over it says), however  *)
(* the largest hash leaves the window as the next one enters.              *)
TargetEases ==
    [][bc # << >> => Target' * Grain <= Target * (Grain + 1)]_chainVars

(* A lower hash in the place of the head makes the next block harder, or   *)
(* as hard, never easier.                                                  *)
ReplacedIsHarder ==
    [][bc # << >> /\ Len(bc') = Len(bc) => Target' <= Target]_chainVars

=============================================================================
