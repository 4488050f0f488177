\* Nodes that all meet the target; chains one block longer than the window.
SPECIFICATION ChainSpec
CONSTANTS
    MaxHash = 10
    BLOCK_WINDOW = 3
    Grain = 2
    Tolerance = 0
    Mined = TRUE
    MaxLength = 4
    MaxTime = 2
INVARIANTS
    TargetSound
    MinedIsAccepted
PROPERTIES
    TargetEases
    ReplacedIsHarder
\* Nothing can follow the longest chain of the lowest hashes.
CHECK_DEADLOCK FALSE
