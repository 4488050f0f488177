\* A connection with two chunks, of one end or of both.
SPECIFICATION Spec
CONSTANTS
    MaxCon = 1
    MaxData = 2
INVARIANTS
    RelaySound
    DiesOfFaults
PROPERTIES
    ClosedIsForgotten
    SentArrives
\* The proxy is at rest when its users are.
CHECK_DEADLOCK FALSE
