\* Crashes between any two steps of the main thread.
SPECIFICATION Spec
CONSTANTS
    NumTrx = 1
    Needs <- MCNeeds
    Clashes <- MCClashes
    MaxBlock = 3
    Faults = {"restart", "crash"}
INVARIANTS
    WorkIsCurrent
\* No block can follow the last one the bound allows.
CHECK_DEADLOCK FALSE
