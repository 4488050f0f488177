\* Two transactions, the second of which spends what the first one pays;
\* restarts, and blocks refused for their time.
SPECIFICATION Spec
CONSTANTS
    NumTrx = 2
    Needs <- MCNeeds
    Clashes <- MCClashes
    MaxBlock = 3
    Faults = {"restart", "late"}
INVARIANTS
    OneGroup
    StoresAgree
    ConfirmedIsSynced
    AppliedOnce
    StateFollowsChain
    WorkIsCurrent
PROPERTIES
    ConfirmedStays
\* No block can follow the last one the bound allows.
CHECK_DEADLOCK FALSE
