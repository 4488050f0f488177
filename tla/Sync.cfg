\* Two nodes that may be three blocks apart, or have different heads.
SPECIFICATION SyncSpec
CONSTANTS
    a = a
    b = b
    Node = {a, b}
    Links <- MCTwo
    Trx = {t1}
    MaxBlock = 3
    MayLose = TRUE
INVARIANTS
    NodesSound
PROPERTIES
    ChainsConverge
    TransactionsSpread
    CatchesUp
\* Once all blocks are generated and passed on, the nodes are at rest.
CHECK_DEADLOCK FALSE
