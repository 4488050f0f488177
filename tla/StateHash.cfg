\* A log that is as long as a chunk.
SPECIFICATION Spec
CONSTANTS
    n1 = n1
    n2 = n2
    Name = {n1}
    Account <- MCAccount
    Chunk = 3
    MaxLog = 5
    MayCrash = FALSE
PROPERTY EveryLogIsHashed
