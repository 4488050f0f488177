\* Logs of up to a chunk and one record more, and a crash at any time.
SPECIFICATION Spec
CONSTANTS
    n1 = n1
    n2 = n2
    Name = {n1, n2}
    Account <- MCAccount
    Chunk = 4
    MaxLog = 5
    MayCrash = TRUE
INVARIANTS
    FileSound
PROPERTIES
    OnlyAppended
