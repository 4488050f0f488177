\* Two calls at a time, two peers of which one lacks a file, and a file that does
\* not fill its pad.
SPECIFICATION Spec
CONSTANTS
    p1 = p1
    p2 = p2
    two = two
    one = one
    odd = odd
    j1 = j1
    j2 = j2
    Job = {j1, j2}
    File = {two, one, odd}
    Peer = {p1, p2}
    Size <- MCSize
    Holds <- MCHolds
    BlockSize = 4
    Pad = 2
    Word = 16
    Window = 1
INVARIANTS
    FilesSound
PROPERTIES
    UploadedIsStored
    CallsEnd
\* A call that has returned or thrown does nothing more.
CHECK_DEADLOCK FALSE
