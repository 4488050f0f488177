\* Candidates enough for one to be queued, one to be found and one refused.
SPECIFICATION Spec
CONSTANT MaxCandidate = 4
INVARIANTS
    WorkersSound
PROPERTIES
    StartReturns
    CloseReturns
    OffIsHeard
    FoundIsHandled
    ImplementsMiner
\* A node that is closed stops.
CHECK_DEADLOCK FALSE
