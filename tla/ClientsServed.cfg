SPECIFICATION FairSpec
CONSTANTS
    Client = {c1, c2}
    Run = {r1}
    Attempts = 2
    Requests = 1
    BufferSize = 1
INVARIANTS
    RegisteredWhileServed
    HeardInOrder
    NothingAfterTheEnd
CHECK_DEADLOCK FALSE
PROPERTIES
    BroadcastsEnd
