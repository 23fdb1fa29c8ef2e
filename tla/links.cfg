SPECIFICATION FairSpec
CONSTANTS
    Peer = {a, b}
    Pair <- AllPairs
    None = None
    Dead = Dead
    Slot = {1, 2}
    max_incoming_connections = 1
    MayCrash = {a}
    MayErr = {b}
CHECK_DEADLOCK FALSE
INVARIANTS IInv EntryServed CountsIncoming
PROPERTIES ReachedBack
