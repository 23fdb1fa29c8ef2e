SPECIFICATION FairSpec
CONSTANTS
    Peer = {a, b}
    Pair <- AllPairs
    None = None
    Dead = Dead
    Slot = {1}
    max_incoming_connections = 1
    MayCrash = {a}
    MayErr = {}
CHECK_DEADLOCK FALSE
PROPERTIES GetsIncoming
