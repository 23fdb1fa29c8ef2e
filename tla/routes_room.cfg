SPECIFICATION FairSpec
CONSTANTS
    Peer = {a, b, c, d}
    Fanout = 4
    max_incoming_connections = 2
CHECK_DEADLOCK FALSE
INVARIANTS OneNetwork SettledReach
PROPERTIES AlwaysRoute
