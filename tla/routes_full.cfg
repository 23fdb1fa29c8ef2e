SPECIFICATION FairSpec
CONSTANTS
    Peer = {a, b, c, d}
    Fanout = 4
    max_incoming_connections = 1
CHECK_DEADLOCK FALSE
PROPERTIES AlwaysRoute
