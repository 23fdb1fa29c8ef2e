SPECIFICATION FairSpec
CONSTANTS
    a = a
    b = b
    c = c
    d = d
    m = m
    n1 = n1
    n2 = n2
    NoPeer = NoPeer
    Peer = {a, b, c, d}
    Link <- Line
    Body = {m, n1, n2}
    Request <- AskLine
    Matches <- NoMatches
    MaxAsks = 2
    MaxExpiries = 1
    BackCap = 1
    DiskMayFail = FALSE
CHECK_DEADLOCK FALSE
INVARIANTS InOrder
PROPERTIES SayReaches DeliverReaches PingAnswered WhisperNextDoor FloodEnds
