SPECIFICATION RestartFairSpec
CONSTANTS
    a = a
    b = b
    c = c
    m = m
    n1 = n1
    NoPeer = NoPeer
    Peer = {a, b, c}
    Link <- Line
    Body = {m, n1}
    Request <- Asked
    Matches <- NoMatches
    MaxAsks = 3
    MaxExpiries = 0
    BackCap = 1
    DiskMayFail = FALSE
    MaxRestarts = 1
CHECK_DEADLOCK FALSE
INVARIANTS SwallowedForOlder PongAnswersPing
PROPERTIES HeardAgain
