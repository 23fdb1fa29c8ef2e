SPECIFICATION FairSpec
CONSTANTS
    p1 = p1
    p2 = p2
    p3 = p3
    p4 = p4
    ann = ann
    bob = bob
    A = A
    B = B
    C = C
    Proc = {p1, p2, p3, p4}
    Name = {ann, bob}
    Addr = {A, B, C}
    NameOf <- Names
    AddrOf <- Addrs
    NoAddr = NoAddr
    Fanout = 2
CHECK_DEADLOCK FALSE
INVARIANTS JoinedListed Bootstraps EntryHeld
PROPERTIES LeaversForgotten Answered
