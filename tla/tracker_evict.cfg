SPECIFICATION Spec
CONSTANTS
    p1 = p1
    p2 = p2
    p3 = p3
    p4 = p4
    ann = ann
    bob = bob
    A = A
    B = B
    C = C
    Proc = {p1, p2}
    Name = {ann}
    Addr = {A, B}
    NameOf <- OneName
    AddrOf <- TwoAddrs
    NoAddr = NoAddr
    Fanout = 5
CHECK_DEADLOCK FALSE
INVARIANTS StaysKnown
