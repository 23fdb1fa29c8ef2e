SPECIFICATION Spec
CONSTANTS
    a = a
    b = b
    c = c
    d = d
    m = m
    n1 = n1
    n2 = n2
    NoPeer = NoPeer
    Peer = {a, b, c}
    Link <- Mesh
    Body = {m, n1, n2}
    Request <- AskMesh
    Matches <- AllMatches
    MaxAsks = 2
    MaxExpiries = 0
    BackCap = 1
    DiskMayFail = TRUE
CHECK_DEADLOCK FALSE
INVARIANTS NumbersIdentify NothingSwallowed ShownToTheRight PongAnswersPing DuplicatesBounded DropsExplained IInv
PROPERTIES ImplementsChat
