CONSTANTS
    n1 = n1
    n2 = n2
    n3 = n3
    n4 = n4
    m1 = m1
    m2 = m2
    q1 = q1
    q2 = q2
    cl = cl
    other = other
    None = None
    Nodes = {n1, n2, n3, n4}
    Faulty = {n4}
    Quorums = {q1}
    Members <- QuorumOf4
    Threshold <- ThreeOf
    Recovery <- OnlyN1
    Selected <- SelectAny
    Ids = {1}
    DiffMsgIds = {}
    ReSignIds = {}
    Msgs = {m1, m2}
    Threads = {cl}
    Callers <- OneCaller
    MayRestart = {n1, n2, n3}
    MayExpire = {1}
SPECIFICATION Spec
CHECK_DEADLOCK FALSE
SYMMETRY RelaySymmetry
INVARIANTS
    NoConflictPerQuorum
    StoredSigsRecoverable
    NodesAgreePerId
PROPERTIES
    KeepsPromise
