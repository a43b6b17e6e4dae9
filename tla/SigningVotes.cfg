CONSTANTS
    n1 = n1
    n2 = n2
    n3 = n3
    n4 = n4
    m1 = m1
    m2 = m2
    q1 = q1
    q2 = q2
    cl = cl
    other = other
    None = None
    Nodes = {n1, n2}
    Faulty = {n2}
    Quorums = {q1}
    Members <- QuorumOf2
    Threshold <- TwoOf
    Recovery <- QuorumOf2
    Selected <- SelectAny
    Ids = {1, 2}
    DiffMsgIds = {2}
    ReSignIds = {1}
    Msgs = {m1, m2}
    Threads = {cl}
    Callers <- OneCaller
    MayRestart = {n1}
    MayExpire = {1, 2}
SPECIFICATION Spec
CHECK_DEADLOCK FALSE
SYMMETRY MsgSymmetry
INVARIANTS
    TypeOK
    HonestSignsOnce
    SharesBackedByVote
