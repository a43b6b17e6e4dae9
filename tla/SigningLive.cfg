CONSTANTS
    n1 = n1
    n2 = n2
    n3 = n3
    n4 = n4
    m1 = m1
    m2 = m2
    q1 = q1
    q2 = q2
    cl = cl
    other = other
    None = None
    Nodes = {n1, n2, n3}
    Faulty = {}
    Quorums = {q1}
    Members <- QuorumOf3
    Threshold <- TwoOf
    Recovery <- OnlyN1
    Selected <- SelectAny
    Ids = {1}
    DiffMsgIds = {}
    ReSignIds = {1}
    Msgs = {m1, m2}
    Threads = {cl}
    Callers <- OneCaller
    MayRestart = {}
    MayExpire = {}
SPECIFICATION FairSpec
CHECK_DEADLOCK FALSE
PROPERTY ThresholdVoteRecovers
