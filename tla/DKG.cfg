CONSTANTS
    m1 = m1
    m2 = m2
    m3 = m3
    m4 = m4
    m5 = m5
    Members <- MCMembers
    MinSize = 3
    SigThreshold = 2
    BadVotesThreshold = 3
    FaultModels <- MCFaultModels
    None = None
SPECIFICATION FairSpec
INVARIANTS
    OneQuorumKey
    SignersHoldShares
    

    
CHECK_DEADLOCK FALSE
