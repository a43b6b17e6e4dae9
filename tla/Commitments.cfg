CONSTANTS
    a = a
    b = b
    t1 = t1
    Bases = {a, b}
    Rotation = FALSE
    QuorumsNum = 1
    WindowStart = 1
    WindowEnd = 3
    Signers = {2, 3}
    Threads = {t1}
    CsMainThreads = {t1}
    MaxHeight = 4
    MaxPerBlock = 2
    MaxFailures = 1
    None = None
SPECIFICATION Spec
SYMMETRY BaseSymmetry
INVARIANTS
    MinedMatchesChain
    
    OneCommitmentUntilMined
    MinedBlockAccepted
