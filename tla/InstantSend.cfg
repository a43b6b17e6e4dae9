CONSTANTS
    g = g
    a1 = a1
    b1 = b1
    b2 = b2
    A = A
    B = B
    C = C
    coin = coin
    outA = outA
    iA = iA
    iC = iC
    Base = Base
    None = None
    Blocks = {g, a1, b1, b2}
    Genesis = g
    Parent <- TreeParent
    Txs = {A, B, C}
    Outpoints = {coin, outA}
    Prevout <- TxPrevout
    Inputs <- TxInputs
    Vtx <- BlockTxs
    Islocks = {iA, iC}
    Txid <- LockTxid
    Environments <- All
    Confirmations = 2
    MaxQueue = 3
SPECIFICATION Spec
CHECK_DEADLOCK FALSE
INVARIANTS
    TypeOK
    MempoolRespectsLocks
    TrackingConsistent
    
