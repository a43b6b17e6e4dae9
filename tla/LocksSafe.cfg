SPECIFICATION LockSpec
CONSTANTS
  Blocks <- LateForkBlocks
  Parent <- LateFork
  Genesis = "g"
  None = None
  Environments <- LockB1B2
  Procs = {"p1"}
  SporkValues = {"sign"}
INVARIANTS
  LockTypeOK
  NotifiedLockStays
PROPERTIES
  SignsOnNotifiedChain
  
