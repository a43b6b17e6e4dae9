SPECIFICATION FairLockSpec
CONSTANTS
  Blocks <- ShortBranchBlocks
  Parent <- ShortBranch
  Genesis = "g"
  None = None
  Environments <- LockB1
  Procs = {"p1"}
  SporkValues = {"off", "enforce"}
INVARIANT
  LockedChainUnmarked
PROPERTY
  LockGetsEnforced
