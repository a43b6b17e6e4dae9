SPECIFICATION Spec
CONSTANTS
  Blocks <- ThreeBranchBlocks
  Parent <- ThreeBranches
  Genesis = "g"
  None = None
  Environments <- FailuresOrLock
INVARIANTS
  FailedHaveInvalidRoot
  
  ActiveChainUnmarked
PROPERTY
  RoundsMakeProgress
