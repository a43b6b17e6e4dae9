CONSTANTS
  c1 = c1
  c2 = c2
  c3 = c3
  c4 = c4
  Clients <- ThreeClients
  Flaky = c3
  Inputs <- OneInput
  MinPool = 2
  MaxPool = 3
  MaxTries = 1
  Environments <- AllCircumstances
SPECIFICATION FairSpec
CHECK_DEADLOCK FALSE
INVARIANTS
  
  CommittedKeysKept
PROPERTY
  SessionsEnd
