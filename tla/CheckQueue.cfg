CONSTANTS
    w1 = w1
    w2 = w2
    w3 = w3
    Workers = {w1, w2}
    Master = master
    BatchSize = 2
    MaxChecks = 4
    MaxBad = 2
SPECIFICATION FairSpec
INVARIANTS
    TodoCountsPending
    CountersExact
    NothingLeftBehind
    ResultIsRight
PROPERTIES
    WaitEnds
    PoolDrainsQueue
    StopEnds
