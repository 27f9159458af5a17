SPECIFICATION FairSpec
CONSTANTS
    a = a
    b = b
    e = e
    Id = {a, b}
    Edge = {e}
    EdgeOf <- OneEdge
    Files <- OldFiles
    Job = {j1, j2}
    NoJob = NoJob
    PRUNING_INTERVAL = 0
    LiquidityRefresh = 0
    MaxTime = 2
    LastClose = 1
    MaxCrashes = 1
INVARIANTS
    ViewsAgree
PROPERTIES
    GraphConverges
    BeliefsForgotten
