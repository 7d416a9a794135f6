SPECIFICATION Spec
CONSTANTS
    Cap = 3
    InitLen = 2
    GenMax = 2
    MaxEnt = 5
    Policies = {"abort", "evict"}
    MaxSorts = 1
    HonoursOk = TRUE
    Key <- TiedKeys
INVARIANTS
    FoldReadsLiveRows
PROPERTY
    SortKeepsEntities
CHECK_DEADLOCK FALSE
