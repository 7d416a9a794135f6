SPECIFICATION EachSpec
CONSTANTS
    Cap = 3
    InitLen = 1
    GenMax = 2
    MaxEnt = 6
    Policies = {"reject"}
    MaxSorts = 0
    HonoursOk = TRUE
    Key <- DistinctKeys
INVARIANTS
    TypeOK
    FreeListExact
    HandleSound
    RefusedOnlyWhenFull
    DropsExact
PROPERTIES
    StoreSpec
    FanComplete
    BodySeesLiveEntity
CHECK_DEADLOCK FALSE
