SPECIFICATION Spec
CONSTANTS
    Heads <- Pre
    Middles <- MCMiddles
    Tails <- Post
    Admits <- MCDisciplined
    ParamLists <- MCParams
    MaxValues = 4
    PoolMayRefuse = FALSE
INVARIANTS
    OnlyTheOwnerActs
    NothingLeaks
CHECK_DEADLOCK FALSE
