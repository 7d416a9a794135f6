SPECIFICATION Spec
CONSTANTS
    MaxFacts = 4
    SizeA = 2
    InitCount = 1
    Capacity = 2
    Bodies <- MCBodies
    Inputs <- MCInputs
    Lengths = {0, 2}
    MaxTurns = 3
INVARIANTS
    ElidedIndexInRange
    RejectedIndexAlwaysFails
    PolicyKeepsIndexInRange
CHECK_DEADLOCK FALSE
