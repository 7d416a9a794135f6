SPECIFICATION Spec
CONSTANTS
    NCols = 2
    MaxResident = 3
    MaxGrowth = 1
    MaxFaults = 1
    Kernels <- SomeKernels
    Builds <- SomeBuilds
    UserSync = UserSync
    MaxSteps = 3
INVARIANTS
    CoherentReads
PROPERTIES
    PlacementIsCheapest
CHECK_DEADLOCK FALSE
