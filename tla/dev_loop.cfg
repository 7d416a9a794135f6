SPECIFICATION MCSpec
CONSTANTS
    Sessions = {"s1", "s2"}
    NUnits = 2
    Texts = {"a", "b", "broken", "alien"}
    Unloadable = {"alien"}
    Broken = {"broken"}
    FirstText = "a"
    MaxFaults = 1
    MaxSaves = 2
    MaxRuns = 3
INVARIANTS
    NoReloadMissed
    NoSavePassedOver
    OwnLibrary
PROPERTIES
    KeepsLastGood
    EditsShowUp
CHECK_DEADLOCK FALSE
