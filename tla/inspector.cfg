SPECIFICATION InspSpec
CONSTANTS
    Cap = 2
    InitLen = 1
    GenMax = 3
    MaxEnt = 2
    Policies = {"reject"}
    MaxSorts = 0
    HonoursOk = TRUE
    Key <- DistinctKeys
    TUI = {"tui", "other"}
    Shots = {"poke"}
    Backlog = 2
    MaxFaults = 1
    MaxBoots = 2
    Crews <- MCCrews
INVARIANTS
    EditHitsItsRow
    AnswersMatch
PROPERTY
    TerminalRecovers
CHECK_DEADLOCK FALSE
