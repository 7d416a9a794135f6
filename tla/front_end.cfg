SPECIFICATION Spec
CONSTANTS
    MaxComments = 3
    MaxDepth = 3
    MaxDecls = 8
    MaxSync = 12
    MaxTargets = 3
    MaxWidth = 30
    MaxFrames = 3
    Sources <- MCSources
    Words <- MCWords
    MaxEdits = 1
    Scan <- MCScan
    Parse <- MCParse
    Format <- MCFormat
INVARIANT TreeIsLossless
INVARIANT NothingSkippedSilently
INVARIANT OperatorsNest
INVARIANT FormatKeepsProgram
CHECK_DEADLOCK FALSE
