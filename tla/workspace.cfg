SPECIFICATION MCSpec
CONSTANTS
    Builds = {1, 2}
    Jobs <- MCJobs
    Disk <- MCDisk
    TextOf <- MCTextOf
    Shim <- MCShim
    Core <- MCCore
    MaxSaves = 1
    MaxFaults = 1
    MaxJobs = 2
    MaxTargets = 8
    MaxLibRoots = 8
    MaxLoaded = 64
    MaxInlined = 64
    Accepted <- MCAccepted
    Lowered <- MCLowered
    Means <- MCMeans
    Buffers <- MCBuffers
    MaxDocs = 2
    Env <- Opts
    Analyze <- MCAnalyze
    Reply <- MCReply
    Stand <- MCStand
INVARIANT RepliesFitTheDocument
PROPERTY BuildsWhatItReads
CHECK_DEADLOCK FALSE
