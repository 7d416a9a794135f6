CONSTANTS
    Bits <- BitsDef
    Garbage = {0, 7}
    MaxCells = 24
    Programs <- Reassigned
    Checks <- MCChecks
    Lowers <- MCLowers
    Emits <- MCEmits
    EmitsWasm <- MCEmitsWasm
    WasmValid <- MCWasmValid
    WasmRuns <- MCWasmRuns
    Says <- MCSays
INIT Init
NEXT Next
INVARIANT PrintsWhatItSays
