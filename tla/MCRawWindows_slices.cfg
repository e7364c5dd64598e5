CONSTANTS
    Signals = {"alert", "anomaly"}
    Scope <- MCScope
    Samples <- MCSamples
    Tables <- MCTables
    Half = 1
    Minute = 2
    RawTTL = 2
    Limit = 2
    MaxPerRun = 2
    MaxTime = 3
    MaxWindows = 2
    MaxSent = 1
    MaxFaults = 1
SPECIFICATION Spec
INVARIANT SlicesAreComplete
CHECK_DEADLOCK FALSE
