CONSTANTS
    Signals = {"alert", "anomaly"}
    Scope <- MCScope
    Samples <- MCSamples
    Tables <- MCTables
    Half = 1
    Minute = 2
    RawTTL = 1
    Limit = 2
    MaxPerRun = 1
    MaxTime = 2
    MaxWindows = 2
    MaxSent = 1
    MaxFaults = 1
SPECIFICATION FairSpec
INVARIANTS PinnedOnceAndTrue
PROPERTIES MarkedIsPinned WindowsAreCopied
CHECK_DEADLOCK FALSE
