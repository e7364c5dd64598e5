CONSTANTS
    f1 = f1
    f2 = f2
    f3 = f3
    None = None
    Runs <- MCRuns
    Rules = {"copilot"}
    WantsIssue = {"copilot"}
    WantsCopilot = {"copilot"}
    RateLimit <- MCRateLimit
    Dismissable = {}
    MaxIssues = 3
    MaxPerHour = 3
    MaxActive = 3
    Hour = 1
    MaxTime = 1
    MaxLost = 0
SPECIFICATION InTurnSpec
INVARIANT NoDuplicateRequest
SYMMETRY MCSymmetry
CHECK_DEADLOCK FALSE
