CONSTANTS
    f1 = f1
    f2 = f2
    f3 = f3
    None = None
    Runs <- MCTwoRuns
    Rules = {"analyze"}
    WantsIssue = {}
    WantsCopilot = {}
    RateLimit <- MCRateLimit
    Dismissable = {}
    MaxIssues = 1
    MaxPerHour = 1
    MaxActive = 1
    Hour = 1
    MaxTime = 1
    MaxLost = 0
SPECIFICATION InTurnSpec
PROPERTY CooldownHolds
CHECK_DEADLOCK FALSE
