CONSTANTS
    u1 = u1
    u2 = u2
    p1 = p1
    p2 = p2
    r1 = r1
    None = None
    Runs <- MCUsers
    Rules = {"copilot", "analyze"}
    WantsIssue = {"copilot"}
    WantsCopilot = {"copilot"}
    RateLimit <- MCRateLimit
    Dismissable <- MCUsers
    MaxIssues = 2
    MaxPerHour = 1
    MaxActive = 1
    Hour = 0
    MaxTime = 2
    MaxLost = 1
    Checks <- MCUsers
    Posts <- MCPosts
    NotifyRules <- MCNotifyRules
    Forms <- MCForms
    Confs <- MCConfs
    CooldownOf <- MCCooldownOf
    First = 2
    MaxClock = 3
    Turns <- MCUsers
    Questions <- MCQuestions
    Actions <- MCActions
    Streams <- MCStreams
    Calls <- MCCalls
    PivotCall <- MCPivot
    MaxRounds = 1
    MaxToday = 1
    Lifetime = 1
    MaxCandidates = 1
    MaxExecuted = 1
    MaxAiFaults = 1
    Users <- MCUsers
    MaxKeysKept = 2
    Limit = 1
    Window = 2
    Delay = 1
    MaxMade = 3
    MaxMcpTime = 3
    MaxMcpFaults = 1
SPECIFICATION MCSpec
INVARIANTS CapsHold RunsAreRecorded SanctionedActions NothingForgotten
PROPERTIES ChecksKeepRules CooldownInTurn
SYMMETRY Swap
CHECK_DEADLOCK FALSE
