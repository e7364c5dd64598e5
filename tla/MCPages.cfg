SPECIFICATION Spec
SYMMETRY MCSymmetry
CONSTANTS
    Libraries <- MCLibraries
    Shipped <- MCScanned
    LockedLib <- MCLockedLib
    Scans <- MCScans
    MaxVulnFaults = 1
    Versions <- MCVersions
    Verdicts <- MCVerdicts
    MaxMs = 2
    Specs <- MCSpecs
    AnomalyRules <- MCAnomalyRules
    Samples <- MCSamples
    MaxSamples = 2
    ReportIds <- MCReportIds
    ReportNames <- MCReportNames
    Importers = {q1, q2}
    Imports <- MCImports
    MaxReportMs = 1
    Boards <- MCBoards
    ChartIds <- MCChartIds
    Savers = {q1, q2}
    MaxVersion = 2
    MaxSaveFaults = 1
    Evidence <- MCEvidence
    Points <- MCPoints
    References <- MCReferences
    Links <- MCLinks
    ScanLimit = 2
    MaxRelated = 1
    MaxRows = 4
    Entries <- MCEntries
    Screens <- MCScreens
    PageLimit = 1
    MinProbe = 2
    MaxProbe = 3
    MaxEntries = 3
    ResolvedBefore <- MCResolved
    MaxViewFaults = 1
    AppIds <- MCAppIds
    ReleaseIds <- MCReleaseIds
    Slugs <- MCSlugs
    Clients = {q1, q2}
    Seed <- MCSeed
    MaxAppMs = 2
    MaxAppCalls = 3
    MaxAppFaults = 1
    Callers = {q1, q2}
    StaticKey = FALSE
    MaxKeys = 2
    MaxPushes = 1
    MaxRevokes = 1
    MaxKeyFaults = 1
    Statements <- MCStatements
    Allowed <- MCAllowed
    MaxTurns = 2
    AiSpans <- MCAiSpans
    AiRequests <- MCAiRequests
    MaxAiSpans = 5
    MaxAiFaults = 1
    Browsers = {b1, b2}
    OriginOf <- MCOriginOf
    AppOf <- MCAppOf
    Contexts <- MCContextsOf
    AuthMode = "origin"
    Ttl = 1
    rumBrowserContextCacheMax = 1
    Kinds <- MCKinds
    MaxPending = 1
    MaxEvents = 3
    MaxChanges = 1
    MaxRumMs = 2
    MaxRumFaults = 1
    RumEvents <- MCRumEvents
    RumQueries <- MCRumQueries
    DetailCap = 1
    Trimmed <- MCTrimmed
    MaxAddresses = 2
    MaxBrowsers = 1
    Ranges <- MCRanges
    MaxRumEvents = 4
    Lookups = {q1, q2}
    Maps <- MCMaps
    Paths <- MCPaths
    Frames <- MCFrames
    MaxDeploys = 2
    Wizards = {q1, q2}
    Wishes <- MCWishes
    Repos <- MCRepos
    githubIssueDedupeCandidateMax = 1
    WorkflowMax = 2
    MaxIssues = 3
    MaxGithubFaults = 1
    MaxPeople = 1
    Makers = {q1, q2}
    Makes <- MCMakes
    Series <- MCSeries
    Records <- MCRecords
    LtHints <- MCLtHints
    CreateMax = 3
    MaxDeletions = 1
    MaxReadFaults = 1
    AttrKeyNames <- MCKeys
    Batches <- MCRows
    Typed <- MCTyped
    MaxTracked = 2
    ShowMax = 2
    MaxAttrFaults = 3
    Clerks = {q1, q2}
    Saves <- MCFields
    MaxJobs = 3
    MaxDmFaults = 1
INVARIANT BackfilledOnce
INVARIANT LastWordCounts
INVARIANT NoAlarmIsHidden
INVARIANT ImportsKeepNamesApart
INVARIANT PositionsApart
INVARIANT TextIsRead
INVARIANT TraceIsWhole
INVARIANT EvidenceBelongs
INVARIANT WalksAreWhole
INVARIANT DeletionHolds
INVARIANT KeysGovernPushes
INVARIANT QueriesAreHonest
INVARIANT CardsTellOutcome
INVARIANT BrowserEvents
INVARIANT VisitorsAddUp
INVARIANT FramesAreMapped
INVARIANT OnboardingIsHonest
INVARIANT SuggestionsHold
CHECK_DEADLOCK FALSE
