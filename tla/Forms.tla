-------------------------------- MODULE Forms --------------------------------
(* What is kept for people, CIs and browsers until they change it: verdicts on *)
(* versions, reports, dashboards, the key of the CI, the lockfiles a scan      *)
(* fills in, apps and releases, events of browsers, retentions and backups;    *)
(* and the pages that read what is stored in several statements: incidents,    *)
(* the lists, and the statements of the query page.                            *)
(* A behaviour here is one of a single part.  What one part does to another is *)
(* left open there: a scan meets any releases, and a list any rows that come   *)
(* and go, whoever adds or deletes them.                                       *)
EXTENDS Integers

CONSTANTS
    \* the scan for vulnerabilities
    Libraries, Shipped, LockedLib, Scans, MaxVulnFaults,
    \* verdicts on versions with findings
    Versions, Verdicts, MaxMs,
    \* saved reports and their import
    ReportIds, ReportNames, Importers, Imports, MaxReportMs,
    \* dashboards and their charts
    Boards, ChartIds, Savers, MaxVersion, MaxSaveFaults,
    \* the key a CI pushes with
    Callers, StaticKey, MaxKeys, MaxPushes, MaxRevokes, MaxKeyFaults,
    \* the page of an incident
    Evidence, Points, References, Links, ScanLimit, MaxRelated, MaxRows,
    \* apps, their releases, the seed
    AppIds, ReleaseIds, Slugs, Clients, Seed, MaxAppMs, MaxAppCalls, MaxAppFaults,
    \* browsers and what they send
    Browsers, OriginOf, AppOf, Contexts, AuthMode, Ttl, rumBrowserContextCacheMax,
    Kinds, MaxPending, MaxEvents, MaxChanges, MaxRumMs, MaxRumFaults,
    \* prunes, backups and the secret
    Clerks, Saves, MaxJobs, MaxDmFaults,
    \* the lists and who walks over them
    Entries, Screens, PageLimit, MinProbe, MaxProbe, MaxEntries, ResolvedBefore,
    MaxViewFaults,
    \* statements of the query page
    Statements, Allowed, MaxTurns

VARIABLES part,
    lockfiles, reported, findings, scan, vulnFaults, together, unlisted,
    ms, inUse, found, disposed, verdict, earlier,
    reportMs, reports, importer, freely, deleted,
    version, boards, charts, saver, saveFaults, crossed,
    ciHash, ciExpiry, minted, passed, caller, pushes, revokes, keyFaults, told, over,
    stored, came, page,
    appMs, apps, releases, artifacts, client, boot, appCalls, appFaults, gone,
    browser, beacons, cache, cacheKeys, sessions, errorLog, rumMs, counts,
    setting, ttlOf, pruneLock, backups, job, replied, secret, jobs, dmFaults,
    entries, entered, resolutions, answered, view, walk, viewFaults,
    turn, answer, sent, turns

scanVars == <<lockfiles, reported, findings, scan, vulnFaults, together, unlisted>>
verdictVars == <<ms, inUse, found, disposed, verdict, earlier>>
reportVars == <<reportMs, reports, importer, freely, deleted>>
boardVars == <<version, boards, charts, saver, saveFaults, crossed>>
ciVars == <<ciHash, ciExpiry, minted, passed, caller, pushes, revokes, keyFaults, told, over>>
incidentVars == <<stored, came, page>>
appVars == <<appMs, apps, releases, artifacts, client, boot, appCalls, appFaults, gone>>
rumVars == <<browser, beacons, cache, cacheKeys, sessions, errorLog, rumMs, counts>>
managedVars == <<setting, ttlOf, pruneLock, backups, job, replied, secret, jobs, dmFaults>>
viewVars == <<entries, entered, resolutions, answered, view, walk, viewFaults>>
queryVars == <<turn, answer, sent, turns>>
formVars == <<part, scanVars, verdictVars, reportVars, boardVars, ciVars,
              incidentVars, appVars, rumVars, managedVars, viewVars, queryVars>>

Scan == INSTANCE VulnScan WITH Releases <- Shipped
Verdict == INSTANCE VulnVerdicts
Report == INSTANCE Reports WITH Names <- ReportNames
Board == INSTANCE Dashboards
Ci == INSTANCE CiKeys
Incident == INSTANCE Incidents
App == INSTANCE Apps
Browser == INSTANCE Rum
Managed == INSTANCE DataManagement
View == INSTANCE Views WITH stored <- entries, came <- entered, Requests <- Screens
Querying == INSTANCE Query

ASSUME FormsAssumption ==
    /\ Verdict!VerdictAssumption /\ Scan!ScanAssumption /\ Report!ReportAssumption
    /\ Incident!IncidentAssumption /\ App!AppAssumption /\ Browser!RumAssumption
    /\ View!ViewsAssumption

-----------------------------------------------------------------------------
\* The variables of the parts that are not at work hold no value.
Off == 0
Kept == {"scan", "verdict", "report", "board", "ci", "incident", "app", "rum", "managed",
         "view", "query"}
KeptInit ==
    /\ IF part = "scan" THEN Scan!Init
       ELSE /\ lockfiles = Off /\ reported = Off /\ findings = Off /\ scan = Off
            /\ vulnFaults = Off /\ together = Off /\ unlisted = Off
    /\ IF part = "verdict" THEN Verdict!Init
       ELSE /\ ms = Off /\ inUse = Off /\ found = Off /\ disposed = Off
            /\ verdict = Off /\ earlier = Off
    /\ IF part = "report" THEN Report!Init
       ELSE /\ reportMs = Off /\ reports = Off /\ importer = Off /\ freely = Off
            /\ deleted = Off
    /\ IF part = "board" THEN Board!Init
       ELSE /\ version = Off /\ boards = Off /\ charts = Off /\ saver = Off
            /\ saveFaults = Off /\ crossed = Off
    /\ IF part = "ci" THEN Ci!Init
       ELSE /\ ciHash = Off /\ ciExpiry = Off /\ minted = Off /\ passed = Off
            /\ caller = Off /\ pushes = Off /\ revokes = Off /\ keyFaults = Off
            /\ told = Off /\ over = Off
    /\ IF part = "incident" THEN Incident!Init
       ELSE /\ stored = Off /\ came = Off /\ page = Off
    /\ IF part = "app" THEN App!Init
       ELSE /\ appMs = Off /\ apps = Off /\ releases = Off /\ artifacts = Off
            /\ client = Off /\ boot = Off /\ appCalls = Off /\ appFaults = Off
            /\ gone = Off
    /\ IF part = "rum" THEN Browser!Init
       ELSE /\ browser = Off /\ beacons = Off /\ cache = Off /\ cacheKeys = Off
            /\ sessions = Off /\ errorLog = Off /\ rumMs = Off /\ counts = Off
    /\ IF part = "managed" THEN Managed!Init
       ELSE /\ setting = Off /\ ttlOf = Off /\ pruneLock = Off /\ backups = Off
            /\ job = Off /\ replied = Off /\ secret = Off /\ jobs = Off /\ dmFaults = Off
    /\ IF part = "view" THEN View!Init
       ELSE /\ entries = Off /\ entered = Off /\ resolutions = Off /\ answered = Off
            /\ view = Off /\ walk = Off /\ viewFaults = Off
    /\ IF part = "query" THEN Querying!Init
       ELSE /\ turn = Off /\ answer = Off /\ sent = Off /\ turns = Off

\* The other parts keep still.
KeptOnly(p) ==
    /\ part = p /\ UNCHANGED part
    /\ IF p = "scan" THEN TRUE ELSE UNCHANGED scanVars
    /\ IF p = "verdict" THEN TRUE ELSE UNCHANGED verdictVars
    /\ IF p = "report" THEN TRUE ELSE UNCHANGED reportVars
    /\ IF p = "board" THEN TRUE ELSE UNCHANGED boardVars
    /\ IF p = "ci" THEN TRUE ELSE UNCHANGED ciVars
    /\ IF p = "incident" THEN TRUE ELSE UNCHANGED incidentVars
    /\ IF p = "app" THEN TRUE ELSE UNCHANGED appVars
    /\ IF p = "rum" THEN TRUE ELSE UNCHANGED rumVars
    /\ IF p = "managed" THEN TRUE ELSE UNCHANGED managedVars
    /\ IF p = "view" THEN TRUE ELSE UNCHANGED viewVars
    /\ IF p = "query" THEN TRUE ELSE UNCHANGED queryVars

FormsNext ==
    \/ KeptOnly("scan") /\ Scan!Next
    \/ KeptOnly("verdict") /\ Verdict!Next
    \/ KeptOnly("report") /\ Report!Next
    \/ KeptOnly("board") /\ Board!Next
    \/ KeptOnly("ci") /\ Ci!Next
    \/ KeptOnly("incident") /\ Incident!Next
    \/ KeptOnly("app") /\ App!Next
    \/ KeptOnly("rum") /\ Browser!Next
    \/ KeptOnly("managed") /\ Managed!Next
    \/ KeptOnly("view") /\ View!Next
    \/ KeptOnly("query") /\ Querying!Next

\* A part that is not of these may be at work: then nothing happens here.
FormsSpec == KeptInit /\ [][FormsNext]_formVars

-----------------------------------------------------------------------------
\* Scans that do not overlap backfill a release's lockfile once, and once more if
\* one could not read which releases have theirs (fetchReleaseDepsFromGithub).
BackfilledOnce == part = "scan" => Scan!BackfilledOnce
\* The verdict that was answered last is the one that counts
\* (handleCveDispositionSub).
LastWordCounts == part = "verdict" => Verdict!LastWordCounts
\* Reports imported one after the other have names of their own (importReports).
ImportsKeepNamesApart == part = "report" => Report!ImportsKeepNamesApart
\* Charts saved one after the other have places of their own on a dashboard
\* (nextChartPosition).
PositionsApart == part = "board" => Board!PositionsApart
\* A push with a key that was revoked or replaced before is turned away, and one
\* without a key while one is in force, unless the gate could not look (enforceAPIKey).
KeysGovernPushes == part = "ci" => Ci!KeysGovernPushes
\* What an incident page shows belongs to what was asked for (handleViewIncident).
EvidenceBelongs == part = "incident" => Incident!EvidenceBelongs
\* A deleted app does not come back, nor do its releases (repoDelete,
\* seedAppRegistry); a prune that went well pruned everything, retentions are in
\* force, and secrets and backups survive blank fields and failures (runDmPrune,
\* handleSettingsDataManagement, runDmBackup).
DeletionHolds ==
    /\ part = "app" => App!DeletionHolds
    /\ part = "managed" => /\ Managed!PrunesAreWhole /\ Managed!RetentionIsInForce
                          /\ Managed!SecretStays /\ Managed!BackupsGoOn
\* An event shows the context of its own browser, and the replay of an error goes
\* with one event unless the site keeps it (handleBrowserContextDelta, rum.js).
BrowserEvents == part = "rum" => Browser!ContextsAreOwn /\ Browser!VisualsGoOnce
\* Who walks over the screens of a list misses nothing that stayed where it was,
\* and resolved errors stay away (handleViewErrors and its like).
WalksAreWhole == part = "view" => View!WalkMissesNothing /\ View!ResolvedStaysResolved
\* Rows are shown under the statement that gave them, and only valid statements are
\* run (validateAndExecuteVannaSQLWithRepair).
QueriesAreHonest == part = "query" => Querying!ShownIsWhatRan
=============================================================================
