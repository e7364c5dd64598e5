-------------------------------- MODULE Pages --------------------------------
(* What serves pages, forms and browsers, but for the template engine, the   *)
(* trace page and the likeness of names.  A behaviour here is one of a single *)
(* part (see Forms).                                                         *)
EXTENDS Forms

CONSTANTS
    \* charts of signals with rules
    Specs, AnomalyRules, Samples, MaxSamples,
    \* the page of AI turns
    AiSpans, AiRequests, MaxAiSpans, MaxAiFaults,
    \* the page of visitors
    RumEvents, Trimmed, RumQueries, DetailCap, Ranges, MaxAddresses, MaxBrowsers, MaxRumEvents,
    \* source maps
    Lookups, Maps, Paths, Frames, MaxDeploys,
    \* onboarding of repositories
    Wizards, Wishes, Repos, githubIssueDedupeCandidateMax, WorkflowMax, MaxIssues,
    MaxGithubFaults, MaxPeople,
    \* rules that are suggested
    Makers, Makes, Series, Records, LtHints, CreateMax, MaxDeletions, MaxReadFaults,
    \* the cache of attribute keys
    AttrKeyNames, Batches, Typed, MaxTracked, ShowMax, MaxAttrFaults

VARIABLES
    series, anomalyRules, chart,
    spans, aiPage, aiFaults,
    events, shown, geoFaults,
    files, mapCache, lookup, deploys,
    issues, wizard, items, ciKey, inspected, people, githubFaults,
    tables, request, rowNo, deletions, readFaults,
    recorded, byType, loaded, unread, missed, hinted, attrFaults

chartVars == <<series, anomalyRules, chart>>
aiVars == <<spans, aiPage, aiFaults>>
rumpageVars == <<events, shown, geoFaults>>
mapsVars == <<files, mapCache, lookup, deploys>>
wizardVars == <<issues, wizard, items, ciKey, inspected, people, githubFaults>>
suggestVars == <<tables, request, rowNo, deletions, readFaults>>
attrVars == <<recorded, byType, loaded, unread, missed, hinted, attrFaults>>
pageVars == <<formVars, chartVars, aiVars, rumpageVars, mapsVars, wizardVars,
              suggestVars, attrVars>>

Chart == INSTANCE Charts
Ai == INSTANCE AiView WITH page <- aiPage
Visitors == INSTANCE RumPage
Mapping == INSTANCE SourceMaps
Wizard == INSTANCE Onboarding WITH Forms <- Wishes
Suggest == INSTANCE Suggestions WITH Requests <- Makers, Forms <- Makes
Attrs == INSTANCE AttrKeys WITH Keys <- AttrKeyNames

ASSUME PagesAssumption ==
    /\ Chart!ChartsAssumption /\ Ai!AiViewAssumption /\ Visitors!RumPageAssumption
    /\ Mapping!SourceMapsAssumption /\ Wizard!OnboardingAssumption
    /\ Suggest!SuggestionsAssumption /\ Attrs!AttrKeysAssumption

-----------------------------------------------------------------------------
Served ==
    Kept \union {"chart", "ai", "rumpage", "maps", "wizard", "suggest", "attrs"}
AllInit ==
    /\ KeptInit
    /\ IF part = "chart" THEN Chart!Init
       ELSE /\ series = Off /\ anomalyRules = Off /\ chart = Off
    /\ IF part = "ai" THEN Ai!Init
       ELSE /\ spans = Off /\ aiPage = Off /\ aiFaults = Off
    /\ IF part = "rumpage" THEN Visitors!Init
       ELSE /\ events = Off /\ shown = Off /\ geoFaults = Off
    /\ IF part = "maps" THEN Mapping!Init
       ELSE /\ files = Off /\ mapCache = Off /\ lookup = Off /\ deploys = Off
    /\ IF part = "wizard" THEN Wizard!Init
       ELSE /\ issues = Off /\ wizard = Off /\ items = Off /\ ciKey = Off
            /\ inspected = Off /\ people = Off /\ githubFaults = Off
    /\ IF part = "suggest" THEN Suggest!Init
       ELSE /\ tables = Off /\ request = Off /\ rowNo = Off /\ deletions = Off
            /\ readFaults = Off
    /\ IF part = "attrs" THEN Attrs!Init
       ELSE /\ recorded = Off /\ byType = Off /\ loaded = Off /\ unread = Off
            /\ missed = Off /\ hinted = Off /\ attrFaults = Off
PagesInit == part \in Served /\ AllInit

\* The other parts keep still.
Only(p) ==
    /\ KeptOnly(p)
    /\ IF p = "chart" THEN TRUE ELSE UNCHANGED chartVars
    /\ IF p = "ai" THEN TRUE ELSE UNCHANGED aiVars
    /\ IF p = "rumpage" THEN TRUE ELSE UNCHANGED rumpageVars
    /\ IF p = "maps" THEN TRUE ELSE UNCHANGED mapsVars
    /\ IF p = "wizard" THEN TRUE ELSE UNCHANGED wizardVars
    /\ IF p = "suggest" THEN TRUE ELSE UNCHANGED suggestVars
    /\ IF p = "attrs" THEN TRUE ELSE UNCHANGED attrVars

PagesNext ==
    \/ Only("scan") /\ Scan!Next
    \/ Only("verdict") /\ Verdict!Next
    \/ Only("chart") /\ Chart!Next
    \/ Only("report") /\ Report!Next
    \/ Only("board") /\ Board!Next
    \/ Only("incident") /\ Incident!Next
    \/ Only("view") /\ View!Next
    \/ Only("app") /\ App!Next
    \/ Only("ci") /\ Ci!Next
    \/ Only("query") /\ Querying!Next
    \/ Only("ai") /\ Ai!Next
    \/ Only("rum") /\ Browser!Next
    \/ Only("rumpage") /\ Visitors!Next
    \/ Only("maps") /\ Mapping!Next
    \/ Only("wizard") /\ Wizard!Next
    \/ Only("suggest") /\ Suggest!Next
    \/ Only("attrs") /\ Attrs!Next
    \/ Only("managed") /\ Managed!Next

PagesSpec == PagesInit /\ [][PagesNext]_pageVars

-----------------------------------------------------------------------------
\* On the chart of a signal no rule that fires is hidden by another
\* (annotateRowsWithRules).
NoAlarmIsHidden == part = "chart" => Chart!NoAlarmIsHidden
\* The card of a turn of the AI tells how it ended (buildAiTraceTurnCards).
CardsTellOutcome == part = "ai" => Ai!CardsTellOutcome
\* A session's rank is that of its worst event, its page shows its own events, and
\* each event of a listed address counts for one country (handleViewRum,
\* handleApiWebTrafficGeo).
VisitorsAddUp == part = "rumpage" => Visitors!RanksCoverEvents /\ Visitors!CountriesAddUp
\* A frame is mapped by one map as it was at one time (lookupForFile).
FramesAreMapped == part = "maps" => Mapping!FramesAreMapped
\* A wizard opens an issue again only if it could not see the first, work items say
\* what became of issues, and an inspection what is in the files that came
\* (createOrUpdateOnboardingIssue, inspectRepoForOnboarding).
OnboardingIsHonest ==
    part = "wizard" => Wizard!OneIssueEach /\ Wizard!ItemsTellIssues /\ Wizard!InspectionIsTrue
\* Requests in turn make a rule once, and rules alarm beyond where they warn
\* (handleMetricsRulesAutoPreview).  The cache of attribute keys is what their table
\* holds, and the keys that fit best are proposed (rememberAttrKeys).
SuggestionsHold ==
    /\ part = "suggest" => Suggest!MadeOnce /\ Suggest!AlarmsBeyondWarnings
    /\ part = "attrs" => Attrs!CacheIsTable /\ Attrs!BestAreShown
=============================================================================
