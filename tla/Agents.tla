------------------------------- MODULE Agents -------------------------------
(* What acts by itself or for a user: agent runs, the notification rules, the *)
(* AI helper and the MCP endpoint.  A behaviour here is one of a single part. *)
(* What one part does to another is left open there: a check that fires may   *)
(* start a run (notif_check.go:494), and here a run starts at any moment.     *)
EXTENDS AgentRuns

CONSTANTS
    \* the notification rules
    Checks, Posts, NotifyRules, Forms, Confs, CooldownOf, First, MaxClock,
    \* the AI helper
    Turns, Questions, Actions, Streams, Calls, PivotCall, MaxRounds, MaxToday, Lifetime,
    MaxCandidates, MaxExecuted, MaxAiFaults,
    \* the MCP endpoint
    Users, MaxKeysKept, Limit, Window, Delay, MaxMade, MaxMcpTime, MaxMcpFaults

VARIABLES part,
    clock, rules, check, post, fires, stale, reset, mixed,
    turn, memory, tokens, executed, toolLog, today, aiFaults, forgotten,
    keyList, minted, mcp, mcpNow, stamps, entered, valid, crossed, used, mcpFaults

notifyVars == <<clock, rules, check, post, fires, stale, reset, mixed>>
helperVars == <<turn, memory, tokens, executed, toolLog, today, aiFaults, forgotten>>
mcpVars == <<keyList, minted, mcp, mcpNow, stamps, entered, valid, crossed, used, mcpFaults>>

Notify == INSTANCE NotificationRules WITH now <- clock, Rules <- NotifyRules, MaxTime <- MaxClock
Helper == INSTANCE AiHelper
Endpoint == INSTANCE Mcp

ASSUME PartsAssumption ==
    /\ Notify!NotificationAssumption
    /\ Helper!HelperAssumption
    /\ Endpoint!McpAssumption

\* The variables of the parts that are not at work hold no value.
Off == 0
AgentInit ==
    /\ part \in {"agents", "notify", "helper", "mcp"}
    /\ IF part = "agents" THEN Init
       ELSE /\ now = Off /\ pc = Off /\ my = Off /\ row = Off /\ items = Off
            /\ issues = Off /\ closed = Off /\ assigned = Off /\ linked = Off
            /\ fresh = Off /\ filling = Off /\ started = Off /\ asked = Off
            /\ overlap = Off /\ dismissal = Off /\ lost = Off
    /\ IF part = "notify" THEN Notify!Init
       ELSE /\ clock = Off /\ rules = Off /\ check = Off /\ post = Off
            /\ fires = Off /\ stale = Off /\ reset = Off /\ mixed = Off
    /\ IF part = "helper" THEN Helper!Init
       ELSE /\ turn = Off /\ memory = Off /\ tokens = Off /\ executed = Off
            /\ toolLog = Off /\ today = Off /\ aiFaults = Off /\ forgotten = Off
    /\ IF part = "mcp" THEN Endpoint!Init
       ELSE /\ keyList = Off /\ minted = Off /\ mcp = Off /\ mcpNow = Off
            /\ stamps = Off /\ entered = Off /\ valid = Off /\ crossed = Off
            /\ used = Off /\ mcpFaults = Off

AgentNext ==
    /\ UNCHANGED part
    /\ \/ part = "agents" /\ Next /\ UNCHANGED <<notifyVars, helperVars, mcpVars>>
       \/ part = "notify" /\ Notify!Next /\ UNCHANGED <<vars, helperVars, mcpVars>>
       \/ part = "helper" /\ Helper!Next /\ UNCHANGED <<vars, notifyVars, mcpVars>>
       \/ part = "mcp" /\ Endpoint!Next /\ UNCHANGED <<vars, notifyVars, helperVars>>

everything == <<part, vars, notifyVars, helperVars, mcpVars>>
AgentSpec == AgentInit /\ [][AgentNext]_everything

-----------------------------------------------------------------------------
\* Runs that do not overlap keep the ceilings on starts of Copilot an hour and
\* on its active assignments (chooseGithubIssueOutcome).
CapsHold == part = "agents" => HourlyCap /\ ActiveCap
\* A run that ends has its outcome in its row, dismissed or not, and what it
\* opened is tracked, unless the insert of just that failed, whose error is
\* dropped (runAgentRuleInstance, insertAgentRun, handleAgentRunSub).
RunsAreRecorded == part = "agents" => TypeOK /\ OutcomeIsRecorded /\ IssuesAreTracked

\* A check writes back what it loaded only over rules nobody wrote since, and is
\* quiet about those that were off (handleApiNotificationsCheck).
ChecksKeepRules == [][part = "notify" => Notify!KeepsRules /\ Notify!QuietWhenOff]_everything
\* Requests in turn keep a rule's cooldown.
CooldownInTurn == [][part = "notify" => Notify!RestsInTurn]_everything

\* What the helper executes, as often as a token allows, was proposed by a turn
\* its guard let pass, and was confirmed unless the page of the question offers
\* it unconfirmed (handleApiAiHelper, handleApiAiHelperExecute); what comes by MCP
\* has a key that is in force, and keeps to the rate (mcpAuthenticated,
\* mcpCheckRateLimit).
SanctionedActions ==
    /\ part = "helper" => Helper!TypeOK /\ Helper!SanctionedActions
    /\ part = "mcp" => Endpoint!KeysInForce /\ Endpoint!RateIsBounded
\* A memory the helper drops is covered by one that was saved, unless a reply named
\* it unseen, a write failed or the process died (consolidateMemoryCandidates).
NothingForgotten == part = "helper" => Helper!NothingForgotten
=============================================================================
