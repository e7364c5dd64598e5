------------------------------ MODULE AgentRuns ------------------------------
(***************************************************************************)
(* Agent runs that research an incident, open or reuse a GitHub issue and  *)
(* ask Copilot to work on it: agent_flow.go, agent_dedupe.go, the issue    *)
(* calls of onboarding_issues.go, fix_notif_agent.go, work_item_backfill.go*)
(* under src/go/cmd/sobs.  A run reads its limits from the database, talks *)
(* to the network, and records what it did; nothing locks the runs against *)
(* each other.  A table row is read FINAL: the last whole row inserted     *)
(* under the key is what is seen, and a column it omits has its default.   *)
(***************************************************************************)
EXTENDS Naturals, Sequences, FiniteSets

CONSTANTS
    Runs,           \* POST /api/agent/runs, /api/issues/raise and rule triggers
    Rules,
    WantsIssue,     \* rules with a github_issue action, repo and token resolved
    WantsCopilot,   \* those with github_issue_copilot
    RateLimit,      \* RateLimit[r]: 0 for the rules of user observations
    MaxIssues,      \* ai.agent_max_issues_per_hour
    MaxPerHour,     \* ai.agent_max_assignments_per_hour
    MaxActive,      \* ai.agent_max_active_assignments
    Hour,           \* ticks in an hour, 0 when a tick is longer
    Dismissable,    \* runs people dismiss from the page, each once
    MaxTime,        \* bound on the clock
    MaxLost,        \* bound on the inserts that fail
    None            \* no run

ASSUME AgentAssumption ==
    /\ WantsCopilot \subseteq WantsIssue /\ WantsIssue \subseteq Rules
    /\ RateLimit \in [Rules -> Nat]
    /\ {MaxIssues, MaxPerHour, MaxActive, MaxTime} \subseteq Nat \ {0}
    /\ Hour \in Nat /\ MaxLost \in Nat
    /\ IsFiniteSet(Runs) /\ None \notin Runs /\ Dismissable \subseteq Runs

VARIABLES
    now,        \* the clock; 0 is the epoch a DateTime column defaults to
    pc,         \* pc[f]: where the run's goroutine is
    my,         \* my[f]: what the run holds in local variables
    row,        \* row[f]: sobs_agent_runs FINAL
    items,      \* sobs_github_work_items FINAL, in the order of CreatedAt
    issues,     \* issues on GitHub, each named by the run that opened it
    closed,     \* those that were closed
    assigned,   \* issues whose assignees show Copilot
    linked,     \* issues an open pull request mentions
    fresh,      \* the rows a backfill in progress will insert, by index
    filling,    \* githubWorkItemBackfillRunning
    dismissal,  \* dismissal[f]: the request to dismiss run f, and the row it read
    started,    \* started[f]: when run f passed its rate limit, while it matters
    asked,      \* history: asked[f]: when run f asked for Copilot
    overlap,    \* history: pairs of runs that were asking at the same time
    lost        \* history: <<f, w>>: the insert of w by run f failed

github == <<issues, closed, assigned, linked>>
backfill == <<fresh, filling>>
requests == <<backfill, dismissal>>
history == <<started, asked, overlap, lost>>
vars == <<now, pc, my, row, items, github, requests, history>>

\* A row without the columns an updateRun leaves out.
Partial(status, url) ==
    [rule |-> None, at |-> 0, status |-> status, url |-> url, dismissed |-> FALSE]
Whole(f, status) ==
    [rule |-> my[f].rule, at |-> started[f], status |-> status, url |-> None, dismissed |-> FALSE]

InProgress == {"requested", "active"}

Init ==
    /\ now = 1
    /\ pc = [f \in Runs |-> "new"]
    /\ my = [f \in Runs |-> [rule |-> None, allow |-> FALSE, issue |-> None, status |-> "not_requested", at |-> 0]]
    /\ row = [f \in Runs |-> Partial("none", None)]
    /\ items = <<>>
    /\ issues = {} /\ closed = {} /\ assigned = {} /\ linked = {}
    /\ fresh = <<>> /\ filling = FALSE
    /\ dismissal = [f \in Runs |-> [at |-> "none", row |-> row[f], over |-> FALSE]]
    /\ started = [f \in Runs |-> 0]
    /\ asked = [f \in Runs |-> 0]
    /\ overlap = {}
    /\ lost = {}

-----------------------------------------------------------------------------
(* What the limits are computed from.                                      *)

\* max(CreatedAt) over the rule's rows, 0 when there is none.
agentRuleLastRunTs(r) ==
    LET times == {row[f].at : f \in {g \in Runs : row[g].rule = r}} IN
    IF times = {} THEN 0 ELSE CHOOSE t \in times : \A u \in times : u <= t

RateLimited(r) ==
    LET last == agentRuleLastRunTs(r) IN now - last < RateLimit[r] /\ last > 0

countGithubIssuesLastHour ==
    Cardinality({f \in Runs : row[f].url # None /\ row[f].at > 0 /\ row[f].at + Hour >= now})

countCopilotAssignmentsLastHour ==
    Cardinality({i \in DOMAIN items : items[i].at > 0 /\ items[i].at + Hour >= now})

countActiveCopilotAssignments ==
    Cardinality({i \in DOMAIN items : items[i].status \in {"requested", "active"}})

\* The status the newest work item has for the issue.
Recorded(x) ==
    LET about == {i \in DOMAIN items : items[i].issue = x} IN
    IF about = {} THEN "not_requested"
    ELSE items[CHOOSE i \in about : \A j \in about : j <= i].status

\* Runs between their hourly check and their work item.
Asking == {f \in Runs : pc[f] \in {"gateActive", "assign", "persist"}}

\* A faulty form of the next: the columns it does not change are left out.
MarkAlone(old) == [Partial("none", None) EXCEPT !.dismissed = TRUE]
DismissedRow(old) == [old EXCEPT !.dismissed = TRUE]

\* The error of an insert is dropped: the run goes on without its row.
Loses(f, w) ==
    /\ Cardinality(lost) < MaxLost
    /\ lost' = lost \cup {<<f, w>>}
insertAgentRun(f, w, new) ==
    \/ row' = [row EXCEPT ![f] = new] /\ UNCHANGED lost
    \/ UNCHANGED row /\ Loses(f, w)

Goto(f, l) == pc' = [pc EXCEPT ![f] = l]
\* Past its screening only the limit of its rule asks when a run began.
ForgetStart(f) == started' = [started EXCEPT ![f] = IF RateLimit[my[f].rule] = 0 THEN 0 ELSE @]
Decide(f, status, at) == my' = [my EXCEPT ![f].status = status, ![f].at = at]

-----------------------------------------------------------------------------
(* Faulty forms of definitions below: bugs the properties must catch.      *)

\* A closed issue's assignment gets a status of its own.
deriveNewStatus(status, x) ==
    IF x \in closed THEN "closed"
    ELSE IF x \in assigned THEN "active"
    ELSE IF status \in InProgress THEN "requested" ELSE status

\* Without Copilot among the assignees the assignment is forgotten.
deriveForgetsRequest(status, x) ==
    IF x \in closed THEN IF status \in InProgress THEN "completed" ELSE status
    ELSE IF x \in linked /\ status \in {"not_requested", "blocked"} THEN "blocked"
    ELSE IF x \in assigned THEN "active"
    ELSE IF status \in InProgress THEN "not_requested" ELSE status

\* The work item has no CopilotAssignmentRequestedAt.
PersistNoTime(f) ==
    /\ pc[f] = "persist"
    /\ items' = Append(items, [run |-> f, issue |-> my[f].issue,
                              state |-> "open", status |-> my[f].status, at |-> 0])
    /\ Goto(f, "complete")
    /\ UNCHANGED <<now, my, row, github, requests, history>>

\* A failed assignment returns before the work item is written.
PersistNoFailure(f) ==
    /\ pc[f] = "persist"
    /\ items' = IF my[f].status = "failed" THEN items
                ELSE Append(items, [run |-> f, issue |-> my[f].issue, state |-> "open",
                                    status |-> my[f].status, at |-> my[f].at])
    /\ Goto(f, "complete")
    /\ UNCHANGED <<now, my, row, github, requests, history>>

\* The error of the flow is returned without the failed row.
ScreenLosesError(f) ==
    /\ pc[f] = "screen"
    /\ \/ /\ Goto(f, IF my[f].rule \in WantsIssue THEN "count" ELSE "complete")
          /\ UNCHANGED row
       \/ /\ row' = [row EXCEPT ![f] = Partial("blocked_by_guard", None)]
          /\ Goto(f, "done")
       \/ /\ UNCHANGED row
          /\ Goto(f, "done")
    /\ ForgetStart(f)
    /\ UNCHANGED <<now, my, items, github, requests, asked, overlap, lost>>

-----------------------------------------------------------------------------
(* A run.                                                                  *)

\* The last run of the rule is looked up.
CheckRate(f) ==
    /\ pc[f] = "new"
    /\ \E r \in Rules :
           IF RateLimited(r)
           THEN Goto(f, "limited") /\ UNCHANGED <<my, started>>
           ELSE /\ my' = [my EXCEPT ![f].rule = r]
                /\ started' = [started EXCEPT ![f] = now]
                /\ Goto(f, "pending")
    /\ UNCHANGED <<now, row, items, github, requests, asked, overlap, lost>>

\* The whole row is inserted,
InsertPending(f) ==
    /\ pc[f] = "pending"
    /\ insertAgentRun(f, "pending", Whole(f, "pending"))
    /\ Goto(f, "running")
    /\ UNCHANGED <<now, my, items, github, requests, started, asked, overlap>>

\* and replaced by updateRun, which has only the columns it changes.
InsertRunning(f) ==
    /\ pc[f] = "running"
    /\ insertAgentRun(f, "running", Partial("running", None))
    /\ Goto(f, "screen")
    /\ UNCHANGED <<now, my, items, github, requests, started, asked, overlap>>

\* The guard model, the analysis and the DLP endpoint: the run goes on, is
\* blocked, completes without an issue, or fails.
Screen(f) ==
    /\ pc[f] = "screen"
    /\ \/ /\ Goto(f, IF my[f].rule \in WantsIssue THEN "count" ELSE "complete")
          /\ UNCHANGED <<row, lost>>
       \/ /\ \E status \in {"blocked_by_guard", "completed"} :
                 insertAgentRun(f, "outcome", Partial(status, None))
          /\ Goto(f, "done")
       \/ /\ insertAgentRun(f, "outcome", Whole(f, "failed"))
          /\ Goto(f, "done")
    /\ ForgetStart(f)
    /\ UNCHANGED <<now, my, items, github, requests, asked, overlap>>

CountIssues(f) ==
    /\ pc[f] = "count"
    /\ my' = [my EXCEPT ![f].allow = countGithubIssuesLastHour < MaxIssues]
    /\ Goto(f, "look")
    /\ UNCHANGED <<now, row, items, github, requests, history>>

\* Work items and open issues are fetched and put to the LLM, which may match
\* any of them or none; so may the local rules it falls back to.
Look(f) ==
    /\ pc[f] = "look"
    /\ \/ Goto(f, "create") /\ UNCHANGED my
       \/ \E x \in issues \ closed :
              /\ my' = [my EXCEPT ![f].issue = x,
                          ![f].status = IF x \in assigned THEN "active" ELSE Recorded(x)]
              /\ Goto(f, "reuse")
    /\ UNCHANGED <<now, row, items, github, requests, history>>

\* reuseExistingIssueOutcome, which searches for an open pull request first.
Reuse(f) ==
    /\ pc[f] = "reuse"
    /\ IF my[f].rule \notin WantsCopilot
       THEN Goto(f, "persist") /\ UNCHANGED my
       ELSE IF my[f].issue \in linked \/ my[f].status \in InProgress
       THEN Goto(f, "persist") /\ Decide(f, "blocked", 0)
       ELSE Goto(f, "gateHour") /\ UNCHANGED my
    /\ UNCHANGED <<now, row, items, github, requests, history>>

\* createGithubIssueRecord, unless the hourly limit suppresses it. When no
\* answer comes the issue may have been opened all the same.
Create(f) ==
    /\ pc[f] = "create"
    /\ LET copilot == my[f].rule \in WantsCopilot
           nothing == /\ Goto(f, "persist")
                      /\ Decide(f, IF copilot THEN "blocked" ELSE "not_requested", 0)
           post == issues' = issues \cup {f}
       IN IF my[f].allow
          THEN \/ /\ post
                  /\ my' = [my EXCEPT ![f].issue = f]
                  /\ Goto(f, IF copilot THEN "gateHour" ELSE "persist")
               \/ nothing /\ (post \/ UNCHANGED issues)
          ELSE nothing /\ UNCHANGED issues
    /\ UNCHANGED <<now, row, items, closed, assigned, linked, requests, history>>

GateHour(f) ==
    /\ pc[f] = "gateHour"
    /\ IF countCopilotAssignmentsLastHour >= MaxPerHour
       THEN /\ Goto(f, "persist")
            /\ Decide(f, "blocked", 0)
            /\ UNCHANGED overlap
       ELSE /\ Goto(f, "gateActive")
            /\ overlap' = overlap \cup {{f, g} : g \in Asking}
            /\ UNCHANGED my
    /\ UNCHANGED <<now, row, items, github, requests, started, asked, lost>>

GateActive(f) ==
    /\ pc[f] = "gateActive"
    /\ IF countActiveCopilotAssignments >= MaxActive
       THEN Goto(f, "persist") /\ Decide(f, "blocked", 0)
       ELSE Goto(f, "assign") /\ UNCHANGED my
    /\ UNCHANGED <<now, row, items, github, requests, history>>

\* assignIssueToCopilot: not supported by the repository, refused, or asked.
Assign(f) ==
    /\ pc[f] = "assign"
    /\ \/ Decide(f, "blocked", 0) /\ UNCHANGED asked
       \/ \E status \in {"failed", "requested"} :
              /\ Decide(f, status, now)
              /\ asked' = [asked EXCEPT ![f] = now]
    /\ Goto(f, "persist")
    /\ UNCHANGED <<now, row, items, github, requests, started, overlap, lost>>

\* persistGithubWorkItem, for a decision without an issue as well; the error
\* of its insert is dropped like those of a run's rows.
Persist(f) ==
    /\ pc[f] = "persist"
    /\ \/ /\ items' = Append(items, [run |-> f, issue |-> my[f].issue, state |-> "open",
                                    status |-> my[f].status, at |-> my[f].at])
          /\ UNCHANGED lost
       \/ UNCHANGED items /\ Loses(f, "item")
    /\ Goto(f, "complete")
    /\ UNCHANGED <<now, my, row, github, requests, started, asked, overlap>>

Complete(f) ==
    /\ pc[f] = "complete"
    /\ insertAgentRun(f, "outcome", Partial("completed", my[f].issue))
    /\ Goto(f, "done")
    /\ UNCHANGED <<now, my, items, github, requests, started, asked, overlap>>

-----------------------------------------------------------------------------
(* The backfill a view of the work items starts.                           *)

deriveCopilotAssignmentStatus(status, x) ==
    IF x \in closed THEN IF status \in InProgress THEN "completed" ELSE status
    ELSE IF x \in linked /\ status \in {"not_requested", "blocked"} THEN "blocked"
    ELSE IF x \in assigned THEN "active"
    ELSE IF status \in InProgress THEN "requested" ELSE status

\* The items still open are read and each is looked up on GitHub; a lookup
\* may fail. One backfill runs at a time, and one in five minutes: less than
\* a tick.
StartBackfill ==
    /\ ~ filling
    /\ LET wanted == {i \in DOMAIN items :
                         /\ items[i].issue # None
                         /\ items[i].state = "open" \/ items[i].status \in InProgress}
           refreshed(i) == [items[i] EXCEPT
               !.state = IF items[i].issue \in closed THEN "closed" ELSE @,
               !.status = deriveCopilotAssignmentStatus(@, items[i].issue)]
       IN \E S \in SUBSET wanted : fresh' = [i \in S |-> refreshed(i)]
    /\ filling' = TRUE
    /\ UNCHANGED <<now, pc, my, row, items, github, dismissal, history>>

\* The rows are inserted as they were read, but for what was looked up.
EndBackfill ==
    /\ filling
    /\ items' = [i \in DOMAIN items |-> IF i \in DOMAIN fresh THEN fresh[i] ELSE items[i]]
    /\ filling' = FALSE
    /\ fresh' = <<>>
    /\ UNCHANGED <<now, pc, my, row, github, dismissal, history>>

-----------------------------------------------------------------------------
(* A run is dismissed: its row is read,                                    *)

ReadDismissed(f) ==
    /\ f \in Dismissable /\ dismissal[f].at = "none" /\ row[f].status # "none"
    /\ dismissal' = [dismissal EXCEPT ![f] = [at |-> "write", row |-> row[f], over |-> pc[f] = "done"]]
    /\ UNCHANGED <<now, pc, my, row, items, github, backfill, history>>

\* and inserted with the mark, whatever became of the run; or the insert fails.
handleAgentRunSub(f) ==
    /\ dismissal[f].at = "write"
    /\ \/ /\ row' = [row EXCEPT ![f] = DismissedRow(dismissal[f].row)]
          /\ dismissal' = [dismissal EXCEPT ![f].at =
                              IF pc[f] = "done" /\ ~ dismissal[f].over THEN "late" ELSE "done"]
       \/ /\ dismissal' = [dismissal EXCEPT ![f].at = "failed"]
          /\ UNCHANGED row
    /\ UNCHANGED <<now, pc, my, items, github, backfill, history>>

-----------------------------------------------------------------------------
(* The world, the clock and the process.                                   *)

Close(x) ==
    /\ x \in issues \ closed
    /\ closed' = closed \cup {x}
    /\ UNCHANGED <<now, pc, my, row, items, issues, assigned, linked, requests, history>>

\* GitHub shows Copilot as an assignee some time after it was asked.
ShowAssignee(x) ==
    /\ x \in issues \ assigned
    /\ \E f \in Runs : asked[f] > 0 /\ my[f].issue = x
    /\ assigned' = assigned \cup {x}
    /\ UNCHANGED <<now, pc, my, row, items, issues, closed, linked, requests, history>>

LinkPullRequest(x) ==
    /\ x \in issues \ linked
    /\ linked' = linked \cup {x}
    /\ UNCHANGED <<now, pc, my, row, items, issues, closed, assigned, requests, history>>

Tick ==
    /\ now < MaxTime
    /\ now' = now + 1
    /\ UNCHANGED <<pc, my, row, items, github, requests, history>>

\* The process dies: runs and backfill stop where they are.
Crash ==
    /\ \E f \in Runs : pc[f] \notin {"new", "limited", "done", "dead"}
    /\ pc' = [f \in Runs |-> IF pc[f] \in {"new", "limited", "done"} THEN pc[f] ELSE "dead"]
    /\ filling' = FALSE
    /\ fresh' = <<>>
    /\ dismissal' = [f \in Runs |-> IF dismissal[f].at = "write"
                                    THEN [dismissal[f] EXCEPT !.at = "failed"] ELSE dismissal[f]]
    /\ UNCHANGED <<now, my, row, items, github, history>>

Run(f) ==
    \/ InsertPending(f) \/ InsertRunning(f) \/ Screen(f) \/ CountIssues(f)
    \/ Look(f) \/ Reuse(f) \/ Create(f) \/ GateHour(f) \/ GateActive(f)
    \/ Assign(f) \/ Persist(f) \/ Complete(f)

Next ==
    \/ \E f \in Runs : CheckRate(f) \/ Run(f) \/ ReadDismissed(f) \/ handleAgentRunSub(f)
    \/ StartBackfill \/ EndBackfill
    \/ \E x \in Runs : Close(x) \/ ShowAssignee(x) \/ LinkPullRequest(x)
    \/ Tick
    \/ Crash

Spec == Init /\ [][Next]_vars

\* Those behaviours in which a run begins when the others are over.
InTurnSpec ==
    Init /\ [][/\ Next
              /\ Cardinality({f \in Runs : pc'[f] \notin {"new", "limited", "done", "dead"}}) <= 1]_vars

-----------------------------------------------------------------------------
(* Properties.                                                             *)

Statuses == {"not_requested", "blocked", "failed", "completed"} \cup InProgress

\* Types.
TypeOK ==
    /\ now \in 1..MaxTime
    /\ pc \in [Runs -> {"new", "limited", "pending", "running", "screen", "count", "look",
                        "reuse", "create", "gateHour", "gateActive", "assign", "persist",
                        "complete", "done", "dead"}]
    /\ my \in [Runs -> [rule : Rules \cup {None}, allow : BOOLEAN, issue : Runs \cup {None},
                        status : Statuses, at : 0..MaxTime]]
    /\ row \in [Runs -> [rule : Rules \cup {None}, at : 0..MaxTime,
                         status : {"none", "pending", "running", "blocked_by_guard",
                                   "failed", "completed"},
                         url : Runs \cup {None}, dismissed : BOOLEAN]]
    /\ \A i \in DOMAIN items :
           items[i] \in [run : Runs, issue : Runs \cup {None}, state : {"open", "closed"},
                        status : Statuses, at : 0..MaxTime]
    /\ UNION {closed, assigned, linked} \subseteq issues /\ issues \subseteq Runs
    /\ filling \in BOOLEAN
    /\ \A f \in Runs : dismissal[f].at \in {"none", "write", "done", "late", "failed"}
    /\ DOMAIN fresh \subseteq DOMAIN items
    /\ lost \subseteq Runs \X {"pending", "running", "outcome", "item"}

\* Runs that asked for Copilot one after the other, none of them cut off
\* before its work item was there and none whose work item was lost.
InTurn(S) ==
    /\ \A f \in S : asked[f] > 0 /\ pc[f] # "dead" /\ <<f, "item">> \notin lost
    /\ \A f, g \in S : f # g => {f, g} \notin overlap

\* "Relief valve for how many new Copilot starts SOBS may request in one
\* hour": runs that do not overlap keep it.
HourlyCap ==
    \A S \in SUBSET Runs :
        InTurn(S) /\ (\A f, g \in S : asked[f] - asked[g] <= Hour)
            => Cardinality(S) <= MaxPerHour

\* So they do with the active assignments, whatever backfills did to the
\* statuses in between.
ActiveCap ==
    \A S \in SUBSET Runs :
        InTurn(S) /\ (\A f \in S : my[f].status = "requested" /\ my[f].issue \notin closed)
            => Cardinality(S) <= MaxActive

\* An issue SOBS opened, and one a completed run names, has its work item:
\* a death, a lost answer and a lost work item (fix_notif_agent.go:145) apart,
\* no issue escapes the deduplication.
IssuesAreTracked ==
    LET tracked(f, x) == \/ \E i \in DOMAIN items : items[i].run = f /\ items[i].issue = x
                         \/ <<f, "item">> \in lost
    IN
    \A f \in Runs :
        /\ row[f].url # None => tracked(f, row[f].url)
        /\ pc[f] \in {"complete", "done"} /\ my[f].issue # None => tracked(f, my[f].issue)

\* A goroutine that comes to its end left the outcome in the run's row, whichever
\* step failed, unless that very insert failed, whose error is dropped
\* (agent_flow.go:117), or a request to dismiss the run had read the row before
\* and inserted it after (handlers_mutations3.go:367). Dismissing a run that is
\* over marks it and takes nothing from it, and no row shows an outcome of a run
\* that goes on, was cut off, or lost its outcome.
OutcomeIsRecorded ==
    LET over(f) == row[f].status \in {"blocked_by_guard", "failed", "completed"}
        unwritten(f) == <<f, "outcome">> \in lost
    IN
    \A f \in Runs :
        /\ pc[f] = "done" /\ dismissal[f].at # "late" => over(f) \/ unwritten(f)
        /\ over(f) => pc[f] = "done" /\ ~ unwritten(f)
        /\ dismissal[f].at = "done" /\ dismissal[f].over =>
            /\ row[f].dismissed
            /\ row[f].status = "completed" => row[f].url = my[f].issue

\* "Use per-rule cooldown ... to avoid duplicate issue churn": no run begins
\* within the rule's limit of a run that is over.
CooldownHolds ==
    [][\A f, g \in Runs :
          /\ pc[f] = "new" /\ pc'[f] = "pending"
          /\ pc[g] = "done" /\ my[g].rule = my'[f].rule
          => now - started[g] >= RateLimit[my[g].rule]]_vars

\* "SOBS suppresses duplicate Copilot requests when existing work is already
\* active": runs in turn do not ask twice about an open issue.
NoDuplicateRequest ==
    \A f, g \in Runs :
        f # g /\ InTurn({f, g}) /\ my[f].issue = my[g].issue /\ my[f].issue \notin closed
            => ~ (my[f].status = "requested" /\ my[g].status = "requested")
=============================================================================
