# SOBS in TLA+

SOBS is an observability server in one Go process: it takes in OpenTelemetry, RUM and error data, stores
them in an embedded chDB (ClickHouse) database, shows them on HTML pages, and acts on them: it notifies
people, pins raw metrics around incidents, scans for vulnerabilities, answers questions with the help of a
language model, and lets agents research an incident, open GitHub issues and ask Copilot to work on them. The
program is the package `go/cmd/sobs` with `go/internal/{store,render,jsonenc}`. It is a port of a Python
program, which its comments name as "app.py".

Paths below are under `src/`, file names alone under `src/go/cmd/sobs/`. `PROJECT.json` has the lines each
definition stands for, the hazards each property is about, and for each property a faulty form of the code
that TLC finds it violated by.

## 1. The system

Everything runs in one process. HTTP handlers run in goroutines of their own; beside them there are

- the writer of the write queue, the only goroutine that runs the writes of ingest;
- the copy loop of raw metric windows, once a minute;
- the loops of the CVE scan and of repository health, and the loop that posts the server's own telemetry;
- a backfill of GitHub work items, started by a page view, at most one at a time and one in five minutes.

Handlers share memory through few mutexes (tail broker, MCP limiter, RUM cache, attribute keys, source maps,
telemetry buffer, prune lock) and everything else through database tables. Most tables are
`ReplacingMergeTree`s: an update is the insert of a whole new row under the same key, and a read `FINAL` sees
the row with the greatest version column. There are no transactions and no compare-and-set, so that **each
read-then-insert is a window for a lost update, and each column an insert leaves out goes back to its
default**. That, the asynchronous writes, pages that are put together from many statements while rows arrive,
and the calls to the network between a read and the insert that depends on it are where the behaviour is hard.

### 1.1 What acts and what it shares

| component | state | operations | hard behaviour | correct when | module |
|---|---|---|---|---|---|
| write queue (`writequeue.go`) | channel, batch, each task's `err` and `done` | `enqueue`, `worker`, `runWriteBatch` | two timers against one worker; unsynchronised read of `err` after 15 s; nothing drained at a stop | accepted writes run once, in order; refused ones never; answers are true; calls return | `WriteQueue`, `CommitLog` |
| ingest (`handlers_v1_ingest.go`, `otlp_ingest.go`, `ai_llm.go`, `ingest_tag_rules.go`) | rows, tags, the answer | `POST /v1/*`, the span of the server's own AI calls | one request, several inserts, each of which may fail after the answer | nothing is left of a refused request; tables fill in order; tags describe rows | `Ingest` |
| live tail (`handlers_tail.go`) | subscriber set, a channel per client | subscribe, broadcast, drain, leave | a client that does not read; leaving in mid-write | streams in order; losses only of slow clients; broadcasts end | `TailBroker` |
| raw metric windows (`raw_window.go`, `background_tasks.go`, `metrics_retention.go`) | windows, copy state, raw and pinned tables | register, copy worker, TTL | death between copy and mark; a cap on each run; the TTL racing the copy | rows pinned once and not forgotten | `RawWindows` |
| agent runs (`agent_flow.go`, `agent_dedupe.go`, `fix_notif_agent.go`, `work_item_backfill.go`) | runs, work items | trigger, flow, deduplication, gates, assignment, backfill | limits read long before the row that counts towards them; inserts whose errors are dropped; GitHub lags; lost answers | caps, cooldown, no duplicates, outcomes recorded, issues tracked | `AgentRuns` |
| notification rules (`notif_check.go` and the forms) | rules with `LastFiredAt` and `Version` | check, create, edit, toggle, delete | a check writes back the rule as it loaded it | cooldown; edits survive; disabled rules are quiet | `NotificationRules` |
| AI helper (`ai_helper.go`, `ai_action_*.go`, `ai_chat.go`) | chats, proposals with tokens, memories, the tool log | a turn, confirmation, execution, compaction of memories | streams that interleave calls; tokens that outlive their page; memories dropped before their substitute is saved | what is executed was proposed and fits the page, unconfirmed only what it offers so; a memory that goes is stood in for | `AiHelper` |
| MCP endpoint (`mcp_ratelimit.go`, `mcp_key_seed.go`, `handlers_crypto.go`) | key list in one setting, time stamps by client | create, delete, seed, call | the list is written back whole; the clock is read before the lock | keys in force are those made and not deleted; the rate is bounded | `Mcp` |
| CVE scan and verdicts (`cve_scan.go`, `cve_dispositions.go`) | lockfiles, findings, dispositions | scan with its backfill; accept, fix, reopen | a failed listing makes everything look new; two verdicts in one millisecond | backfilled once, but for listings that failed; the last word counts | `VulnScan`, `VulnVerdicts` |
| apps, releases, CI keys (`handlers_v1.go`, `repositories_actions.go`, `app_registry_seed.go`, `auth.go`) | rows with Versions; hash and expiry of a key | register, edit, delete, seed, rotate, revoke, push | tombstones with the request's time; one key in three settings; a gate that fails open | a deleted app stays deleted; keys govern pushes | `Apps`, `CiKeys` |
| settings for data management (`handlers_forms.go`, `dm_prune.go`, `handlers_mutations.go`) | settings, TTLs, prune lock, backups | form, prune, backup | many statements, which fail one by one and interleave | prunes are whole; retentions in force; secrets survive; backups go on | `DataManagement` |
| onboarding (`github_inspect.go`, `onboarding_issues.go`) | issues, work items | inspect, open or replace an issue, assign | a look and an insert at GitHub; lost answers; answers that are empty without being errors | one issue each as far as it could see; items tell what happened; what is reported missing is in no file that came | `Onboarding` |
| suggestions (`metric_candidates.go`, `tag_candidates.go`, `handlers_mutations2.go`) | rules and charts | propose, create | a check before an insert | made once; alarms beyond warnings | `Suggestions` |
| dashboards, charts, reports of users (`handlers_forms.go`, `handlers_mutations3.go`) | rows with Versions and positions | create, clone, edit, move, delete, import | positions and names read, then written | places and names of their own | `Dashboards`, `Reports` |
| attribute-key cache (`ingest_attr_keys.go`, `tag_condition_suggestions.go`) | a table and the cache of it | prime, remember, suggest | a failed read marked as loaded; a limit per type | cache and table agree | `AttrKeys` |

### 1.2 What shows

| component | hard behaviour | correct when | module |
|---|---|---|---|
| lists (`handlers_pages.go`: logs, traces, errors, metrics, AI) | LIMIT and OFFSET over orders that do not break ties, while rows arrive and go | a walk misses nothing that stayed; resolved errors stay away | `Views` |
| trace page (`handlers_pages_traces_detail.go`) | ids that come twice, parents in circles, spans between COUNT and SELECT | tree and time line hold everything once | `TraceDetail` |
| incident page (`handlers_pages.go`, `handlers_incident.go`) | a dozen statements, half of which depend on the first | what is related belongs to what was asked for | `Incidents` |
| AI page (`ai_view.go`) | spans of one moment in any order, messages in several forms | cards tell how a turn ended | `AiView` |
| chart engine (`chart_spec.go`, `chart_builder_sql.go`, `chart_anomaly_engine.go`, `chart_render_binding.go`) | rules of several kinds on one sample, bindings by name and by role | no alarm is hidden | `Charts` |
| queries (`query_exec.go`, `fix_ai_build.go`, `ai_build.go`, `sql_validate.go`) | statements checked, then repaired by a model, then run | what is shown ran and was checked | `Query`, `CloseMatches` |
| browsers (`static/rum.js`, `handlers_v1_ingest.go`, `fix_rum_helpers.go`, `rum_client.go`) | beacons lost and out of order; a bounded FIFO cache; uploads that race | an event shows its own browser's context; a replay goes with one error unless the site keeps it | `Rum` |
| RUM and web-traffic pages (`handlers_rum.go`, `handlers_misc.go`, `geoip.go`) | one key computed twice, in SQL and in Go, which differ; tables cut at the most frequent | list and events agree where the keys do; countries add up | `RumPage` |
| source maps (`source_map.go`) | maps exchanged between stat, read and cache | a frame is told by one map of its time | `SourceMaps` |
| template engine (`internal/render`) | operators split from the outside in, by text | read as written; data escaped | `Render` |

## 2. The modules

A component has one module with its actions, then its specification and its properties; a section *Faulty forms*
holds variants of definitions with a plausible bug, each of which a property must catch; no specification uses
them. `MC` modules hold the constants of the small instances; a module that needs none (`WriteQueue`, `Ingest`) is
checked as it is. The theorems about a module are in one of eight `...Proofs` modules (section 5).

Four components have an instance of their own (`WriteQueue`, `MCTailBroker`, `Ingest`, `MCRawWindows`); the others are
composed in modules that start in any one of several **parts** and stay in it: `part` is chosen in the initial
state, the variables of the other parts hold no value, and each property speaks of the part it is about. Parts are not
interleaved with each other, though in the program some do meet; what one does to another is then either a step of that
other's module, or left out as follows.

- *Onboarding and agent runs*: the wizard adds rows to `sobs_github_work_items`, all of which the caps count
  (`agent_dedupe.go:516`, `:525`). They only make a cap bind sooner, and are not among the runs `CapsHold` speaks of.
- *Onboarding and CI keys*: the wizard asks for the state of a key and rotates it (`onboarding_issues.go:68`).
  `Onboarding` has the key as a flag of its own; the writes of a rotation, and what crosses them, are in `CiKeys`.
- *Notifications and agent runs, raw windows*: a check calls `evaluateAgentRuleTriggers` (`notif_check.go:494`), which
  starts runs, and both register windows (`notif_check.go:451`, `notif_agent.go:277`). A check reads neither back. In
  `AgentRuns` a run starts at any time, in `RawWindows` a window is registered for any signal.
- *CVE scan and apps*: the scan reads apps and releases. `VulnScan` has them as a constant set: none comes or goes during
  its scans.
- *Prunes and readers*: a prune deletes rows that lists, incidents and traces show. `Views` and `Incidents` have the
  disappearance of rows as a step of their own; the other readers read in one statement, or see rows come only.

What interacts closely is one module or is composed (`Ingest` over `CommitLog`).

| module | parts | checked by |
|---|---|---|
| `Agents` | agent runs, notification rules, AI helper, MCP | `MCAgents` |
| `Forms` | scans, verdicts, reports, dashboards, the CI key, apps, RUM, data management; incident page, lists, query page | `MCPages` |
| `Pages` | those of `Forms`; charts, AI page, RUM pages, source maps, onboarding, suggestions, attribute keys | `MCPages` |
| `MCPages` | those of `Pages`; the template engine, the trace page, the likeness of names, whose operators are `RECURSIVE` | itself |

`Agents`, `Forms` and `Pages` are what the theorems speak of: the runs check the same formulas, by extending these
modules.

### CommitLog and WriteQueue

`CommitLog` is what a handler may rely on: an accepted write joins a bounded backlog, the backlog runs one
write at a time in the order of acceptance, a refused write never runs, and only a death of the process drops
the backlog. `WriteQueue` is the code: `enqueue` is the actions `Enqueue`, `Offer`, `OfferTimeout` (its first
`select`, with the 1 s timer), `AwaitDone` and `AwaitTimeout` (the second, with the 15 s one); `worker` is
`Receive`, `Fill`, `EndFill`; `runWriteBatch` is `RunOp` and `Record`. `Waits` are the calls made with
`wait = true`: in the server either all (`SOBS_PARITY=1`) or none; the module takes any set. Timers carry no
clock: a timer may fire whenever its `select` waits, since Go's `select` takes either of two ready cases. The
read of `t.err` after the 15 s is not ordered after the worker's store, which is why `AwaitTimeout` may see
both values while the worker is storing it. `Crash` is a panic in an operation, which nothing recovers in
the worker, or a stop of the host: the queue is not drained.

`WriteQueue!Log` is the refinement: a call counts as offered once its first `select` is over; the backlog is
the part of the batch not yet run, followed by the channel; its bound is `QueueMax + BatchMax`.

### Ingest

Stands on `CommitLog` (through `INSTANCE`), not on the channel: `WriteQueue` is proved to implement it. A
request is of any kind, chosen in `Init`; `Inserts` lists the tables its operation writes one after the
other, `Insert`, `InsertFails` and `Finish` are the steps of the writer inside the operation. A trace request
offers a second operation for its exceptions (`EnqueueErrors`), whose refusal the code discards. `Answer` is the
HTTP status. With `Wait = TRUE` a handler may stop waiting at any moment (`late`), so that behaviours without
waiting are, but for the step of giving up, behaviours with it: one instance stands for both modes, and the
only property that speaks of waiting excepts late requests. Payloads are abstracted to whether they hold
exceptions; parsing ends in `AnswerEarly` or not.

### TailBroker

`mu` is the broker's mutex. `Broadcast` takes it, `Send` is a turn of the `range` over the subscriber map, in
any order, with the non-blocking send, `EndBroadcast` gives it back. `Subscribe`, `Receive`, `Keepalive`,
`WriteSucceeds`, `WriteFails`, `ContextDone` and `Unsubscribe` are the steps of `handleTail`; `Disconnect` is
the client's. A write to a connected client may take for ever. `SOBS_SSE_QUEUE_MAX` is positive: with 0, which
the code accepts, a stream gets only what comes while its handler is in the `select`.

### RawWindows

One action for each statement of `runRawWindowCopyWorker`: look up the copy state (`Skip`, `NotCopied`), count
(`CountNothing`, `CountRows`), count what is not pinned yet (`CountMissing`), copy (`Copy`), mark (`Mark`),
each with its failure (`Skip` with a fault, `CountFails`, `CopyFails`, which may have stored some of the
rows, `Mark` with a fault, whose error the code drops). The cap `rawWindowCopyMaxPerRun` is looked at before
each window and after each pair (`NextPair`). `Id` cuts the time of a signal to the minute; the row
keeps its milliseconds. A sample is a row of a raw table, ingested when it was taken or later.

### AgentRuns (part *agents*)

A run is one goroutine from the rate limit (`CheckRate`) over the inserts of its row, the guard, analysis and
DLP calls (`Screen`), the ceiling (`CountIssues`), the choice of an issue (`Look`, `Reuse`, `Create`), the two
gates before Copilot is asked (`GateHour`, `GateActive`, `Assign`), the work item (`Persist`) and the last row
(`Complete`). `Look` abstracts the LLM and the rules it falls back to: any open issue or none. `updateRun`
inserts the changed columns only, and `Partial` is the row as it is then read; this is what the code does
and not a simplification. `Create` may open an issue whose answer is lost. `StartBackfill` reads items and
GitHub, `EndBackfill` inserts the rows it made of them. `ReadDismissed` and `handleAgentRunSub` dismiss a run (part
*dismissal*). `Close`, `ShowAssignee` and `LinkPullRequest` are GitHub's. Each insert of a run's row
(`insertAgentRun`) and that of the work item (`Persist`) may fail, and the code drops the error: the run goes on without
the row, and `lost` has what is missing, up to `MaxLost`. Database reads do not fail here: the code takes a failed count
for 0, so that no cap would hold.

### NotificationRules (part *notify*)

A check loads the rules, takes them in turn (`BeginRule`, where `LastFiredAt` is read again), evaluates,
dispatches, builds the row with the new `LastFiredAt` (`BuildRow`) and inserts it (`Bump`). Every form reads,
builds (`Create`, `Save`, `Toggle`, `Delete` through `Hold`) and later inserts (`Write`). `Insert` keeps the
row with the greatest `Version`, which each writer took from the clock before its insert. Conditions are met
or not; channels and the notification log leave no trace that a later step reads.

### AiHelper (part *helper*) and Mcp (part *mcp*)

A turn of the helper goes from the guard model over up to `MaxRounds + 1` rounds of the main model, whose
stream is a sequence of pieces of calls and text, as `Streams` gives them, to proposals with signed tokens, and
from the memories it suggests to their reconciliation with those of the chat. The model that reconciles them is shown
`related` ones and answers with ids to drop, which the code takes as they come: any memory of the chat may be named
(`strays` are those it was not shown). A browser executes a token until it expires, with or without a confirmation, as
often as it likes. Each write is best effort; the process may die between any two.

In `Mcp` a writer (create, delete, the seed of a start) reads the list of keys in one step and writes it back in
another; a key stands for itself and its hash. `Arrive` reads the clock, `handleMcpEndpointPost` takes the lock:
between them a request may be held up by `Delay`.

### Writers (parts of MCPages)

- `VulnScan` (*scan*): the steps of `runCveScan`, each statement and request failing for itself, two scans at once; a
  listing of lockfiles that fails is taken for an empty one (`unlisted` counts those). `VulnVerdicts` (*verdict*): a
  verdict reads the row before it and takes a Version from the clock or one above what it read; the clock may be set
  back.
- `Apps` (*app*): the API, the forms and the seed, with row versions; `repoDelete` takes its time at its
  beginning and writes one tombstone after the other. `CiKeys` (*ci*): rotation, expiry and revocation are one
  write each; the gate reads two settings, and takes what it cannot read for no key (`blind`).
- `Dashboards` (*board*), `Reports` (*report*): requests that read positions or names in one step and insert in
  the next, item by item in an import.
- `Suggestions` (*suggest*): a request reads what there is, proposes, and inserts; the thresholds are computed
  from quantiles as the code does it. `Onboarding` (*wizard*): `inspect` goes through the files up to its caps,
  each of which comes, fails, or is answered in a way the code takes for an empty one (404, no list, no base64 content);
  an issue is looked for, made, replaced and assigned in calls of their own, and an issue remembers what its request could
  see (`asOf`, `blind`).
- `AttrKeys` (*attrs*): a call is one step, as the lock is held from its first line to its last.
- `DataManagement` (*managed*): a request at work is a job with a list of statements still to be made; a step
  makes one, or fails at it. A backup reads three settings and the list of backups before it runs.

### Readers (parts of MCPages)

- `Views` (*view*): one operator per list for its order, its filter and its screens; a walk goes from screen to screen
  while rows arrive; ties come in any order, anew in each statement. Counting, reading and completing are separate
  steps.
- `TraceDetail` (*trace*): count, fetch, tree, slice, segments, overlays. `Incidents` (*incident*): the statements
  of the page in their order, each a step.
- `AiView` (*ai*), `RumPage` (*rumpage*): operators from the rows to the page, with the statements as steps. The
  key of a session is two operators: `rumSessionKeySQL` takes the id as it is stored, `rumSessionKeyFromAttrs` trims it
  (`Trimmed` says what is left of an id). The tables of addresses and browsers keep the most frequent, any of those equal.
- `Charts` (*chart*): normalisation, compilation, judging and binding as operators; rows and rules are read in
  two steps. `Query` (*query*): a statement is a record of what the code asks of its text; a turn checks,
  plans, repairs and runs it. `CloseMatches` (*match*): the algorithm that proposes names, over all names of
  up to four letters, against the definition of what a matching block is.
- `Rum` (*rum*): browser, network, endpoint and cache; a visual context is set for one error or, with `consumeOnce` false,
  for all until it is set anew or expires. `SourceMaps` (*maps*): VLQ digits, and segments folded line by
  line as the code does; a lookup is stat, read, store. `Position` says what it should give, by sums over all segments.
- `Render` (*render*): `evalExpr` splits a sequence of tokens at the operators of one level after the other and
  gives the tree the code follows; `WriteDown` writes a tree by Jinja's grammar with no bracket more than needed;
  the two must be inverse. Templates are lists of nodes, text is words that know how often they were escaped.

## 3. The runs

Each run is one `.cfg`; deadlock is not checked, since requests, events and clocks are finite and the instances
do come to rest.

| run | instance | distinct states | asks |
|---|---|---|---|
| `write_queue` | 4 calls, 2 of them waiting, channel 1, batch 2 | 0.27 M | once, in order, true answers, bounded loss, refinement; every call returns and, if operations return, every accepted one runs |
| `tail` | 2 clients (one takes all, one filters both fields), 3 events, channels of 1 | 0.27 M | streams in order, filtered, losses only when behind; broadcasts end; leavers are forgotten |
| `ingest` | any 2 requests, backlog 3 | 0.26 M | nothing of a refused request, prefixes of tables, exceptions after spans, tags of rows, a 200 in time is a commit; accepted operations are decided |
| `windows` | 2 signals, 2 tables, 3 samples, 2 windows, cap 1, 2 ticks, 1 fault | 0.17 M | pinned once and only what was sent, marked only over pinned rows, every window is reached |
| `agents` | see below | 2.0 M | caps, outcomes and tracking of agent runs; edits kept, quiet rules, cooldown; sanctioned actions, keys and rate of MCP; memories |
| `pages` | see below | 1.73 M | the eighteen properties of readers and writers |
| `ingest_tail` | 2 requests without waiting | | **violation**: an event of `/tail` whose row is not there |
| `windows_slices` | as `windows`, 3 ticks | | **violation**: a window closed before its end |
| `windows_minute` | as `windows_slices` | | **violation**: two rows of one minute |
| `agent_cooldown` | 2 runs of one rule, in turn | | **violation**: the second within the limit |
| `agent_duplicate` | 3 runs on one issue, in turn | | **violation**: Copilot asked twice |
| `error_resolve` | 3 errors | | **violation**: answered with ok, still unresolved |

### Bounds, and why they are enough

- *Write queue*: four calls overfill a channel of one and a batch of two by one, so that senders block, time
  out, and see the slot again. Order, double execution and loss need two or three tasks to go wrong. The proofs
  are for all values.
- *Tail*: a channel of one is full after one event; the third event shows what follows a loss. Two clients are
  enough for one to hold the other up, and their filters tell all of the comparison's outcomes apart.
- *Ingest*: properties speak of one request or of its two operations; the second request fills the backlog and
  stands in the way.
- *Windows*: two windows that overlap in time, of which one takes all services; three rows, two of them in
  one table so that a copy may fail half-way; with a cap of one a run never does all. `Limit` is not below the
  number of windows: past 200 the code drops the older ones by design.
- *agents*: a tick is longer than an hour (`Hour = 0`), so that two asks are in one hour or not; two runs are the
  least that exceed a cap of one. One insert fails (`MaxLost`), any of them. A third run is needed for
  `agent_duplicate` alone. *dismissal*: one run suffices, as only its own row is written. *notify*: the clock goes
  through the longer cooldown and stops at its end; two of each writer overlap in every way. *helper*: two requests,
  one stream with calls that interleave, one flushed and one cut off, one round after the first, one fault. *mcp*: two
  users, a list of two with three keys made, so that the cap binds; a limit of one in a window of two, with a delay of
  one.
- *scan*, *verdict*, *report*, *board*, *app*, *ci*, *wizard*, *suggest*, *managed*: two requests at once, the
  least that cross, of each form that tells the branches apart, and one fault. Three charts let one be taken from
  the middle; two Versions let two writes fall in one millisecond; three jobs of data management let a backup
  follow a failed one after a form.
- *view*, *incident*, *rumpage*, *ai*, *trace*: screens of one row over three, pages over three to five rows, out of
  sets that hold each case the code tells apart: rows of one time, of nobody's session, of another trace; ids twice,
  parents unknown, circular, or themselves. A bound of the code (`ScanLimit`, `MaxRelated`, `DetailCap`, `HardCap`,
  `MaxProbe`, `MaxAddresses`, `MaxBrowsers`) is always below what may arrive; two ids of a session that differ by a
  space, one that is a space, and one event without an address are among those of *rumpage*. A listing of issues holds
  one (`githubIssueDedupeCandidateMax`, 10 in the code), so that a newer one hides what is looked for.
- *render*: every expression of two operators nested from each level of precedence, against any other; templates
  with each tag that `src/templates` uses, for text, list, mapping and nothing. *match*: all pairs of names of up to
  four letters, of two. *maps*: two lookups over two exchanges of two files; numbers of several digits and both
  signs. *query*: statements good, cut off, forbidden, failing, and writes; two turns. *chart*: two samples under
  up to three rules of different kinds. *rum*: two browsers over a cache of one, three events, one lost or
  delayed beacon each. *attrs*: three keys, of which a type keeps two, and three
  faults (reads, inserts and restarts), so that a process may start anew after a failed read and fail again.
- Counters that could grow are bounded by constants that say so (`MaxTime`, `MaxWindows`, `MaxSent`,
  `MaxFaults`, `MaxJobs`, `MaxRumMs` and the like); requests, runs and events happen once.

Symmetry (`agents`, `agent_duplicate`, and `pages` over requests and over browsers) is used over identifiers only, and
in no run with a liveness property.

### Fairness, and what in the code justifies it

- `WriteQueue!FairSpec` is fair to each call's `select`: timers fire. Of the worker nothing is assumed, since
  an operation may hang in the database; `CallReturns` needs no more. `AcceptedRunOrFew` joins the bound on losses
  with the claim that accepted operations run, whose premise is the worker's fairness (`WorkerRuns`).
- `TailBroker`: goroutines that hold the mutex or wait for it run (Go's mutex does not starve a waiter), and
  a connection whose client is gone notices: its writes fail, and the `select` takes the ready case of the context at
  last. Nothing is assumed of clients that stay.
- `Ingest`: running handlers and the writer run. New requests may never come.
- `RawWindows`: the worker's loop runs for ever; failures are finite.
- `agents` and `pages` have safety properties only. `smtp.Dial` in `notify_dispatch.go` has no timeout, so the code
  gives no ground to say that a check ends; the other handlers in them are straight lines of statements whose end
  would say no more than that statements end.

### Properties that state a condition

Some properties hold only with an exception, and the exception is part of what they say.

- `CapsHold`: for runs that did not overlap between the hourly check and the work item (`overlap`) and whose work item was
  stored. Runs that do overlap exceed the caps, as nothing locks them against each other; a run whose work item was lost
  (`fix_notif_agent.go:145`) is counted by none that follow.
- `ChecksKeepRules`: unless a check had the rule loaded when a post wrote it (`stale`); then the check's insert
  undoes an edit and brings a deleted rule back.
- `CooldownInTurn`: requests one after the other (`mixed`), rule not toggled (`reset`). Two checks at once both
  read the old `LastFiredAt` and dispatch the rule twice; a toggle sets `LastFiredAt` to the epoch. A firing whose
  `LastFiredAt` could not be inserted is none.
- `AckTellsOutcome`, `ParityAnswerIsCommit`: for calls that did not give up after 15 s. One that did may
  answer "stored" before the write ran: the comment "commit-before-ack" of `writequeue.go` holds up to
  the cap that the comment of `enqueue` mentions.
- `RunsAreRecorded`: issues are tracked for runs whose process lived, whose answer arrived and whose work item was
  stored; outcomes are in the row unless that very insert failed (`agent_flow.go:117` drops the error: the row says
  `running`, or `pending`, or is not there), and stay unless a request to dismiss the run read its row before the end
  and inserted it after (`handlers_mutations3.go:367`), which takes the run back to `running` for good.
- `SanctionedActions`: the key list holds the keys in force while its writers take turns and no statement fails. Two
  at once lose a key or bring a deleted one back, and a read that fails during the creation of a key leaves only the
  new one. The cap on the list and the rate hold always, the rate but for the delay between the clock and the lock. Of
  the helper it does not say that a proposal is executed once: nothing in the code ends a token but its time.
- `NothingForgotten`: unless the write of the memory that takes another's place failed or the process died before it,
  or the reply of the model named a memory, or one that stands in for others, without having been shown it. Such an id
  is dropped unchecked (`ai_helper_context.go:473`, `ai_helper.go:1169`); it can only be one of the same chat, as the
  tombstone carries the chat and rows are keyed by chat and id.
- `BackfilledOnce`: scans that do not overlap in their backfill; each one whose listing of the releases with a lockfile
  failed (`cve_scan.go:88`) backfills all of them once more, which the property counts.
- `ImportsKeepNamesApart`, `PositionsApart`, `SuggestionsHold` (of rules made once): for requests that did not cross
  between their read and their insert, and whose read did not fail. In each case the code has nothing that would keep them
  apart.
- `OnboardingIsHonest`: a second issue of a title is made only if the listing failed, the first came after it was read
  (from another request, or a person), or newer issues and pull requests filled the listing (`Overlooked`). What an
  inspection reports missing without an error may be in a file, or in any of the workflows, for which GitHub answered
  with a 404, with no list or without base64 content (`github_inspect.go:48`, `:62`, `:148`, `:189`), which the code
  takes for empty.
- `BrowserEvents` (of visual contexts): one error each, unless the site set it with `consumeOnce` false
  (`rum.js:335`); then it goes with the errors of its session until it expires.
- `VisitorsAddUp`: a session shows its events where SQL and Go compute one key for them (`Agreed`): an id stored with
  spaces around it is counted by the list (`handlers_rum.go:14`), and its events, whose key is trimmed (`:21`), are
  shown nowhere, or under the session whose id is what is left. Events without an address count for no country, and
  past 200 addresses (`handlers_misc.go:136`) only those of the most frequent do.
- `LastWordCounts`: unless the read before the verdict failed. It holds for verdicts in one millisecond and over a clock
  that goes back, as a verdict takes a Version above the one it read.
- `DeletionHolds`: an app's deletion that was answered with no other request at work, and whose reads did not fail: if
  that of its releases does, the answer is "deleted" all the same while they stay (`repositories_actions.go:215`); a
  backup is judged by the settings it could read - a failed read of `s3_encrypt_backup` gives one in the clear - and
  may fail if its base, which is looked for at the place that is configured now, is at another.
- `KeysGovernPushes`: for rotations and revocations whose writes went in; the code drops their errors. Without a
  static key, a gate that cannot read the application of a release, or whether it has a key, lets a push in without
  one while a key is in force: `enforceAPIKey` takes a failed look-up for no key and says so (`auth.go:158`). With a
  static key the push is turned away.
- `WalksAreWhole`: from the newest to the oldest, for rows that did not change and share their time with no other.
  That resolved errors stay away is said while the statements that read the resolutions succeed and none is written
  during a walk (no code of the repository writes one, finding 6); a failed `getResolvedErrorIDs` is taken for none
  resolved.
- `SuggestionsHold` (of the cache of attribute keys): the table keeps to its limit until a read of it fails; what a
  failed read hides of a type, the cache misses until the next start.
- `NoAlarmIsHidden`: of threshold and seasonal rules, and while the template's roles stand where the template has them. A
  composite rule looks into the table a second time, which may have changed.
- `TextIsRead` (of expressions): unless two of `*`, `/`, `//`, `%` follow each other without brackets, which the code
  groups otherwise than Jinja; no template of the repository does it.
- `FramesAreMapped`: each exchange of a map gives the file a modification time it did not have before. The cache knows
  a map by that alone (`source_map.go:237`): one copied over it with its old time (`rsync -a`, `tar`) goes unnoticed.
- `TraceIsWhole`: of the tree, while no id comes twice and no span is its own ancestor. The time line has no exception.

## 4. Findings

Each is a run whose property TLC violates; `PROJECT.json` quotes the text it departs from.

1. `ingest_tail` - `/tail` shows a record once its write is *queued*. The write may fail or be lost with the
   process: the subscriber saw a row that will never be there. The comment says "after the write succeeds".
2. `windows_slices` - a window reaches five minutes past its signal (`rawMetricsWindowMinutes`, `raw_window.go:9`),
   but the copy worker may copy it a minute after and closes it for good; rows that arrive later in the window are
   never pinned.
3. `windows_minute` - triggers within a minute share an id but not the sorting key, and remain two rows.
4. `agent_cooldown` - `updateRun` drops `RuleId` and `CreatedAt` from the run's row, so that the cooldown finds
   no earlier run. For the same reason `countGithubIssuesLastHour` counts no issue, and the ceiling on new
   issues is not effective.
5. `agent_duplicate` - a suppressed reuse leaves a `blocked` work item on top of the `requested` one; until
   GitHub shows the assignee, the next run asks Copilot again.
6. `error_resolve` - `POST /errors/<id>/resolve` answers `{"ok": true}` and writes nothing; no code of the repository
   writes the table the pages read.

Some further disagreements were met while modelling. The first four are stated in the modules and TLC violates them, but
no run is kept for them:

- `Reports!DeletedReportsAreGone`: the rows of an import have Versions ahead of the clock, one more for each report, and
  a deletion that follows at once is answered `{"deleted": true}` and hidden behind them.
- `Charts!RoleMapIsObeyed`: a role map is stored and offered, and the bindings go by the order of the columns.
- `Incidents!WindowHoldsEvent`: with `window_minutes=1` the window is half of one minute in whole numbers, which is
  none, and does not hold the event (`handlers_pages.go:1933`, against the comment at 1929).
- `VulnVerdicts!ReopensForNewer`: a fixed mark reopens for any other version, not only for a newer one
  (`handlers_misc.go:70`).
- A toggle sets `LastFiredAt` back to the epoch, so that disabling and enabling a rule fires it again within its cooldown
  (`handlers_forms.go:475`, against `settings_notifications.html:730`); `CooldownInTurn` excepts it.
- `DELETE` of the VAPID keys answers ok and writes nothing (`handlers_mutations3.go`).
- `applyDMTTL` sets a TTL and never removes one: a retention field that is cleared leaves the old TTL in force.
- The limit on attribute keys is not kept once a read of their table fails: the cache takes the type to be empty and
  lets as many again be inserted (`ingest_attr_keys.go:46`, against the comment at 17, "(c) caps the total tracked set").
- The `expires_at` of an MCP key is stored and shown, and consulted by no admission.

## 5. Proofs

Each theorem holds for every value of the constants that satisfies the module's assumption; the bounds of the runs are no
part of it, but for those that the code has itself (sizes, caps, limits). Theorems whose last column says *run* state
a property as a run of section 3 checks it.

| module | theorem | states | |
|---|---|---|---|
| `WriteQueueProofs` | `TypeCorrect`, `RunsOnce`, `RefusedIsSafeToRetry`, `AnswersAreTrue` | types and bounds of channel and batch; `ExactlyOnce`; `RefusedNeverRuns`; `AckTellsOutcome` and `DoneAfterRecord` | run |
| | `QueueIsACommitLog` | `Spec => ImplementsCommitLog`, the refinement | run |
| `IngestProofs` | `RowsStayTrue`, `ParityAnswersAreCommits` | rows of accepted requests, in order, tags of whole ones; a 200 in time is a commit | run |
| `TailBrokerProofs` | `StreamsStayTrue` | streams are ordered, filtered, without losses unless the client was behind | run |
| `RawWindowsProofs` | `PinsStayTrue`, `MarksStayTrue` | rows are pinned once; windows are marked over pinned rows only | run |
| `AgentsProofs` | `RunsKeepCaps`, `RunsAreKeptRecorded`, `ChecksAreFaithful`, `CooldownsAreKept`, `ActionsAreSanctioned`, `NothingIsForgotten` | the six properties of `agents` | run |
| | `RunsInTurnKeepCaps`, `RunsStayRecorded`, `ChecksKeepTheRules`, `CooldownKeeps`, `KeysStayInForce`, `RateStaysBounded`, `HelperKeepsFaith` | what they rest on, of each module alone | |
| `FormsProofs` | `BackfillsAreKept`, `LastWordsAreKept`, `NamesAreKeptApart`, `PositionsAreKeptApart`, `KeysKeepGoverning`, `DeletionsKeepHolding` | backfills, verdicts, names, positions, keys, deletions and data management | run |
| `ReadsProofs` | `EvidenceStaysOfPage`, `EventsStayOwn`, `WalksStayWhole`, `QueriesStayHonest` | incident page, RUM, lists, query page | run |
| `PagesProofs` | `OnboardingStaysHonest`, `SuggestionsStayRight`, `VisitorsStayRight`, `AlarmsAreSeen`, `TurnsAreTold`, `FramesStayMapped` | onboarding, suggestions and attribute keys, RUM and web-traffic pages, charts, AI page, source maps | run |
| | `OnboardingIsKept`, `SuggestionsAreKept`, `KeysAreKnown`, `VisitorsAreCounted`, `NoAlarmHides`, `CardsTell`, `FramesAreTold` | what they rest on, of each module alone | |

Of the 40 properties of the passing runs 32 are stated by a theorem; six of the other eight are liveness. In
`AgentsProofs`, `FormsProofs`, `ReadsProofs` and `PagesProofs` each part has a theorem about its own module first, by
an inductive invariant; the theorem about the composition follows from that, as a step of the composition is a step of
the part at work or leaves its variables alone.

### What is assumed

Only what the constants are. Where it is more than a type: the write queue's bounds are at least 1
(`newDefaultWriteQueue` takes `max(1, ...)`), and so is the channel of a live tail, which section 2 speaks of; screens
and probes of the lists hold at least one row, as the code's constants do; a rule's cooldown is not longer than the
time since the epoch (`NotificationAssumption`); ids of rows are of one row each (`ViewsAssumption`); a release has
one lockfile (`ScanAssumption`); the seed names an app and a release or nothing (`AppAssumption`); series of which
rules are proposed are finitely many and differ in signal, service or fingerprint, as the statement groups by them
(`SuggestionsAssumption`); the ranges of addresses ascend, and the cap on the events of a session is not set below
zero (`RumPageAssumption`), nor is the one on attribute keys (`AttrKeysAssumption`); a sample is stored as normal,
warning or outlier, and a rule is of one of three kinds (`ChartsAssumption`); times and counts of tokens are not
negative (`AiViewAssumption`); a number of a source map has digits of one bit instead of five, and a segment has at
least one number (`SourceMapsAssumption`); runs are finitely many and what starts Copilot also wants an issue
(`AgentAssumption`, from the ladder in `runAgentRuleInstance`). TLC evaluates every assumption in the runs.

### The arguments

*Write queue.* `ExactlyOnce` is not inductive: a state in which a task is both in the channel and in `executed` satisfies
it, and the next execution does not. `IInv` therefore says where a task can be: `OnePlace` - channel, batch and
`executed` hold each task once and no task twice, but for the head of the batch between its run and its record;
`AcceptedOnly` - only tasks whose offer was accepted are in any of them; `UnrunHasNoOutcome` - a task that has not run has
no outcome and is not done. `RefusedNeverRuns` follows since a refused task was never accepted. For the refinement,
`LogStep` maps each action: `Offer` is `Accept`, `OfferTimeout` is `Refuse`, `RunOp` is `Execute`, `Crash` is `Die` of
the calls in their first `select`, and the rest stutters; `Receive` and `Fill` move a task from the channel to the
batch, which leaves their concatenation as it is (`ConcatMoves`).

*Ingest.* An operation that was not offered is `Fresh`; one in the backlog waits there once, and the one at its head has
made its first `stage` inserts and no other; what is stored or tagged is whole; the exceptions of a request are
behind its spans (`SpansFirst`); `Progress` ties the handler's place to its operations.

*Live tail.* The k-th event in a client's channel is at least the k-th published since its subscription (`Queued`):
that gives order, and that an event was lost only when the channel was full of older ones (`NoneMissing`). `Reached`
is the last broadcast that came to a channel; the one under way counts once it is past it.

*Raw windows.* Rows that the count saw are in the raw table, or pinned, or past the TTL, until their pair is marked
(`CountedRows`): a row may leave the raw table between the statements, but not unless it is old enough.

*Notification rules.* What a check loaded of a rule nobody wrote since is what the table has, unless another check
loaded it before the write (`Kept`); no row is of the future (`Past`). `InTurn` adds, while requests take turns, that
`LastFiredAt` is not before the last firing and that a check past its condition found the cooldown over.

*Agent runs.* The caps are about sets: of any runs past the hourly check that pairwise did not overlap and asked
within an hour, there are no more than `MaxPerHour` (`HourKept`), and likewise for assignments (`ActiveKept`). A step
that adds a run to such a set counted the others before, as they did not overlap; a lemma bounds the set by what was
counted. `Leaving`, `Named` and `Ending` follow a run's issue from its opening to its row, through a dismissal that
holds an older row, or to `lost` when one of the inserts fails; runs in `lost` are left out of the sets that are
counted, and `Refreshed` says that a backfill replaces a work item by one of the same run, issue and time.

*MCP.* While nothing crossed or failed, the stored list has the keys in force, one writer at most is about to write, and
what it holds is the list after its change (`InTurnKeys`). For the rate the limiter's table has the last entries
(`Stamped`): what it forgot entered longer ago than the window, less the delay.

*AI helper.* A token is given after the guard let the question pass, and offers what the page has (`Given`); an
execution had a token in force (`Done`); a memory that a turn is about to drop is covered by what it saves
(`Replacing`) or is a stray, and those it has dropped already are in `forgotten`.

*Verdicts, scans, keys, dashboards, reports.* A request that read a row ranks above those answered before it
(`Rising`); the one scan in its backfill knows the releases with a lockfile, or is counted as one that could not read
them (`Backfill`); no key that ended is in force or in a gate's hand (`Ended`); nobody has the position a request is
about to take (`Reserved`, over `PositionsBounded`, without which no highest position need exist); the index of an
import covers the names in use (`IndexCovers`).

*Apps.* `RequestFits` says what a request at work may still write: nothing of the future, and nothing that brings an
app back that is gone. `FitsAlone` says of a deletion that met no other that its tombstones outrank what they are for.

*Data management.* A request at work holds a list of statements. `JobShape` says which lists there are and that what a
prune did and has left make up the whole; `JobHolds` that a form not overlapped has either a setting in force or its
statement still ahead, and where a backup stands by what it has left.

*RUM.* The memory holds what sessions told by their hashes (`Remembered`), and a beacon tells what its browser runs on
(`TellsOwn`); a visual context is of one session, and one that is to be consumed is with its browser or with one event
(`VisualsApart`).

*Incident page.* What is on the page was of the reference when it was read (`Belongs`), and stays so, as rows do not
change.

*Query page.* Every statement a turn holds rows of was sent and is valid (`TurnHolds`, `AnswerHolds`); a turn asks the
model at most once for each attempt (`Asked`).

*Lists.* `WalkInv`: each row that was listed when the walk began was shown, or changed, or shares its time with
another, or is `Awaited`: it is still listed where its time puts it, and at least as many names are ahead of it as the
walk has skipped, or it is beyond the probe. Rows that arrive on the way are newer or older than it and only push it
further back; rows that go move it forward, and then the walk counts as moved for it. The lemma `PlaceOf` counts: in a
list in order of time the place of a row is the number of names ahead of it, plus one.

*Onboarding.* What a request has in hand is an issue that exists and no pull request, and what it is about to say of
it is true (`StepSound`); work items tell what happened (`ItemSound`); the request that made an issue is the only one
to say so, and no work item said so before (`OneSays`). Of an issue the wizard opened, none of its title was among the
newest there were when it looked (`IssuesSound`, with `Overlooked`): of those that are open, the ones as new as a
listing is long are on its page. People and requests only add to what GitHub has (`Lasts`). The loop of an inspection
over the files is bounded by its caps; a file it did not read to its end is reported, came and tells nothing, or was
answered as empty (`InspectionIsTrue`, which is inductive).

*Suggestions.* What a request is about to insert has none of its kind among the rows it read (`Fits`), so that a
second one can come only from a request it crossed; a proposed metric rule alarms beyond where it warns, which is a
fact about `autoRuleThresholds` for all quantiles; rows have numbers of their own (`RowsNumbered`).

*Attribute keys.* A cache that is not loaded is empty, and for a type whose reads did not fail it is the table
(`CacheFollows`); so there is room in the table for what there is room for in the cache.

*Visitors.* The list tells of each key the summary of the events that were there (`ListTrue`). What is read of a
session later is its own by SQL's key and not above the cap; what is shown of it is what has its key by Go's, which is
all of that where the two agree (`EventsTrue`). The addresses of the table are the most frequent (`TableTrue`). For
the countries, `countryCounts` is a fold over addresses that are counted first; by the lemmas about folds it gives for
each country the number of events from its listed addresses (`CountsOf`), and those add up to the events of all that
are listed. `lookup4` finds the last range at or before an address, which is the one it lies in as ranges ascend.

*Charts.* `ChartInv` keeps what a request holds well-formed until it is drawn; the point is the lemma that the rule
`annotateRowsWithRules` chooses exists and is as severe as any that fires: its order, by severity and then by kind,
has few ranks and so a greatest element in any set of rules (`BestRuleIsThere`). With the roles in the template's
places the prepared row is the row that was read, so that what is drawn is what was judged.

*AI page.* A card is a fold of `absorb` over the spans of a turn in their order. An invariant of the fold says what the
card knows after the first k of them: how the turn stands by the set of their events, the sum of their tokens, the
span of their times, and each action once. The status does not depend on the order, because `turn.complete` counts only
while nothing else was seen.

*Source maps.* Folding the segments of a map gives, at each of them, the sums that `Position` states without an order
(`Seg`, `Acc`), by an induction over segments within one over lines: the column starts anew with each line, source,
line and column of the original do not. For the cache, `CacheTrue` says that what it remembers under a time is what
the file had at that time, and that each lookup under way that found the file at that time may answer from it.

### Induction over data

Cards, countries, positions and sums of digits are defined by folds and recursive functions. The library's induction
theorems take an operator as a parameter, and no installed prover can instantiate those; `WFMin` of
`WellFoundedInduction` takes none: a set of numbers that is not empty has a least one. From it come
`NumbersAreReached` (a set of numbers with zero and each next one is all of them), and from that what a fold over a
finite set or a sequence yields after each step (*Folds*, *Sums* in `PagesProofs`). The same way is open for anything
defined by a function or a fold.

### What is only model-checked, and why

- *Liveness* (`AcceptedRunOrFew`, `CallReturns`, `BroadcastEnds`, `LeaversAreForgotten`, `AcceptedIsDecided`,
  `WindowsAreCopied`), with the fairness it rests on: `ENABLED` is out of the prover's reach.
- *What `RECURSIVE` operators compute*: `TextIsRead` (the template engine and the likeness of names) and
  `TraceIsWhole` (the tree and time line of a trace). Their recursion is over trees, intervals and blocks that are
  themselves results of the recursion; the prover has no backend for a module that declares it.

## 6. What is abstracted or left out

In what is modelled:

- Texts, formats, HTML, prompts, parsing, sampling and masking: no property is about them.
- Clocks do not go back except in `VulnVerdicts`; the rounding between seconds and milliseconds of the cooldown is left
  out.
- Failed database *reads*, which most of the code takes for "nothing found", except where a module says so
  (`RawWindows`, `VulnScan`, `VulnVerdicts`, `Dashboards`, `CiKeys`, `Onboarding`, `Suggestions`, `AttrKeys`, `Mcp`,
  `DataManagement`, `AiHelper`, `Views`). In `AgentRuns` a count that fails counts as zero (`agent_dedupe.go:516`): every
  cap fails open. Its inserts do fail, up to `MaxLost`.
- `setReplayContext` and `setArtifactContext` keep the other half of a context that is there (`rum.js:1176`): both are
  `SetVisualContext`, a new context with a time of its own.
- The 429 of `handleApiIssuesRaise`, which its own rule without a limit never reaches.
- `SOBS_SSE_QUEUE_MAX=0`, and a TTL on pinned tables.
- The RUM cache evicts the session that came first, not the one unused longest (`fix_rum_helpers.go:313`): a session at
  work may lose its context and then show none. `ContextsAreOwn` allows that; it never shows a wrong one.

Not modelled, and why:

- *Telemetry of the server itself*: a buffer that a flush swaps out and posts once; what a failed post held is dropped by
  design (`telemetry.go:178`).
- *Repository health and enrichment loops*: they read GitHub and write scores that no other component reads back.
- *Settings forms* of single rows; the families with state of their own are modelled.
- *Masking, encryption, the JSON encoder, the lexing of SQL*: functions on text, or cryptography, out of TLC's reach.
- *Basic authentication and the CSRF check*: decision tables over headers.
- *Restore of a backup*: one statement. *Tools of the MCP server*: they read tables and write nothing.
- *Generated protobuf code* and the *golden replay harness* of the tests.

## 7. What could follow

1. The trace page's tree and the grammar of expressions as recursive functions, in the way of section 5, so that
   `TraceIsWhole` and `TextIsRead` come within reach of the prover.
2. An abstract register of whole rows, which `Dashboards`, `Apps` and `VulnVerdicts` implement while requests take turns.
3. Failing reads in `AgentRuns`, with what is left of its properties then; the forms of agent rules.
