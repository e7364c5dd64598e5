---------------------------- MODULE AgentsProofs ----------------------------
(***************************************************************************)
(* Proofs about what acts by itself or for a user (Agents): agent runs     *)
(* (with every interleaving of runs, backfills, dismissals and the world,  *)
(* and a death at any point), notification rules, the keys and the rate of *)
(* the MCP endpoint, the executions and the memories of the AI helper.     *)
(***************************************************************************)
EXTENDS Agents, Integers, FiniteSetTheorems, WellFoundedInduction, TLAPS

-----------------------------------------------------------------------------
(* Agent runs.                                                             *)

RowSet == [rule : Rules \cup {None}, at : 0..MaxTime,
           status : {"none", "pending", "running", "blocked_by_guard", "failed", "completed"},
           url : Runs \cup {None}, dismissed : BOOLEAN]
ItemSet == [run : Runs, issue : Runs \cup {None}, state : {"open", "closed"},
            status : Statuses, at : 0..MaxTime]

Types ==
    /\ TypeOK
    /\ items \in Seq(ItemSet) /\ \A i \in DOMAIN fresh : fresh[i] \in ItemSet
    /\ started \in [Runs -> 0..MaxTime] /\ asked \in [Runs -> 0..MaxTime]
    /\ dismissal \in [Runs -> [at : {"none", "write", "done", "late", "failed"},
                               row : RowSet, over : BOOLEAN]]

\* Runs whose work item was lost, and those whose outcome was.
ItemLost(f) == <<f, "item">> \in lost
OutcomeLost(f) == <<f, "outcome">> \in lost

\* Before a run matches or opens an issue it holds none; it has not asked for
\* Copilot before it has an outcome, and holds the time it asked at.
Holding ==
    \A f \in Runs :
        /\ pc[f] \in {"new", "limited", "pending", "running", "screen", "count", "look", "create"}
               => my[f].issue = None
        /\ asked[f] <= now
        /\ pc[f] \notin {"persist", "complete", "done", "dead"} => asked[f] = 0
        /\ pc[f] = "persist" /\ asked[f] > 0 => my[f].at = asked[f]

\* A backfill replaces a row by one of the same run, issue and time; work that
\* is in progress it finds so, unless the issue was closed.
Refreshed ==
    \A i \in DOMAIN fresh :
        /\ fresh[i].run = items[i].run /\ fresh[i].issue = items[i].issue
        /\ fresh[i].at = items[i].at
        /\ items[i].status \in InProgress /\ items[i].issue \notin closed
               => fresh[i].status \in InProgress

\* The work item a run left.
Left(f, i) ==
    /\ items[i].run = f /\ items[i].issue = my[f].issue
    /\ asked[f] > 0 => items[i].at = asked[f]
    /\ asked[f] > 0 /\ my[f].status = "requested" /\ my[f].issue \notin closed
           => items[i].status \in InProgress
Leaving ==
    \A f \in Runs :
        pc[f] \in {"complete", "done"} =>
            \/ asked[f] = 0 /\ my[f].issue = None
            \/ \E i \in DOMAIN items : Left(f, i)
            \/ ItemLost(f)

\* The issue a row names is tracked, in the table and in a dismissal's hand,
\* unless the work item was lost.
Tracked(f, x) == ItemLost(f) \/ \E i \in DOMAIN items : items[i].run = f /\ items[i].issue = x
Named ==
    \A f \in Runs :
        /\ row[f].url # None => Tracked(f, row[f].url)
        /\ dismissal[f].row.url # None => Tracked(f, dismissal[f].row.url)

\* A row, in the table and in a dismissal's hand, shows an outcome only of a run
\* that is over and did not lose it; and of such a run it does, but for a
\* dismissal that had read it before.
Outcomes == {"blocked_by_guard", "failed", "completed"}
Shows(f, w) ==
    w.status \in Outcomes =>
        /\ pc[f] = "done" /\ ~ OutcomeLost(f)
        /\ w.status = "completed" => w.url = my[f].issue
Ending ==
    \A f \in Runs :
        /\ Shows(f, row[f]) /\ Shows(f, dismissal[f].row)
        /\ OutcomeLost(f) => pc[f] = "done"
        /\ pc[f] = "done" /\ dismissal[f].at # "late" => row[f].status \in Outcomes \/ OutcomeLost(f)
        /\ dismissal[f].over => dismissal[f].at # "none" /\ pc[f] = "done"
        /\ dismissal[f].over /\ dismissal[f].at = "write" =>
               dismissal[f].row.status \in Outcomes \/ OutcomeLost(f)
        /\ dismissal[f].over /\ dismissal[f].at = "done" => row[f].dismissed

\* Runs that are about to ask at the same time overlap.
Gated == {f \in Runs : pc[f] \in {"gateActive", "assign"} \/ (pc[f] = "persist" /\ asked[f] > 0)}
Overlapping == \A f, g \in Gated : f # g => {f, g} \in overlap

\* Runs past their hourly check, and those past their check of the active
\* assignments, that did not overlap and lost no work item: the ceilings hold for
\* them before they ask.
Apart(S) == \A f, g \in S : f # g => {f, g} \notin overlap
Since(f) == IF asked[f] > 0 THEN asked[f] ELSE now
Starting == {f \in Runs : /\ pc[f] # "dead" /\ ~ ItemLost(f)
                          /\ (asked[f] > 0 \/ pc[f] \in {"gateActive", "assign"})}
Active == {f \in Runs : /\ pc[f] # "dead" /\ ~ ItemLost(f) /\ my[f].issue \notin closed
                        /\ pc[f] = "assign" \/ (asked[f] > 0 /\ my[f].status = "requested")}
HourKept ==
    \A S \in SUBSET Starting :
        Apart(S) /\ (\A f, g \in S : Since(f) - Since(g) <= Hour) => Cardinality(S) <= MaxPerHour
ActiveKept == \A S \in SUBSET Active : Apart(S) => Cardinality(S) <= MaxActive

IInv ==
    /\ Types /\ Holding /\ Refreshed /\ Leaving /\ Named /\ Ending
    /\ Overlapping /\ HourKept /\ ActiveKept

-----------------------------------------------------------------------------
(* Lemmas about numbers, rows and work items.                              *)

\* A set of numbers that is bounded has a greatest one.
LEMMA MaxExists ==
  ASSUME NEW n \in Nat, NEW T \in SUBSET (1..n), T # {}
  PROVE  \E i \in T : \A j \in T : j <= i
<1> DEFINE D == {n - i : i \in T}
           R == OpToRel(<, Nat)
<1>1. D \subseteq Nat /\ D # {}
  <2>1. PICK i \in T : TRUE
    OBVIOUS
  <2>2. n - i \in D
    BY <2>1
  <2>3. \A j \in 1..n : n - j \in Nat
    OBVIOUS
  <2> QED
    BY <2>2, <2>3
<1>2. IsWellFoundedOn(R, Nat)
  BY NatLessThanWellFounded
<1>3. \A a, b \in Nat : a < b => <<a, b>> \in R
  BY DEF OpToRel
<1> HIDE DEF R, D
<1>4. PICK d \in D : \A e \in D : ~ (<<e, d>> \in R)
  BY <1>1, <1>2, WFMin
<1>5. \A e \in D : d <= e
  <2> SUFFICES ASSUME NEW e \in D PROVE d <= e
    OBVIOUS
  <2>1. e \in Nat /\ d \in Nat
    BY <1>1
  <2>2. ~ e < d
    BY <1>3, <1>4, <2>1
  <2> QED
    BY <2>1, <2>2
<1>6. PICK i \in T : d = n - i
  BY DEF D
<1>7. \A j \in T : n - i <= n - j
  BY <1>5, <1>6 DEF D
<1> QED
  BY <1>7

\* What the records of the model are.
LEMMA Rows ==
  ASSUME Types
  PROVE  /\ \A f \in Runs, t \in {"running", "blocked_by_guard", "completed", "none"},
               u \in Runs \cup {None} :
                /\ Partial(t, u) \in RowSet /\ Partial(t, u).url = u /\ Partial(t, u).status = t
         /\ \A f \in Runs, t \in {"pending", "failed"} :
                /\ Whole(f, t) \in RowSet /\ Whole(f, t).url = None /\ Whole(f, t).status = t
         /\ \A w \in RowSet : /\ DismissedRow(w) \in RowSet /\ DismissedRow(w).url = w.url
                              /\ DismissedRow(w).status = w.status /\ DismissedRow(w).dismissed
<1>1. MaxTime \in Nat
  BY AgentAssumption
<1>2. \A f \in Runs, t \in {"running", "blocked_by_guard", "completed", "none"},
         u \in Runs \cup {None} :
          Partial(t, u) \in RowSet /\ Partial(t, u).url = u /\ Partial(t, u).status = t
  BY <1>1 DEF Partial, RowSet
<1>3. \A f \in Runs, t \in {"pending", "failed"} :
          Whole(f, t) \in RowSet /\ Whole(f, t).url = None /\ Whole(f, t).status = t
  <2>1. \A f \in Runs : my[f].rule \in Rules \cup {None} /\ started[f] \in 0..MaxTime
    BY DEF Types, TypeOK
  <2> QED
    BY <1>1, <2>1 DEF Whole, RowSet
<1>4. \A w \in RowSet : /\ DismissedRow(w) \in RowSet /\ DismissedRow(w).url = w.url
                        /\ DismissedRow(w).status = w.status /\ DismissedRow(w).dismissed
  BY DEF DismissedRow, RowSet
<1> QED
  BY <1>2, <1>3, <1>4

\* A lookup on GitHub keeps what is in progress so, unless the issue is closed.
LEMMA Derived ==
  ASSUME NEW t \in Statuses, NEW x
  PROVE  /\ deriveCopilotAssignmentStatus(t, x) \in Statuses
         /\ t \in InProgress /\ x \notin closed =>
                deriveCopilotAssignmentStatus(t, x) \in InProgress
BY DEF deriveCopilotAssignmentStatus, Statuses, InProgress

\* The status of the newest work item is a status.
LEMMA RecordedStatus ==
  ASSUME Types, NEW x
  PROVE  Recorded(x) \in Statuses
<1> DEFINE about == {i \in DOMAIN items : items[i].issue = x}
           newest == CHOOSE i \in about : \A j \in about : j <= i
<1>1. /\ DOMAIN items = 1..Len(items) /\ Len(items) \in Nat
      /\ \A i \in DOMAIN items : items[i].status \in Statuses
  <2>1. items \in Seq(ItemSet)
    BY DEF Types
  <2>2. DOMAIN items = 1..Len(items) /\ Len(items) \in Nat /\ \A i \in DOMAIN items : items[i] \in ItemSet
    BY <2>1
  <2>3. \A w \in ItemSet : w.status \in Statuses
    BY DEF ItemSet
  <2> QED
    BY <2>2, <2>3
<1>2. CASE about = {}
  BY <1>2 DEF Recorded, Statuses
<1>3. CASE about # {}
  <2>1. \E i \in about : \A j \in about : j <= i
    BY <1>1, <1>3, MaxExists
  <2>2. newest \in about
    BY <2>1
  <2>3. items[newest].status \in Statuses
    BY <1>1, <2>2
  <2> QED
    BY <1>3, <2>3 DEF Recorded
<1> QED
  BY <1>2, <1>3

\* The records runs and dismissals hold, and where a run can be; before it has
\* matched or opened an issue.
MySet == [rule : Rules \cup {None}, allow : BOOLEAN, issue : Runs \cup {None},
          status : Statuses, at : 0..MaxTime]
PcSet == {"new", "limited", "pending", "running", "screen", "count", "look", "reuse", "create",
          "gateHour", "gateActive", "assign", "persist", "complete", "done", "dead"}
DismissalSet == [at : {"none", "write", "done", "late", "failed"}, row : RowSet, over : BOOLEAN]
Before == {"new", "limited", "pending", "running", "screen", "count", "look", "create"}

-----------------------------------------------------------------------------
(* A run's steps, told by their effect.                                    *)

\* All but run f and what it may write stay as they are.
Alone(f) ==
    /\ f \in Runs
    /\ \A g \in Runs : g # f => /\ pc'[g] = pc[g] /\ my'[g] = my[g]
                                /\ row'[g] = row[g] /\ asked'[g] = asked[g]
    /\ UNCHANGED <<now, closed, fresh, dismissal>>

\* The run loses one of these, or nothing.
Losses(f, W) == lost' = lost \/ \E w \in W : lost' = lost \cup {<<f, w>>}

\* On the way to an outcome.
Advances(f) ==
    /\ pc[f] \in {"new", "pending", "running", "screen", "count", "look", "reuse", "create",
                  "gateHour", "gateActive"}
    /\ pc'[f] \in {"limited", "pending", "running", "screen", "count", "look", "create",
                   "reuse", "gateHour", "persist"}
    /\ pc'[f] \in Before => pc[f] \in Before /\ my'[f].issue = my[f].issue
    /\ asked'[f] = asked[f] /\ UNCHANGED <<items, overlap>>
    /\ row'[f] = row[f] \/ (row'[f].url = None /\ row'[f].status \in {"pending", "running"})
    /\ Losses(f, {"pending", "running"})
\* The screening ends the run, or it needs no issue.
Skips(f) ==
    /\ pc[f] = "screen" /\ my'[f] = my[f] /\ asked'[f] = asked[f] /\ UNCHANGED <<items, overlap>>
    /\ \/ pc'[f] = "complete" /\ row'[f] = row[f] /\ lost' = lost
       \/ /\ pc'[f] = "done" /\ row'[f].url = None
          /\ row'[f].status \in Outcomes /\ lost' = lost
       \/ /\ pc'[f] = "done" /\ row'[f] = row[f]
          /\ lost' = lost \cup {<<f, "outcome">>}
PassesHour(f) ==
    /\ pc[f] = "gateHour" /\ pc'[f] = "gateActive"
    /\ countCopilotAssignmentsLastHour < MaxPerHour
    /\ overlap' = overlap \cup {{f, g} : g \in Asking}
    /\ my'[f] = my[f] /\ asked'[f] = asked[f] /\ row'[f] = row[f] /\ UNCHANGED <<items, lost>>
PassesActive(f) ==
    /\ pc[f] = "gateActive" /\ pc'[f] = "assign"
    /\ countActiveCopilotAssignments < MaxActive
    /\ my'[f] = my[f] /\ asked'[f] = asked[f] /\ row'[f] = row[f]
    /\ UNCHANGED <<items, overlap, lost>>
Asks(f) ==
    /\ pc[f] = "assign" /\ pc'[f] = "persist" /\ my'[f].issue = my[f].issue
    /\ asked'[f] = asked[f] \/ (asked'[f] = now /\ my'[f].at = now)
    /\ row'[f] = row[f] /\ UNCHANGED <<items, overlap, lost>>
Persists(f) ==
    /\ pc[f] = "persist" /\ pc'[f] = "complete" /\ my'[f] = my[f]
    /\ asked'[f] = asked[f] /\ row'[f] = row[f] /\ UNCHANGED overlap
    /\ \/ /\ items' = Append(items, [run |-> f, issue |-> my[f].issue, state |-> "open",
                                     status |-> my[f].status, at |-> my[f].at])
          /\ lost' = lost
       \/ items' = items /\ lost' = lost \cup {<<f, "item">>}
Completes(f) ==
    /\ pc[f] = "complete" /\ pc'[f] = "done" /\ my'[f] = my[f]
    /\ asked'[f] = asked[f] /\ UNCHANGED <<items, overlap>>
    /\ \/ row'[f].status = "completed" /\ row'[f].url = my[f].issue /\ lost' = lost
       \/ row'[f] = row[f] /\ lost' = lost \cup {<<f, "outcome">>}
Kinds(f) ==
    \/ Advances(f) \/ Skips(f) \/ PassesHour(f) \/ PassesActive(f)
    \/ Asks(f) \/ Persists(f) \/ Completes(f)

\* What can be lost; what a run's step leaves of the records.
LostSet == Runs \X {"pending", "running", "outcome", "item"}
Typed ==
    /\ pc' \in [Runs -> PcSet] /\ my' \in [Runs -> MySet] /\ row' \in [Runs -> RowSet]
    /\ started' \in [Runs -> 0..MaxTime] /\ asked' \in [Runs -> 0..MaxTime]
    /\ issues' \subseteq Runs /\ issues \subseteq issues' /\ lost' \subseteq LostSet

\* A run's step is one of those.
LEMMA RunSteps ==
  ASSUME Types, Holding, NEW f \in Runs, CheckRate(f) \/ Run(f)
  PROVE  Alone(f) /\ Kinds(f) /\ Typed /\ UNCHANGED <<assigned, linked, filling>>
<1>0. /\ pc \in [Runs -> PcSet] /\ my \in [Runs -> MySet] /\ row \in [Runs -> RowSet]
      /\ started \in [Runs -> 0..MaxTime] /\ asked \in [Runs -> 0..MaxTime]
      /\ issues \subseteq Runs /\ now \in 1..MaxTime /\ now \in 0..MaxTime /\ MaxTime \in Nat
      /\ 0 \in 0..MaxTime /\ lost \subseteq LostSet
  <2>1. MaxTime \in Nat
    BY AgentAssumption
  <2>2. /\ pc \in [Runs -> PcSet] /\ my \in [Runs -> MySet] /\ row \in [Runs -> RowSet]
        /\ started \in [Runs -> 0..MaxTime] /\ asked \in [Runs -> 0..MaxTime]
        /\ issues \subseteq Runs /\ now \in 1..MaxTime /\ lost \subseteq LostSet
    BY DEF Types, TypeOK, PcSet, MySet, RowSet, LostSet
  <2> QED
    BY <2>1, <2>2
<1> DEFINE World == UNCHANGED <<now, closed, assigned, linked, fresh, filling, dismissal>>
\* How the functions change at f.
<1>1. ASSUME NEW l \in PcSet, Goto(f, l)
      PROVE  pc' \in [Runs -> PcSet] /\ pc'[f] = l /\ \A g \in Runs : g # f => pc'[g] = pc[g]
  BY <1>0, <1>1 DEF Goto
<1>2. ASSUME NEW c \in MySet, my' = [my EXCEPT ![f] = c]
      PROVE  my' \in [Runs -> MySet] /\ my'[f] = c /\ \A g \in Runs : g # f => my'[g] = my[g]
  BY <1>0, <1>2
<1>3. ASSUME NEW w \in RowSet, row' = [row EXCEPT ![f] = w]
      PROVE  row' \in [Runs -> RowSet] /\ row'[f] = w /\ \A g \in Runs : g # f => row'[g] = row[g]
  BY <1>0, <1>3
<1>4. ASSUME NEW t \in Statuses, NEW u \in 0..MaxTime, Decide(f, t, u)
      PROVE  /\ my' \in [Runs -> MySet] /\ \A g \in Runs : g # f => my'[g] = my[g]
             /\ my'[f].issue = my[f].issue /\ my'[f].status = t /\ my'[f].at = u
  <2> DEFINE c == [my[f] EXCEPT !.status = t, !.at = u]
  <2>1. c \in MySet /\ c.issue = my[f].issue /\ c.status = t /\ c.at = u
    BY <1>0 DEF MySet
  <2>2. my' = [my EXCEPT ![f] = c]
    BY <1>4 DEF Decide
  <2> HIDE DEF c
  <2> QED
    BY <1>2, <2>1, <2>2
<1>5. ASSUME UNCHANGED my
      PROVE  my' \in [Runs -> MySet] /\ my'[f] = my[f] /\ \A g \in Runs : g # f => my'[g] = my[g]
  BY <1>0, <1>5
<1>6. ASSUME UNCHANGED row
      PROVE  row' \in [Runs -> RowSet] /\ row'[f] = row[f] /\ \A g \in Runs : g # f => row'[g] = row[g]
  BY <1>0, <1>6
<1>7. ASSUME UNCHANGED asked
      PROVE  asked' \in [Runs -> 0..MaxTime] /\ asked'[f] = asked[f]
             /\ \A g \in Runs : g # f => asked'[g] = asked[g]
  BY <1>0, <1>7
<1>8. ASSUME UNCHANGED started \/ ForgetStart(f) \/ started' = [started EXCEPT ![f] = now]
      PROVE  started' \in [Runs -> 0..MaxTime]
  BY <1>0, <1>8 DEF ForgetStart
<1>9. ASSUME NEW w \in {"pending", "running", "outcome", "item"}, lost' = lost \/ Loses(f, w)
      PROVE  lost' \subseteq LostSet /\ (lost' = lost \/ lost' = lost \cup {<<f, w>>})
  BY <1>0, <1>9 DEF Loses, LostSet
<1> DEFINE Goal == Alone(f) /\ Kinds(f) /\ Typed /\ UNCHANGED <<assigned, linked, filling>>
<1>10. ASSUME CheckRate(f) PROVE Goal
  <2>1. /\ pc[f] = "new" /\ World /\ UNCHANGED <<row, items, issues, asked, overlap, lost>>
    BY <1>10 DEF CheckRate, github, requests, backfill
  <2>2. PICK r \in Rules :
           IF RateLimited(r)
           THEN Goto(f, "limited") /\ UNCHANGED <<my, started>>
           ELSE /\ my' = [my EXCEPT ![f].rule = r]
                /\ started' = [started EXCEPT ![f] = now]
                /\ Goto(f, "pending")
    BY <1>10 DEF CheckRate
  <2>3. CASE Goto(f, "limited") /\ UNCHANGED <<my, started>>
    BY <1>0, <1>1, <1>5, <1>6, <1>7, <1>8, <2>1, <2>3 DEF Alone, Kinds, Advances, Losses, Typed, Before, PcSet
  <2>4. CASE /\ my' = [my EXCEPT ![f].rule = r]
             /\ started' = [started EXCEPT ![f] = now]
             /\ Goto(f, "pending")
    <3> DEFINE c == [my[f] EXCEPT !.rule = r]
    <3>1. c \in MySet /\ c.issue = my[f].issue
      BY <1>0 DEF MySet
    <3>2. my' = [my EXCEPT ![f] = c]
      BY <2>4
    <3> HIDE DEF c
    <3> QED
      BY <1>0, <1>1, <1>2, <1>6, <1>7, <1>8, <2>1, <2>4, <3>1, <3>2
         DEF Alone, Kinds, Advances, Losses, Typed, Before, PcSet
  <2> QED
    BY <2>2, <2>3, <2>4
<1>11. ASSUME InsertPending(f) \/ InsertRunning(f) PROVE Goal
  <2>1. /\ pc[f] \in {"pending", "running"} /\ World
        /\ UNCHANGED <<my, items, issues, started, asked, overlap>>
    BY <1>11 DEF InsertPending, InsertRunning, github, requests, backfill
  <2>2. PICK u \in {"pending", "running"}, w \in RowSet :
            /\ insertAgentRun(f, u, w) /\ w.url = None /\ w.status \in {"pending", "running"}
    <3>1. CASE InsertPending(f)
      <4>1. insertAgentRun(f, "pending", Whole(f, "pending"))
        BY <3>1 DEF InsertPending
      <4> QED
        BY <4>1, Rows
    <3>2. CASE InsertRunning(f)
      <4>1. insertAgentRun(f, "running", Partial("running", None))
        BY <3>2 DEF InsertRunning
      <4> QED
        BY <4>1, Rows
    <3> QED
      BY <1>11, <3>1, <3>2
  <2>3. PICK l \in {"running", "screen"} : Goto(f, l)
    BY <1>11 DEF InsertPending, InsertRunning
  <2>4. pc' \in [Runs -> PcSet] /\ pc'[f] \in {"running", "screen"}
        /\ \A g \in Runs : g # f => pc'[g] = pc[g]
    BY <1>1, <2>3 DEF PcSet
  <2>5. /\ row' \in [Runs -> RowSet] /\ \A g \in Runs : g # f => row'[g] = row[g]
        /\ row'[f] = row[f] \/ (row'[f].url = None /\ row'[f].status \in {"pending", "running"})
    BY <1>3, <1>6, <2>2 DEF insertAgentRun
  <2>6. lost' \subseteq LostSet /\ Losses(f, {"pending", "running"})
    BY <1>9, <2>2 DEF insertAgentRun, Losses
  <2> QED
    BY <1>0, <1>5, <1>7, <1>8, <2>1, <2>4, <2>5, <2>6 DEF Alone, Kinds, Advances, Typed, Before
<1>12. ASSUME Screen(f) PROVE Goal
  <2>1. /\ pc[f] = "screen" /\ World /\ ForgetStart(f)
        /\ UNCHANGED <<my, items, issues, asked, overlap>>
    BY <1>12 DEF Screen, github, requests, backfill
  <2>2. CASE Goto(f, "count") /\ UNCHANGED <<row, lost>>
    BY <1>0, <1>1, <1>5, <1>6, <1>7, <1>8, <2>1, <2>2
       DEF Alone, Kinds, Advances, Losses, Typed, Before, PcSet
  <2>3. CASE Goto(f, "complete") /\ UNCHANGED <<row, lost>>
    BY <1>0, <1>1, <1>5, <1>6, <1>7, <1>8, <2>1, <2>3 DEF Alone, Kinds, Skips, Typed, PcSet
  <2>4. ASSUME Goto(f, "done"), NEW w \in RowSet, insertAgentRun(f, "outcome", w), w.url = None,
               w.status \in Outcomes
        PROVE  Goal
    <3>1. CASE row' = [row EXCEPT ![f] = w] /\ UNCHANGED lost
      BY <1>0, <1>1, <1>3, <1>5, <1>7, <1>8, <2>1, <2>4, <3>1 DEF Alone, Kinds, Skips, Typed, PcSet
    <3>2. CASE UNCHANGED row /\ Loses(f, "outcome")
      <4>1. lost' \subseteq LostSet /\ lost' = lost \cup {<<f, "outcome">>}
        BY <1>9, <3>2 DEF Loses
      <4> QED
        BY <1>0, <1>1, <1>5, <1>6, <1>7, <1>8, <2>1, <2>4, <3>2, <4>1
           DEF Alone, Kinds, Skips, Typed, PcSet
    <3> QED
      BY <2>4, <3>1, <3>2 DEF insertAgentRun
  <2>5. \/ Goto(f, "count") /\ UNCHANGED <<row, lost>>
        \/ Goto(f, "complete") /\ UNCHANGED <<row, lost>>
        \/ /\ Goto(f, "done")
           /\ \E t \in {"blocked_by_guard", "completed"} :
                  insertAgentRun(f, "outcome", Partial(t, None))
        \/ Goto(f, "done") /\ insertAgentRun(f, "outcome", Whole(f, "failed"))
    BY <1>12 DEF Screen
  <2>6. CASE /\ Goto(f, "done")
             /\ \E t \in {"blocked_by_guard", "completed"} :
                    insertAgentRun(f, "outcome", Partial(t, None))
    <3>1. PICK t \in {"blocked_by_guard", "completed"} :
              insertAgentRun(f, "outcome", Partial(t, None))
      BY <2>6
    <3>2. /\ Partial(t, None) \in RowSet /\ Partial(t, None).url = None
          /\ Partial(t, None).status \in Outcomes
      BY Rows DEF Outcomes
    <3> QED
      BY <2>4, <2>6, <3>1, <3>2
  <2>7. CASE Goto(f, "done") /\ insertAgentRun(f, "outcome", Whole(f, "failed"))
    <3>1. /\ Whole(f, "failed") \in RowSet /\ Whole(f, "failed").url = None
          /\ Whole(f, "failed").status \in Outcomes
      BY Rows DEF Outcomes
    <3> QED
      BY <2>4, <2>7, <3>1
  <2> QED
    BY <2>2, <2>3, <2>5, <2>6, <2>7
<1>13. ASSUME CountIssues(f) PROVE Goal
  <2>1. /\ pc[f] = "count" /\ World /\ Goto(f, "look")
        /\ UNCHANGED <<row, items, issues, started, asked, overlap, lost>>
    BY <1>13 DEF CountIssues, github, requests, backfill, history
  <2> DEFINE b == countGithubIssuesLastHour < MaxIssues
             c == [my[f] EXCEPT !.allow = b]
  <2>2. my' = [my EXCEPT ![f] = c]
    BY <1>13 DEF CountIssues
  <2>4. b \in BOOLEAN
    OBVIOUS
  <2> HIDE DEF b
  <2>3. c \in MySet /\ c.issue = my[f].issue
    BY <1>0, <2>4 DEF MySet
  <2> HIDE DEF c
  <2> QED
    BY <1>0, <1>1, <1>2, <1>6, <1>7, <1>8, <2>1, <2>2, <2>3
       DEF Alone, Kinds, Advances, Losses, Typed, Before, PcSet
<1>14. ASSUME Look(f) PROVE Goal
  <2>1. /\ pc[f] = "look" /\ World
        /\ UNCHANGED <<row, items, issues, started, asked, overlap, lost>>
    BY <1>14 DEF Look, github, requests, backfill, history
  <2>2. CASE Goto(f, "create") /\ UNCHANGED my
    BY <1>0, <1>1, <1>5, <1>6, <1>7, <1>8, <2>1, <2>2
       DEF Alone, Kinds, Advances, Losses, Typed, Before, PcSet
  <2>3. CASE \E x \in issues \ closed :
              /\ my' = [my EXCEPT ![f].issue = x,
                          ![f].status = IF x \in assigned THEN "active" ELSE Recorded(x)]
              /\ Goto(f, "reuse")
    <3>1. PICK x \in issues \ closed :
              /\ my' = [my EXCEPT ![f].issue = x,
                          ![f].status = IF x \in assigned THEN "active" ELSE Recorded(x)]
              /\ Goto(f, "reuse")
      BY <2>3
    <3> DEFINE t == IF x \in assigned THEN "active" ELSE Recorded(x)
               c == [my[f] EXCEPT !.issue = x, !.status = t]
    <3>2. t \in Statuses
      BY RecordedStatus DEF Statuses, InProgress
    <3>3. my' = [my EXCEPT ![f] = c]
      BY <3>1
    <3> HIDE DEF t
    <3>4. c \in MySet
      <4>1. my[f] \in MySet /\ x \in Runs
        BY <1>0
      <4> QED
        BY <3>2, <4>1 DEF MySet
    <3> HIDE DEF c
    <3> QED
      BY <1>0, <1>1, <1>2, <1>6, <1>7, <1>8, <2>1, <3>1, <3>3, <3>4
         DEF Alone, Kinds, Advances, Losses, Typed, Before, PcSet
  <2> QED
    BY <1>14, <2>2, <2>3 DEF Look
<1>15. ASSUME Reuse(f) PROVE Goal
  <2>1. /\ pc[f] = "reuse" /\ World
        /\ UNCHANGED <<row, items, issues, started, asked, overlap, lost>>
    BY <1>15 DEF Reuse, github, requests, backfill, history
  <2>2. PICK l \in {"persist", "gateHour"} : Goto(f, l)
    BY <1>15 DEF Reuse
  <2>3. UNCHANGED my \/ Decide(f, "blocked", 0)
    BY <1>15 DEF Reuse
  <2>4. my' \in [Runs -> MySet] /\ \A g \in Runs : g # f => my'[g] = my[g]
    BY <1>0, <1>4, <1>5, <2>3 DEF Statuses
  <2> QED
    BY <1>0, <1>1, <1>6, <1>7, <1>8, <2>1, <2>2, <2>4
       DEF Alone, Kinds, Advances, Losses, Typed, Before, PcSet
<1>16. ASSUME Create(f) PROVE Goal
  <2>1. /\ pc[f] = "create" /\ World
        /\ UNCHANGED <<row, items, started, asked, overlap, lost>>
    BY <1>16 DEF Create, requests, backfill, history
  <2>2. issues' = issues \/ issues' = issues \cup {f}
    BY <1>16 DEF Create
  <2>3. PICK l \in {"persist", "gateHour"} : Goto(f, l)
    BY <1>16 DEF Create
  <2>4. \/ my' = [my EXCEPT ![f].issue = f]
        \/ \E t \in {"blocked", "not_requested"} : Decide(f, t, 0)
    BY <1>16 DEF Create
  <2>5. my' \in [Runs -> MySet] /\ \A g \in Runs : g # f => my'[g] = my[g]
    <3>1. CASE my' = [my EXCEPT ![f].issue = f]
      <4> DEFINE c == [my[f] EXCEPT !.issue = f]
      <4>1. c \in MySet
        BY <1>0 DEF MySet
      <4>2. my' = [my EXCEPT ![f] = c]
        BY <3>1
      <4> HIDE DEF c
      <4> QED
        BY <1>2, <4>1, <4>2
    <3>2. CASE \E t \in {"blocked", "not_requested"} : Decide(f, t, 0)
      BY <1>0, <1>4, <3>2 DEF Statuses
    <3> QED
      BY <2>4, <3>1, <3>2
  <2> QED
    BY <1>0, <1>1, <1>6, <1>7, <1>8, <2>1, <2>2, <2>3, <2>5
       DEF Alone, Kinds, Advances, Losses, Typed, Before, PcSet
<1>17. ASSUME GateHour(f) PROVE Goal
  <2>1. /\ pc[f] = "gateHour" /\ World /\ UNCHANGED <<row, items, issues, started, asked, lost>>
    BY <1>17 DEF GateHour, github, requests, backfill
  <2>2. CASE Goto(f, "persist") /\ Decide(f, "blocked", 0) /\ UNCHANGED overlap
    <3>1. my' \in [Runs -> MySet] /\ \A g \in Runs : g # f => my'[g] = my[g]
      BY <1>0, <1>4, <2>2 DEF Statuses
    <3> QED
      BY <1>0, <1>1, <1>6, <1>7, <1>8, <2>1, <2>2, <3>1
         DEF Alone, Kinds, Advances, Losses, Typed, Before, PcSet
  <2>3. CASE /\ Goto(f, "gateActive") /\ ~ countCopilotAssignmentsLastHour >= MaxPerHour
             /\ overlap' = overlap \cup {{f, g} : g \in Asking} /\ UNCHANGED my
    <3>1. countCopilotAssignmentsLastHour < MaxPerHour
      <4>1. IsFiniteSet({i \in DOMAIN items : items[i].at > 0 /\ items[i].at + Hour >= now})
        <5>1. DOMAIN items = 1..Len(items) /\ Len(items) \in Nat
          BY DEF Types
        <5>2. IsFiniteSet(1..Len(items))
          BY <5>1, FS_Interval
        <5> QED
          BY <5>1, <5>2, FS_Subset
      <4>2. countCopilotAssignmentsLastHour \in Nat /\ MaxPerHour \in Nat
        BY <4>1, FS_CardinalityType, AgentAssumption DEF countCopilotAssignmentsLastHour
      <4> QED
        BY <2>3, <4>2
    <3> QED
      BY <1>0, <1>1, <1>5, <1>6, <1>7, <1>8, <2>1, <2>3, <3>1
         DEF Alone, Kinds, PassesHour, Typed, PcSet
  <2> QED
    BY <1>17, <2>2, <2>3 DEF GateHour
<1>18. ASSUME GateActive(f) PROVE Goal
  <2>1. /\ pc[f] = "gateActive" /\ World /\ UNCHANGED <<row, items, issues, started, asked, overlap, lost>>
    BY <1>18 DEF GateActive, github, requests, backfill, history
  <2>2. CASE Goto(f, "persist") /\ Decide(f, "blocked", 0)
    <3>1. my' \in [Runs -> MySet] /\ \A g \in Runs : g # f => my'[g] = my[g]
      BY <1>0, <1>4, <2>2 DEF Statuses
    <3> QED
      BY <1>0, <1>1, <1>6, <1>7, <1>8, <2>1, <2>2, <3>1
         DEF Alone, Kinds, Advances, Losses, Typed, Before, PcSet
  <2>3. CASE /\ Goto(f, "assign") /\ ~ countActiveCopilotAssignments >= MaxActive /\ UNCHANGED my
    <3>1. countActiveCopilotAssignments < MaxActive
      <4>1. IsFiniteSet({i \in DOMAIN items : items[i].status \in {"requested", "active"}})
        <5>1. DOMAIN items = 1..Len(items) /\ Len(items) \in Nat
          BY DEF Types
        <5>2. IsFiniteSet(1..Len(items))
          BY <5>1, FS_Interval
        <5> QED
          BY <5>1, <5>2, FS_Subset
      <4>2. countActiveCopilotAssignments \in Nat /\ MaxActive \in Nat
        BY <4>1, FS_CardinalityType, AgentAssumption DEF countActiveCopilotAssignments
      <4> QED
        BY <2>3, <4>2
    <3> QED
      BY <1>0, <1>1, <1>5, <1>6, <1>7, <1>8, <2>1, <2>3, <3>1
         DEF Alone, Kinds, PassesActive, Typed, PcSet
  <2> QED
    BY <1>18, <2>2, <2>3 DEF GateActive
<1>19. ASSUME Assign(f) PROVE Goal
  <2>1. /\ pc[f] = "assign" /\ World /\ Goto(f, "persist")
        /\ UNCHANGED <<row, items, issues, started, overlap, lost>>
    BY <1>19 DEF Assign, github, requests, backfill
  <2>2. \/ Decide(f, "blocked", 0) /\ UNCHANGED asked
        \/ \E t \in {"failed", "requested"} :
               Decide(f, t, now) /\ asked' = [asked EXCEPT ![f] = now]
    BY <1>19 DEF Assign
  <2>3. /\ my' \in [Runs -> MySet] /\ \A g \in Runs : g # f => my'[g] = my[g]
        /\ my'[f].issue = my[f].issue
        /\ asked' \in [Runs -> 0..MaxTime] /\ \A g \in Runs : g # f => asked'[g] = asked[g]
        /\ asked'[f] = asked[f] \/ (asked'[f] = now /\ my'[f].at = now)
    BY <1>0, <1>4, <2>2 DEF Statuses, InProgress
  <2> QED
    BY <1>0, <1>1, <1>6, <1>8, <2>1, <2>3 DEF Alone, Kinds, Asks, Typed, PcSet
<1>20. ASSUME Persist(f) PROVE Goal
  <2> DEFINE w == [run |-> f, issue |-> my[f].issue, state |-> "open",
                   status |-> my[f].status, at |-> my[f].at]
  <2>1. /\ pc[f] = "persist" /\ World /\ Goto(f, "complete")
        /\ UNCHANGED <<my, row, issues, started, asked, overlap>>
    BY <1>20 DEF Persist, github, requests, backfill
  <2>2. (items' = Append(items, w) /\ lost' = lost) \/ (items' = items /\ Loses(f, "item"))
    BY <1>20 DEF Persist
  <2>3. /\ lost' \subseteq LostSet
        /\ \/ items' = Append(items, w) /\ lost' = lost
           \/ items' = items /\ lost' = lost \cup {<<f, "item">>}
    BY <1>9, <2>2 DEF Loses
  <2> QED
    BY <1>0, <1>1, <1>5, <1>6, <1>7, <1>8, <2>1, <2>3 DEF Alone, Kinds, Persists, Typed, PcSet
<1>21. ASSUME Complete(f) PROVE Goal
  <2> DEFINE w == Partial("completed", my[f].issue)
  <2>1. /\ pc[f] = "complete" /\ World /\ Goto(f, "done")
        /\ UNCHANGED <<my, items, issues, started, asked, overlap>>
        /\ insertAgentRun(f, "outcome", w)
    BY <1>21 DEF Complete, github, requests, backfill
  <2>2. my[f].issue \in Runs \cup {None}
    BY <1>0 DEF MySet
  <2>3. w \in RowSet /\ w.url = my[f].issue /\ w.status = "completed"
    BY <2>2, Rows
  <2> HIDE DEF w
  <2>4. CASE row' = [row EXCEPT ![f] = w] /\ UNCHANGED lost
    BY <1>0, <1>1, <1>3, <1>5, <1>7, <1>8, <2>1, <2>3, <2>4 DEF Alone, Kinds, Completes, Typed, PcSet
  <2>5. CASE UNCHANGED row /\ Loses(f, "outcome")
    <3>1. lost' \subseteq LostSet /\ lost' = lost \cup {<<f, "outcome">>}
      BY <1>9, <2>5 DEF Loses
    <3> QED
      BY <1>0, <1>1, <1>5, <1>6, <1>7, <1>8, <2>1, <2>5, <3>1
         DEF Alone, Kinds, Completes, Typed, PcSet
  <2> QED
    BY <2>1, <2>4, <2>5 DEF insertAgentRun
<1> QED
  BY <1>10, <1>11, <1>12, <1>13, <1>14, <1>15, <1>16, <1>17, <1>18, <1>19, <1>20, <1>21 DEF Run

-----------------------------------------------------------------------------
(* The other steps, told by their effect.                                  *)

\* Nothing of the runs and of what they left moves.
Unmoved == UNCHANGED <<now, pc, my, closed, asked, overlap, lost>>

Closes ==
    /\ closed \subseteq closed'
    /\ UNCHANGED <<now, pc, my, row, items, fresh, dismissal, asked, overlap, lost>>
Ticks ==
    /\ now' = now + 1
    /\ UNCHANGED <<pc, my, row, items, closed, fresh, dismissal, asked, overlap, lost>>
Dies ==
    /\ \A f \in Runs :
           /\ pc'[f] = IF pc[f] \in {"new", "limited", "done"} THEN pc[f] ELSE "dead"
           /\ dismissal'[f].row = dismissal[f].row /\ dismissal'[f].over = dismissal[f].over
           /\ dismissal'[f].at = IF dismissal[f].at = "write" THEN "failed" ELSE dismissal[f].at
    /\ fresh' = <<>>
    /\ UNCHANGED <<now, my, row, items, closed, asked, overlap, lost>>
Fills ==
    /\ Unmoved /\ UNCHANGED <<row, items, dismissal>>
    /\ DOMAIN fresh' \subseteq DOMAIN items
    /\ \A i \in DOMAIN fresh' :
           /\ fresh'[i] \in ItemSet
           /\ fresh'[i].run = items[i].run /\ fresh'[i].issue = items[i].issue
           /\ fresh'[i].at = items[i].at
           /\ items[i].status \in InProgress /\ items[i].issue \notin closed
                  => fresh'[i].status \in InProgress
Filled ==
    /\ Unmoved /\ UNCHANGED <<row, dismissal>> /\ fresh' = <<>>
    /\ items' = [i \in DOMAIN items |-> IF i \in DOMAIN fresh THEN fresh[i] ELSE items[i]]
Reads(f) ==
    /\ dismissal[f].at = "none" /\ dismissal'[f].at = "write" /\ dismissal'[f].row = row[f]
    /\ dismissal'[f].over = (pc[f] = "done") /\ UNCHANGED row
Marks(f) ==
    /\ dismissal[f].at = "write" /\ row'[f] = DismissedRow(dismissal[f].row)
    /\ \A g \in Runs : g # f => row'[g] = row[g]
    /\ dismissal'[f].row = dismissal[f].row /\ dismissal'[f].over = dismissal[f].over
    /\ dismissal'[f].at = IF pc[f] = "done" /\ ~ dismissal[f].over THEN "late" ELSE "done"
FailsToMark(f) ==
    /\ dismissal[f].at = "write" /\ dismissal'[f].at = "failed" /\ UNCHANGED row
    /\ dismissal'[f].row = dismissal[f].row /\ dismissal'[f].over = dismissal[f].over
Dismisses(f) ==
    /\ f \in Runs /\ Unmoved /\ UNCHANGED <<items, fresh>>
    /\ \A g \in Runs : g # f => dismissal'[g] = dismissal[g]
    /\ Reads(f) \/ Marks(f) \/ FailsToMark(f)

Moves ==
    \/ \E f \in Runs : Alone(f) /\ Kinds(f)
    \/ Closes \/ Ticks \/ Dies \/ Fills \/ Filled
    \/ \E f \in Runs : Dismisses(f)

\* The table of the work items after a backfill, and after a run's step.
LEMMA ItemsTyped ==
  ASSUME Types
  PROVE  /\ DOMAIN items = 1..Len(items) /\ Len(items) \in Nat
         /\ \A i \in DOMAIN items : items[i] \in ItemSet
         /\ \A w \in ItemSet : /\ w.run \in Runs /\ w.issue \in Runs \cup {None}
                               /\ w.status \in Statuses /\ w.at \in 0..MaxTime
                               /\ w.state \in {"open", "closed"}
<1>1. items \in Seq(ItemSet)
  BY DEF Types
<1>2. /\ DOMAIN items = 1..Len(items) /\ Len(items) \in Nat
      /\ \A i \in DOMAIN items : items[i] \in ItemSet
  BY <1>1
<1>3. \A w \in ItemSet : /\ w.run \in Runs /\ w.issue \in Runs \cup {None}
                         /\ w.status \in Statuses /\ w.at \in 0..MaxTime
                         /\ w.state \in {"open", "closed"}
  BY DEF ItemSet
<1> QED
  BY <1>2, <1>3

\* What another run has lost is not touched by a step of run f.
LEMMA OthersLose ==
  ASSUME NEW f \in Runs, Kinds(f), NEW g \in Runs, g # f
  PROVE  /\ (<<g, "item">> \in lost') <=> (<<g, "item">> \in lost)
         /\ (<<g, "outcome">> \in lost') <=> (<<g, "outcome">> \in lost)
<1>1. lost' = lost \/ \E w : lost' = lost \cup {<<f, w>>}
  BY DEF Kinds, Advances, Losses, Skips, PassesHour, PassesActive, Asks, Persists, Completes
<1> QED
  BY <1>1

\* What is lost stays so.
LEMMA LostStay ==
  ASSUME Moves
  PROVE  /\ lost \subseteq lost'
         /\ \A f \in Runs : /\ ItemLost(f) => ItemLost(f)'
                           /\ OutcomeLost(f) => OutcomeLost(f)'
<1>1. lost \subseteq lost'
  BY DEF Moves, Kinds, Advances, Losses, Skips, PassesHour, PassesActive, Asks, Persists, Completes,
     Closes, Ticks, Dies, Fills, Filled, Dismisses, Unmoved
<1> QED
  BY <1>1 DEF ItemLost, OutcomeLost
\* A run's step loses nothing of another's; its work item it loses only in place
\* of the insert, and its outcome where it ends.
LEMMA LostAlone ==
  ASSUME NEW f \in Runs, Kinds(f)
  PROVE  /\ \A g \in Runs : g # f => /\ ItemLost(g)' <=> ItemLost(g)
                                    /\ OutcomeLost(g)' <=> OutcomeLost(g)
         /\ Persists(f) \/ (ItemLost(f)' <=> ItemLost(f))
         /\ Skips(f) \/ Completes(f) \/ (OutcomeLost(f)' <=> OutcomeLost(f))
<1>1. lost' = lost \/ \E w : lost' = lost \cup {<<f, w>>}
  BY DEF Kinds, Advances, Losses, Skips, PassesHour, PassesActive, Asks, Persists, Completes
<1>2. \A g \in Runs : g # f => /\ ItemLost(g)' <=> ItemLost(g)
                               /\ OutcomeLost(g)' <=> OutcomeLost(g)
  BY <1>1 DEF ItemLost, OutcomeLost
<1>3. CASE lost' = lost
  BY <1>2, <1>3 DEF ItemLost, OutcomeLost
<1>4. CASE Advances(f) /\ \E w \in {"pending", "running"} : lost' = lost \cup {<<f, w>>}
  <2>1. (ItemLost(f)' <=> ItemLost(f)) /\ (OutcomeLost(f)' <=> OutcomeLost(f))
    BY <1>4 DEF ItemLost, OutcomeLost
  <2> QED
    BY <1>2, <2>1
<1>5. CASE (Skips(f) \/ Completes(f)) /\ lost' = lost \cup {<<f, "outcome">>}
  BY <1>2, <1>5 DEF ItemLost
<1>6. CASE Persists(f) /\ lost' = lost \cup {<<f, "item">>}
  BY <1>2, <1>6 DEF OutcomeLost
<1> QED
  BY <1>3, <1>4, <1>5, <1>6 DEF Kinds, Advances, Losses, Skips, PassesHour, PassesActive, Asks,
     Persists, Completes

\* A run's step leaves the types.
LEMMA RunTypes ==
  ASSUME Types, Holding, NEW f \in Runs, CheckRate(f) \/ Run(f)
  PROVE  Types'
<1>1. Alone(f) /\ Kinds(f) /\ Typed /\ UNCHANGED <<assigned, linked, filling>>
  BY RunSteps
<1>2. /\ now' = now /\ closed' = closed /\ fresh' = fresh /\ dismissal' = dismissal
      /\ assigned' = assigned /\ linked' = linked /\ filling' = filling
  BY <1>1 DEF Alone
<1>3. /\ now' \in 1..MaxTime /\ filling' \in BOOLEAN
      /\ \A g \in Runs : dismissal'[g].at \in {"none", "write", "done", "late", "failed"}
      /\ UNION {closed', assigned', linked'} \subseteq issues' /\ issues' \subseteq Runs
      /\ dismissal' \in [Runs -> DismissalSet] /\ lost' \subseteq LostSet
  BY <1>1, <1>2 DEF Types, TypeOK, Typed, DismissalSet
<1>4. /\ pc' \in [Runs -> PcSet] /\ my' \in [Runs -> MySet] /\ row' \in [Runs -> RowSet]
      /\ started' \in [Runs -> 0..MaxTime] /\ asked' \in [Runs -> 0..MaxTime]
  BY <1>1 DEF Typed
<1>5. items \in Seq(ItemSet) /\ \A i \in DOMAIN fresh : fresh[i] \in ItemSet /\ i \in DOMAIN items
  BY DEF Types, TypeOK
<1>6. /\ items' \in Seq(ItemSet) /\ DOMAIN fresh' \subseteq DOMAIN items'
      /\ \A i \in DOMAIN fresh' : fresh'[i] \in ItemSet
  <2>1. CASE UNCHANGED items
    BY <1>2, <1>5, <2>1
  <2>2. CASE Persists(f) /\ items' # items
    <3> DEFINE w == [run |-> f, issue |-> my[f].issue, state |-> "open",
                     status |-> my[f].status, at |-> my[f].at]
    <3>1. my[f] \in MySet
      BY DEF Types, TypeOK, MySet
    <3>2. w \in ItemSet
      BY <3>1 DEF MySet, ItemSet
    <3>3. items' = Append(items, w)
      BY <2>2 DEF Persists
    <3> HIDE DEF w
    <3>4. items' \in Seq(ItemSet) /\ DOMAIN items \subseteq DOMAIN items'
      BY <1>5, <3>2, <3>3
    <3> QED
      BY <1>2, <1>5, <3>4
  <2> QED
    BY <1>1, <2>1, <2>2 DEF Kinds, Advances, Skips, PassesHour, PassesActive, Asks, Completes
<1>7. \A i \in DOMAIN items' : items'[i] \in ItemSet
  BY <1>6
<1> QED
  BY <1>3, <1>4, <1>6, <1>7
     DEF Types, TypeOK, PcSet, MySet, RowSet, ItemSet, DismissalSet, LostSet

\* The steps of backfills, dismissals and the world, and what they leave.
LEMMA StartFills ==
  ASSUME Types, StartBackfill
  PROVE  Fills /\ Types'
<1> DEFINE wanted == {i \in DOMAIN items :
                         /\ items[i].issue # None
                         /\ items[i].state = "open" \/ items[i].status \in InProgress}
           refreshed(i) == [items[i] EXCEPT
               !.state = IF items[i].issue \in closed THEN "closed" ELSE @,
               !.status = deriveCopilotAssignmentStatus(@, items[i].issue)]
<1>1. PICK S \in SUBSET wanted : fresh' = [i \in S |-> refreshed(i)]
  BY DEF StartBackfill
<1>2. filling' = TRUE /\ UNCHANGED <<now, pc, my, row, items, github, dismissal, history>>
  BY DEF StartBackfill
<1>3. \A i \in DOMAIN items :
          /\ refreshed(i) \in ItemSet
          /\ refreshed(i).run = items[i].run /\ refreshed(i).issue = items[i].issue
          /\ refreshed(i).at = items[i].at
          /\ items[i].status \in InProgress /\ items[i].issue \notin closed
                 => refreshed(i).status \in InProgress
  <2> SUFFICES ASSUME NEW i \in DOMAIN items
               PROVE  /\ refreshed(i) \in ItemSet
                      /\ refreshed(i).run = items[i].run /\ refreshed(i).issue = items[i].issue
                      /\ refreshed(i).at = items[i].at
                      /\ items[i].status \in InProgress /\ items[i].issue \notin closed
                             => refreshed(i).status \in InProgress
    OBVIOUS
  <2> DEFINE t == deriveCopilotAssignmentStatus(items[i].status, items[i].issue)
  <2>1. items[i] \in ItemSet /\ items[i].status \in Statuses
    BY ItemsTyped
  <2>2. /\ t \in Statuses
        /\ items[i].status \in InProgress /\ items[i].issue \notin closed => t \in InProgress
    BY <2>1, Derived
  <2>3. refreshed(i) = [items[i] EXCEPT
               !.state = IF items[i].issue \in closed THEN "closed" ELSE @, !.status = t]
    BY <2>1 DEF ItemSet
  <2> HIDE DEF t, refreshed
  <2> QED
    BY <2>1, <2>2, <2>3 DEF ItemSet
<1> HIDE DEF refreshed
<1>4. DOMAIN fresh' \subseteq DOMAIN items /\ \A i \in DOMAIN fresh' : fresh'[i] = refreshed(i)
  BY <1>1
<1>5. Fills
  BY <1>2, <1>3, <1>4 DEF Fills, Unmoved, github, history
<1>6. /\ now' = now /\ pc' = pc /\ my' = my /\ row' = row /\ items' = items /\ issues' = issues
      /\ closed' = closed /\ assigned' = assigned /\ linked' = linked /\ dismissal' = dismissal
      /\ started' = started /\ asked' = asked /\ filling' \in BOOLEAN /\ lost' = lost
  BY <1>2 DEF github, history
<1>7. DOMAIN fresh' \subseteq DOMAIN items' /\ \A i \in DOMAIN fresh' : fresh'[i] \in ItemSet
  BY <1>3, <1>4, <1>6
<1>8. Types'
  BY <1>6, <1>7 DEF Types, TypeOK
<1> QED
  BY <1>5, <1>8

\* The rows of a backfill are inserted.
LEMMA EndFills ==
  ASSUME Types, EndBackfill
  PROVE  Filled /\ Types'
<1>1. /\ now' = now /\ pc' = pc /\ my' = my /\ row' = row /\ issues' = issues
      /\ closed' = closed /\ assigned' = assigned /\ linked' = linked /\ dismissal' = dismissal
      /\ started' = started /\ asked' = asked /\ overlap' = overlap /\ filling' = FALSE
      /\ fresh' = <<>> /\ lost' = lost
      /\ items' = [i \in DOMAIN items |-> IF i \in DOMAIN fresh THEN fresh[i] ELSE items[i]]
  BY DEF EndBackfill, github, history
<1>2. Filled
  BY <1>1 DEF Filled, Unmoved
<1>3. /\ items' = [i \in 1..Len(items) |-> IF i \in DOMAIN fresh THEN fresh[i] ELSE items[i]]
      /\ Len(items) \in Nat
      /\ \A i \in 1..Len(items) : (IF i \in DOMAIN fresh THEN fresh[i] ELSE items[i]) \in ItemSet
  BY <1>1, ItemsTyped DEF Types
<1>4. items' \in Seq(ItemSet)
  BY <1>3
<1>5. \A i \in DOMAIN items' : items'[i] \in ItemSet
  BY <1>4
<1>6. DOMAIN fresh' = {}
  BY <1>1
<1>7. Types'
  BY <1>1, <1>4, <1>5, <1>6 DEF Types, TypeOK, ItemSet
<1> QED
  BY <1>2, <1>7

\* A dismissal reads the row, and marks it.
LEMMA DismissalSteps ==
  ASSUME Types, NEW f \in Runs, ReadDismissed(f) \/ handleAgentRunSub(f)
  PROVE  Dismisses(f) /\ Types'
<1>1. /\ now' = now /\ pc' = pc /\ my' = my /\ items' = items /\ issues' = issues
      /\ closed' = closed /\ assigned' = assigned /\ linked' = linked /\ fresh' = fresh
      /\ started' = started /\ asked' = asked /\ overlap' = overlap /\ filling' = filling
      /\ lost' = lost
  BY DEF ReadDismissed, handleAgentRunSub, github, history, backfill
<1>2. dismissal \in [Runs -> DismissalSet] /\ row \in [Runs -> RowSet]
  BY DEF Types, TypeOK, DismissalSet, RowSet
<1>3. ASSUME NEW d \in DismissalSet, dismissal' = [dismissal EXCEPT ![f] = d]
      PROVE  /\ dismissal' \in [Runs -> DismissalSet] /\ dismissal'[f] = d
             /\ \A g \in Runs : g # f => dismissal'[g] = dismissal[g]
  BY <1>2, <1>3
<1> DEFINE Goal == /\ Dismisses(f) /\ dismissal' \in [Runs -> DismissalSet]
                   /\ row' \in [Runs -> RowSet]
<1>4. ASSUME ReadDismissed(f) PROVE Goal
  <2> DEFINE b == pc[f] = "done"
             d == [at |-> "write", row |-> row[f], over |-> b]
  <2>1. dismissal[f].at = "none" /\ dismissal' = [dismissal EXCEPT ![f] = d] /\ row' = row
    BY <1>4 DEF ReadDismissed
  <2>2. b \in BOOLEAN
    OBVIOUS
  <2>3. b = (pc[f] = "done")
    OBVIOUS
  <2> HIDE DEF b
  <2>4. d \in DismissalSet /\ d.at = "write" /\ d.row = row[f] /\ d.over = b
    BY <1>2, <2>2 DEF DismissalSet
  <2> HIDE DEF d
  <2>5. /\ dismissal' \in [Runs -> DismissalSet] /\ dismissal'[f] = d
        /\ \A g \in Runs : g # f => dismissal'[g] = dismissal[g]
    BY <1>3, <2>1, <2>4
  <2>6. Reads(f)
    BY <2>1, <2>3, <2>4, <2>5, Zenon DEF Reads
  <2> QED
    BY <1>1, <1>2, <2>1, <2>5, <2>6 DEF Dismisses, Unmoved
<1>5. ASSUME handleAgentRunSub(f) PROVE Goal
  <2>1. dismissal[f] \in DismissalSet /\ dismissal[f].at = "write" /\ dismissal[f].row \in RowSet
    BY <1>2, <1>5 DEF handleAgentRunSub, DismissalSet
  <2>2. ASSUME NEW a \in {"late", "done", "failed"},
               dismissal' = [dismissal EXCEPT ![f].at = a]
        PROVE  /\ dismissal' \in [Runs -> DismissalSet] /\ dismissal'[f].at = a
               /\ dismissal'[f].row = dismissal[f].row /\ dismissal'[f].over = dismissal[f].over
               /\ \A g \in Runs : g # f => dismissal'[g] = dismissal[g]
    <3> DEFINE d == [dismissal[f] EXCEPT !.at = a]
    <3>1. d \in DismissalSet /\ d.at = a /\ d.row = dismissal[f].row /\ d.over = dismissal[f].over
      BY <2>1 DEF DismissalSet
    <3>2. dismissal' = [dismissal EXCEPT ![f] = d]
      BY <2>2
    <3> HIDE DEF d
    <3> QED
      BY <1>3, <3>1, <3>2
  <2> DEFINE a == IF pc[f] = "done" /\ ~ dismissal[f].over THEN "late" ELSE "done"
  <2>3. CASE /\ row' = [row EXCEPT ![f] = DismissedRow(dismissal[f].row)]
             /\ dismissal' = [dismissal EXCEPT ![f].at = a]
    <3>1. a \in {"late", "done", "failed"}
      OBVIOUS
    <3>2. DismissedRow(dismissal[f].row) \in RowSet
      BY <2>1, Rows
    <3> DEFINE w == DismissedRow(dismissal[f].row)
    <3>3. w \in RowSet /\ row' = [row EXCEPT ![f] = w]
      BY <2>3, <3>2
    <3> HIDE DEF w
    <3>4. row' \in [Runs -> RowSet] /\ row'[f] = w /\ \A g \in Runs : g # f => row'[g] = row[g]
      BY <1>2, <3>3
    <3>5. dismissal'[f].at = a /\ dismissal' \in [Runs -> DismissalSet]
          /\ dismissal'[f].row = dismissal[f].row /\ dismissal'[f].over = dismissal[f].over
          /\ \A g \in Runs : g # f => dismissal'[g] = dismissal[g]
      BY <2>2, <2>3, <3>1
    <3>6. Marks(f)
      BY <2>1, <3>4, <3>5 DEF Marks, w
    <3> QED
      BY <1>1, <3>4, <3>5, <3>6 DEF Dismisses, Unmoved
  <2>4. CASE row' = row /\ dismissal' = [dismissal EXCEPT ![f].at = "failed"]
    <3>1. dismissal'[f].at = "failed" /\ dismissal' \in [Runs -> DismissalSet]
          /\ dismissal'[f].row = dismissal[f].row /\ dismissal'[f].over = dismissal[f].over
          /\ \A g \in Runs : g # f => dismissal'[g] = dismissal[g]
      BY <2>2, <2>4
    <3>2. FailsToMark(f)
      BY <2>1, <2>4, <3>1 DEF FailsToMark
    <3> QED
      BY <1>1, <1>2, <2>4, <3>1, <3>2 DEF Dismisses, Unmoved
  <2> QED
    BY <1>5, <2>3, <2>4 DEF handleAgentRunSub
<1>6. Goal
  BY <1>4, <1>5
<1>7. /\ \A g \in Runs : dismissal'[g].at \in {"none", "write", "done", "late", "failed"}
      /\ dismissal' \in [Runs -> [at : {"none", "write", "done", "late", "failed"},
                                  row : RowSet, over : BOOLEAN]]
  BY <1>6 DEF DismissalSet
<1>8. Types'
  BY <1>1, <1>6, <1>7 DEF Types, TypeOK, RowSet
<1> QED
  BY <1>6, <1>8

\* The process dies.
LEMMA CrashDies ==
  ASSUME Types, Crash
  PROVE  Dies /\ Types'
<1>1. /\ now' = now /\ my' = my /\ row' = row /\ items' = items /\ issues' = issues
      /\ closed' = closed /\ assigned' = assigned /\ linked' = linked /\ fresh' = <<>>
      /\ started' = started /\ asked' = asked /\ overlap' = overlap /\ filling' = FALSE
      /\ lost' = lost
      /\ pc' = [f \in Runs |-> IF pc[f] \in {"new", "limited", "done"} THEN pc[f] ELSE "dead"]
      /\ dismissal' = [f \in Runs |-> IF dismissal[f].at = "write"
                                      THEN [dismissal[f] EXCEPT !.at = "failed"] ELSE dismissal[f]]
  BY DEF Crash, github, history
<1>2. pc \in [Runs -> PcSet] /\ dismissal \in [Runs -> DismissalSet]
  BY DEF Types, TypeOK, DismissalSet, PcSet
<1>3. \A d \in DismissalSet :
          LET e == [d EXCEPT !.at = "failed"] IN
          e \in DismissalSet /\ e.at = "failed" /\ e.row = d.row /\ e.over = d.over
  BY DEF DismissalSet
<1>4. \A f \in Runs :
          /\ dismissal'[f] \in DismissalSet
          /\ dismissal'[f].row = dismissal[f].row /\ dismissal'[f].over = dismissal[f].over
          /\ dismissal'[f].at = IF dismissal[f].at = "write" THEN "failed" ELSE dismissal[f].at
  BY <1>1, <1>2, <1>3
<1>5. pc' \in [Runs -> PcSet]
  BY <1>1, <1>2 DEF PcSet
<1>6. Dies
  BY <1>1, <1>4 DEF Dies
<1>7. /\ \A g \in Runs : dismissal'[g].at \in {"none", "write", "done", "late", "failed"}
      /\ dismissal' \in [Runs -> [at : {"none", "write", "done", "late", "failed"},
                                  row : RowSet, over : BOOLEAN]]
  BY <1>1, <1>4 DEF DismissalSet
<1>8. DOMAIN fresh' = {}
  BY <1>1
<1>9. Types'
  BY <1>1, <1>5, <1>7, <1>8 DEF Types, TypeOK, PcSet
<1> QED
  BY <1>6, <1>9

\* Every step is one of those, and leaves the types.
LEMMA Steps ==
  ASSUME Types, Holding, [Next]_vars
  PROVE  Moves /\ Types'
<1>1. CASE UNCHANGED vars
  <2>1. /\ now' = now /\ pc' = pc /\ my' = my /\ row' = row /\ items' = items /\ issues' = issues
        /\ closed' = closed /\ assigned' = assigned /\ linked' = linked /\ fresh' = fresh
        /\ filling' = filling /\ dismissal' = dismissal
        /\ started' = started /\ asked' = asked /\ overlap' = overlap /\ lost' = lost
    BY <1>1 DEF vars, github, requests, backfill, history
  <2> QED
    BY <2>1 DEF Moves, Closes, Types, TypeOK
<1>2. ASSUME NEW f \in Runs, CheckRate(f) \/ Run(f) PROVE Moves /\ Types'
  BY <1>2, RunSteps, RunTypes DEF Moves
<1>3. ASSUME NEW f \in Runs, ReadDismissed(f) \/ handleAgentRunSub(f) PROVE Moves /\ Types'
  BY <1>3, DismissalSteps DEF Moves
<1>4. CASE StartBackfill
  BY <1>4, StartFills DEF Moves
<1>5. CASE EndBackfill
  BY <1>5, EndFills DEF Moves
<1>6. ASSUME NEW x \in Runs, Close(x) \/ ShowAssignee(x) \/ LinkPullRequest(x)
      PROVE  Moves /\ Types'
  <2>1. /\ now' = now /\ pc' = pc /\ my' = my /\ row' = row /\ items' = items /\ issues' = issues
        /\ closed \subseteq closed' /\ fresh' = fresh /\ filling' = filling
        /\ dismissal' = dismissal /\ started' = started /\ asked' = asked /\ overlap' = overlap /\ lost' = lost
        /\ UNION {closed', assigned', linked'} \subseteq issues'
    BY <1>6 DEF Close, ShowAssignee, LinkPullRequest, requests, backfill, history, Types, TypeOK
  <2> QED
    BY <2>1 DEF Moves, Closes, Types, TypeOK
<1>7. CASE Tick
  <2>1. /\ now' = now + 1 /\ now < MaxTime
        /\ pc' = pc /\ my' = my /\ row' = row /\ items' = items /\ issues' = issues
        /\ closed' = closed /\ assigned' = assigned /\ linked' = linked /\ fresh' = fresh
        /\ filling' = filling /\ dismissal' = dismissal
        /\ started' = started /\ asked' = asked /\ overlap' = overlap /\ lost' = lost
    BY <1>7 DEF Tick, github, requests, backfill, history
  <2>2. now' \in 1..MaxTime
    BY <2>1, AgentAssumption DEF Types, TypeOK
  <2> QED
    BY <2>1, <2>2 DEF Moves, Ticks, Types, TypeOK
<1>8. CASE Crash
  BY <1>8, CrashDies DEF Moves
<1> QED
  BY <1>1, <1>2, <1>3, <1>4, <1>5, <1>6, <1>7, <1>8 DEF Next

-----------------------------------------------------------------------------
(* What each step keeps of the invariant.                                  *)

\* What the proofs need of the types.
LEMMA Basics ==
  ASSUME Types
  PROVE  /\ now \in Nat /\ Hour \in Nat /\ MaxPerHour \in Nat /\ MaxActive \in Nat
         /\ IsFiniteSet(Runs) /\ None \notin Runs
         /\ \A f \in Runs : /\ asked[f] \in Nat /\ pc[f] \in PcSet /\ my[f].at \in Nat
                            /\ my[f].issue \in Runs \cup {None}
         /\ DOMAIN fresh \subseteq DOMAIN items
<1>1. \A f \in Runs : my[f] \in MySet
  BY DEF Types, TypeOK, MySet
<1>2. \A m \in MySet : m.at \in Nat /\ m.issue \in Runs \cup {None}
  BY AgentAssumption DEF MySet
<1> QED
  BY <1>1, <1>2, AgentAssumption DEF Types, TypeOK, PcSet

\* The rows of work items stay, but for what a backfill looked up.
LEMMA ItemsStay ==
  ASSUME Types, Refreshed, Moves
  PROVE  /\ DOMAIN items \subseteq DOMAIN items'
         /\ \A i \in DOMAIN items :
                /\ items'[i].run = items[i].run /\ items'[i].issue = items[i].issue
                /\ items'[i].at = items[i].at
                /\ items[i].status \in InProgress /\ items[i].issue \notin closed
                       => items'[i].status \in InProgress
<1>1. CASE UNCHANGED items
  BY <1>1
<1>2. CASE items' # items /\ \E f \in Runs : Alone(f) /\ Persists(f)
  <2>1. PICK f \in Runs : Persists(f)
    BY <1>2
  <2> DEFINE w == [run |-> f, issue |-> my[f].issue, state |-> "open",
                   status |-> my[f].status, at |-> my[f].at]
  <2>2. items' = Append(items, w) /\ items \in Seq(ItemSet)
    BY <1>2, <2>1 DEF Persists, Types
  <2> HIDE DEF w
  <2>3. DOMAIN items \subseteq DOMAIN items' /\ \A i \in DOMAIN items : items'[i] = items[i]
    BY <2>2
  <2> QED
    BY <2>3
<1>3. CASE Filled
  <2>1. DOMAIN items' = DOMAIN items
        /\ \A i \in DOMAIN items : items'[i] = IF i \in DOMAIN fresh THEN fresh[i] ELSE items[i]
    BY <1>3 DEF Filled
  <2> QED
    BY <2>1 DEF Refreshed
<1> QED
  BY <1>1, <1>2, <1>3 DEF Moves, Kinds, Advances, Skips, PassesHour, PassesActive, Asks, Completes,
     Closes, Ticks, Dies, Fills, Dismisses

\* Issues stay closed, and what a run holds stays while it has its outcome.
LEMMA RunsStay ==
  ASSUME Types, Moves
  PROVE  /\ closed \subseteq closed' /\ overlap \subseteq overlap'
         /\ \A f \in Runs : pc[f] \in {"complete", "done"} =>
                my'[f] = my[f] /\ asked'[f] = asked[f]
  BY DEF Moves, Alone, Kinds, Advances, Skips, PassesHour, PassesActive, Asks, Persists, Completes,
     Closes, Ticks, Dies, Fills, Filled, Dismisses, Unmoved

\* Holding is kept.
LEMMA HoldingStep ==
  ASSUME Types, Holding, Moves
  PROVE  Holding'
<1>0. now \in Nat /\ \A f \in Runs : asked[f] \in Nat
  BY Basics
<1>1. ASSUME NEW f \in Runs, Alone(f), Kinds(f) PROVE Holding'
  <2>1. now' = now /\ \A g \in Runs : g # f => pc'[g] = pc[g] /\ my'[g] = my[g] /\ asked'[g] = asked[g]
    BY <1>1 DEF Alone
  <2>2. /\ pc'[f] \in Before => my'[f].issue = None
        /\ asked'[f] <= now
        /\ pc'[f] \notin {"persist", "complete", "done", "dead"} => asked'[f] = 0
        /\ pc'[f] = "persist" /\ asked'[f] > 0 => my'[f].at = asked'[f]
    <3>1. CASE Advances(f)
      <4>1. asked'[f] = 0
        BY <1>0, <3>1 DEF Holding, Advances
      <4>2. pc'[f] \in Before => my'[f].issue = None
        BY <3>1 DEF Holding, Advances, Before
      <4> QED
        BY <1>0, <4>1, <4>2
    <3>2. CASE Skips(f)
      BY <1>0, <3>2 DEF Holding, Skips, Before
    <3>3. CASE PassesHour(f) \/ PassesActive(f)
      BY <1>0, <3>3 DEF Holding, PassesHour, PassesActive, Before
    <3>4. CASE Asks(f)
      BY <1>0, <3>4 DEF Holding, Asks, Before
    <3>5. CASE Persists(f) \/ Completes(f)
      BY <1>0, <3>5 DEF Holding, Persists, Completes, Before
    <3> QED
      BY <1>1, <3>1, <3>2, <3>3, <3>4, <3>5 DEF Kinds
  <2>3. \A g \in Runs : g # f =>
           /\ pc'[g] \in Before => my'[g].issue = None
           /\ asked'[g] <= now
           /\ pc'[g] \notin {"persist", "complete", "done", "dead"} => asked'[g] = 0
           /\ pc'[g] = "persist" /\ asked'[g] > 0 => my'[g].at = asked'[g]
    BY <2>1 DEF Holding, Before
  <2> QED
    BY <2>1, <2>2, <2>3 DEF Holding, Before
<1>2. CASE \/ Closes \/ Fills \/ Filled \/ \E f \in Runs : Dismisses(f)
  BY <1>2 DEF Closes, Fills, Filled, Dismisses, Unmoved, Holding
<1>3. CASE Ticks
  BY <1>0, <1>3 DEF Ticks, Holding
<1>4. CASE Dies
  BY <1>0, <1>4 DEF Dies, Holding
<1> QED
  BY <1>1, <1>2, <1>3, <1>4 DEF Moves

\* Refreshed is kept.
LEMMA RefreshedStep ==
  ASSUME Types, Refreshed, Moves
  PROVE  Refreshed'
<1>1. CASE fresh' = <<>>
  BY <1>1 DEF Refreshed
<1>2. CASE Fills
  BY <1>2 DEF Fills, Unmoved, Refreshed
<1>3. CASE fresh' = fresh /\ \A i \in DOMAIN fresh : items'[i] = items[i]
  BY <1>3, RunsStay DEF Refreshed
<1>4. CASE items' # items /\ \E f \in Runs : Alone(f) /\ Persists(f)
  <2>1. PICK f \in Runs : Alone(f) /\ Persists(f)
    BY <1>4
  <2> DEFINE w == [run |-> f, issue |-> my[f].issue, state |-> "open",
                   status |-> my[f].status, at |-> my[f].at]
  <2>2. items' = Append(items, w) /\ items \in Seq(ItemSet) /\ fresh' = fresh
    BY <1>4, <2>1 DEF Persists, Types, Alone
  <2> HIDE DEF w
  <2>3. \A i \in DOMAIN items : items'[i] = items[i]
    BY <2>2
  <2> QED
    BY <1>3, <2>2, <2>3, Basics
<1> QED
  BY <1>1, <1>2, <1>3, <1>4 DEF Moves, Alone, Kinds, Advances, Skips, PassesHour, PassesActive, Asks,
     Persists, Completes, Closes, Ticks, Dies, Filled, Dismisses

\* Leaving is kept.
LEMMA LeavingStep ==
  ASSUME Types, Holding, Refreshed, Leaving, Moves, Types'
  PROVE  Leaving'
<1>0. \A g \in Runs : asked[g] \in Nat
  BY Basics
\* A run that left its work item.
<1>1. ASSUME NEW g \in Runs, pc[g] \in {"complete", "done"}
      PROVE  \/ asked'[g] = 0 /\ my'[g].issue = None
             \/ \E i \in DOMAIN items' : Left(g, i)'
             \/ ItemLost(g)'
  <2>1. my'[g] = my[g] /\ asked'[g] = asked[g] /\ closed \subseteq closed'
    BY <1>1, RunsStay
  <2>2. CASE asked[g] = 0 /\ my[g].issue = None
    BY <2>1, <2>2
  <2>3. CASE \E i \in DOMAIN items : Left(g, i)
    <3>1. PICK i \in DOMAIN items : Left(g, i)
      BY <2>3
    <3>2. /\ i \in DOMAIN items'
          /\ items'[i].run = items[i].run /\ items'[i].issue = items[i].issue
          /\ items'[i].at = items[i].at
          /\ items[i].status \in InProgress /\ items[i].issue \notin closed
                 => items'[i].status \in InProgress
      BY ItemsStay
    <3>3. Left(g, i)'
      BY <2>1, <3>1, <3>2 DEF Left
    <3> QED
      BY <3>2, <3>3
  <2>4. CASE ItemLost(g)
    BY <2>4, LostStay DEF ItemLost
  <2> QED
    BY <1>1, <2>2, <2>3, <2>4 DEF Leaving
\* A run that comes to leave it.
<1>2. ASSUME NEW g \in Runs, pc[g] \notin {"complete", "done"}, pc'[g] \in {"complete", "done"}
      PROVE  \/ asked'[g] = 0 /\ my'[g].issue = None
             \/ \E i \in DOMAIN items' : Left(g, i)'
             \/ ItemLost(g)'
  <2>1. Alone(g) /\ (Skips(g) \/ Persists(g))
    <3>1. PICK f \in Runs : Alone(f) /\ Kinds(f)
      BY <1>2 DEF Moves, Closes, Ticks, Dies, Fills, Filled, Dismisses, Unmoved
    <3>2. f = g
      BY <1>2, <3>1 DEF Alone
    <3> QED
      BY <1>2, <3>1, <3>2 DEF Kinds, Advances, PassesHour, PassesActive, Asks, Completes
  <2>2. CASE Skips(g)
    BY <2>2 DEF Skips, Holding
  <2>3. CASE Persists(g) /\ lost' = lost \cup {<<g, "item">>}
    BY <2>3 DEF ItemLost
  <2>4. CASE Persists(g) /\ items' # items
    <3> DEFINE w == [run |-> g, issue |-> my[g].issue, state |-> "open",
                     status |-> my[g].status, at |-> my[g].at]
    <3>1. items' = Append(items, w) /\ items \in Seq(ItemSet)
      BY <2>4 DEF Persists, Types
    <3>2. w.run = g /\ w.issue = my[g].issue /\ w.status = my[g].status /\ w.at = my[g].at
      OBVIOUS
    <3> HIDE DEF w
    <3>3. PICK n \in DOMAIN items' : items'[n] = w
      <4>1. Len(items) + 1 \in DOMAIN items' /\ items'[Len(items) + 1] = w
        BY <3>1
      <4> QED
        BY <4>1
    <3>4. my'[g] = my[g] /\ asked'[g] = asked[g] /\ pc[g] = "persist"
      BY <2>4 DEF Persists
    <3>5. asked[g] > 0 => my[g].at = asked[g]
      BY <3>4 DEF Holding
    <3>6. Left(g, n)'
      BY <3>2, <3>3, <3>4, <3>5 DEF Left, InProgress
    <3> QED
      BY <3>3, <3>6
  <2>5. CASE Persists(g) /\ items' = items /\ lost' = lost
    <3>1. items' = Append(items, [run |-> g, issue |-> my[g].issue, state |-> "open",
                                  status |-> my[g].status, at |-> my[g].at])
          \/ ItemLost(g)'
      BY <2>5 DEF Persists, ItemLost
    <3>2. items \in Seq(ItemSet)
      BY DEF Types
    <3>3. \A w : Len(Append(items, w)) # Len(items)
      BY <3>2
    <3> QED
      BY <2>5, <3>1, <3>3
  <2> QED
    BY <2>1, <2>2, <2>3, <2>4, <2>5 DEF Persists
<1> QED
  BY <1>1, <1>2 DEF Leaving

\* Named is kept.
LEMMA NamedStep ==
  ASSUME Types, Holding, Refreshed, Leaving, Named, Moves
  PROVE  Named'
<1>1. ASSUME NEW g \in Runs, NEW x, Tracked(g, x)
      PROVE  Tracked(g, x)'
  <2>1. CASE ItemLost(g)
    BY <2>1, LostStay DEF Tracked, ItemLost
  <2>2. CASE ~ ItemLost(g)
    <3>1. PICK i \in DOMAIN items : items[i].run = g /\ items[i].issue = x
      BY <1>1, <2>2 DEF Tracked
    <3>2. i \in DOMAIN items' /\ items'[i].run = g /\ items'[i].issue = x
      BY <3>1, ItemsStay
    <3> QED
      BY <3>2 DEF Tracked
  <2> QED
    BY <2>1, <2>2
<1>2. ASSUME NEW g \in Runs
      PROVE  /\ row'[g].url # None => Tracked(g, row'[g].url)
             /\ dismissal'[g].row.url # None => Tracked(g, dismissal'[g].row.url)
  <2>1. CASE row'[g] = row[g] /\ dismissal'[g].row = dismissal[g].row
    BY <2>1 DEF Named
  <2>2. CASE row'[g].url = None /\ dismissal'[g].row = dismissal[g].row
    BY <2>2 DEF Named
  <2>3. CASE Completes(g) /\ dismissal'[g].row = dismissal[g].row
    <3>1. pc[g] = "complete" /\ (row'[g].url = my[g].issue \/ row'[g] = row[g])
      BY <2>3 DEF Completes
    <3>2. my[g].issue # None => Tracked(g, my[g].issue)
      BY <3>1 DEF Leaving, Left, Tracked
    <3>3. \A x : Tracked(g, x) => Tracked(g, x)'
      BY <1>1
    <3>4. row'[g].url # None => Tracked(g, row'[g].url)
      BY <2>1, <2>3, <3>1, <3>2 DEF Named
    <3>5. dismissal'[g].row.url # None => Tracked(g, dismissal'[g].row.url)
      BY <2>3 DEF Named
    <3> QED
      BY <3>4, <3>5
  <2>4. CASE Reads(g)
    BY <2>4 DEF Reads, Named
  <2>5. CASE Marks(g)
    <3>1. dismissal[g].row \in RowSet
      BY DEF Types
    <3>2. row'[g].url = dismissal[g].row.url /\ dismissal'[g].row = dismissal[g].row
      BY <2>5, <3>1, Rows DEF Marks
    <3> QED
      BY <3>2 DEF Named
  <2>6. ASSUME NEW f \in Runs, Alone(f), Kinds(f)
        PROVE  /\ row'[g].url # None => Tracked(g, row'[g].url)
               /\ dismissal'[g].row.url # None => Tracked(g, dismissal'[g].row.url)
    <3>1. dismissal'[g].row = dismissal[g].row
      BY <2>6 DEF Alone
    <3>2. row'[g] = row[g] \/ row'[g].url = None \/ Completes(g)
      BY <2>6 DEF Alone, Kinds, Advances, Skips, PassesHour, PassesActive, Asks, Persists
    <3> QED
      BY <2>1, <2>2, <2>3, <3>1, <3>2
  <2>7. ASSUME NEW f \in Runs, Dismisses(f)
        PROVE  /\ row'[g].url # None => Tracked(g, row'[g].url)
               /\ dismissal'[g].row.url # None => Tracked(g, dismissal'[g].row.url)
    <3>1. CASE f = g
      BY <2>1, <2>4, <2>5, <2>7, <3>1 DEF Dismisses, FailsToMark
    <3>2. CASE f # g
      <4>1. row'[g] = row[g] /\ dismissal'[g] = dismissal[g]
        BY <2>7, <3>2 DEF Dismisses, Reads, Marks, FailsToMark
      <4> QED
        BY <2>1, <4>1
    <3> QED
      BY <3>1, <3>2
  <2>8. CASE Closes \/ Ticks \/ Dies \/ Fills \/ Filled
    BY <2>1, <2>8 DEF Closes, Ticks, Dies, Fills, Filled
  <2> QED
    BY <2>6, <2>7, <2>8 DEF Moves
<1> QED
  BY <1>1, <1>2 DEF Named

\* Ending is kept.
LEMMA EndingStep ==
  ASSUME Types, Holding, Ending, Moves
  PROVE  Ending'
<1> DEFINE Good(g) ==
        /\ Shows(g, row[g])' /\ Shows(g, dismissal[g].row)'
        /\ OutcomeLost(g)' => pc'[g] = "done"
        /\ pc'[g] = "done" /\ dismissal'[g].at # "late" =>
               row'[g].status \in Outcomes \/ OutcomeLost(g)'
        /\ dismissal'[g].over => dismissal'[g].at # "none" /\ pc'[g] = "done"
        /\ dismissal'[g].over /\ dismissal'[g].at = "write" =>
               dismissal'[g].row.status \in Outcomes \/ OutcomeLost(g)'
        /\ dismissal'[g].over /\ dismissal'[g].at = "done" => row'[g].dismissed
<1>1. ASSUME NEW g \in Runs, pc'[g] = pc[g], my'[g] = my[g], row'[g] = row[g],
             dismissal'[g] = dismissal[g], OutcomeLost(g)' <=> OutcomeLost(g)
      PROVE  Good(g)
  BY <1>1 DEF Ending, Shows
<1>2. ASSUME NEW f \in Runs, NEW g \in Runs, Alone(f), Kinds(f) PROVE Good(g)
  <2>1. dismissal' = dismissal
    BY <1>2 DEF Alone
  <2>2. CASE f # g
    <3>1. OutcomeLost(g)' <=> OutcomeLost(g)
      BY <1>2, <2>2, OthersLose DEF OutcomeLost
    <3>2. pc'[g] = pc[g] /\ my'[g] = my[g] /\ row'[g] = row[g] /\ dismissal'[g] = dismissal[g]
      BY <1>2, <2>1, <2>2 DEF Alone
    <3> QED
      BY <1>1, <3>1, <3>2
  <2>3. CASE f = g
    <3>1. pc[g] # "done"
      BY <1>2, <2>3 DEF Kinds, Advances, Skips, PassesHour, PassesActive, Asks, Persists, Completes
    <3>2. /\ ~ dismissal'[g].over /\ row[g].status \notin Outcomes
          /\ dismissal'[g].row.status \notin Outcomes /\ ~ OutcomeLost(g)
      BY <2>1, <3>1 DEF Ending, Shows
    <3>3. CASE pc'[g] # "done"
      <4>1. ~ OutcomeLost(g)'
        BY <1>2, <2>3, <3>2, <3>3, LostAlone DEF Skips, Completes, OutcomeLost
      <4>2. row'[g].status \notin Outcomes
        BY <1>2, <2>3, <3>2, <3>3
           DEF Kinds, Advances, Skips, PassesHour, PassesActive, Asks, Persists, Completes, Outcomes
      <4> QED
        BY <3>2, <3>3, <4>1, <4>2 DEF Shows
    <3>4. CASE Skips(g) /\ pc'[g] = "done"
      <4>1. /\ my'[g] = my[g] /\ my[g].issue = None
            /\ \/ row'[g].url = None /\ row'[g].status \in Outcomes /\ lost' = lost
               \/ row'[g] = row[g] /\ OutcomeLost(g)'
        BY <3>4 DEF Skips, Holding, OutcomeLost
      <4>2. lost' = lost => ~ OutcomeLost(g)'
        BY <3>2 DEF OutcomeLost
      <4> QED
        BY <3>2, <3>4, <4>1, <4>2 DEF Shows
    <3>5. CASE Completes(g)
      <4>1. /\ pc'[g] = "done" /\ my'[g] = my[g]
            /\ \/ row'[g].status = "completed" /\ row'[g].url = my[g].issue /\ lost' = lost
               \/ row'[g] = row[g] /\ OutcomeLost(g)'
        BY <3>5 DEF Completes, OutcomeLost
      <4>2. lost' = lost => ~ OutcomeLost(g)'
        BY <3>2 DEF OutcomeLost
      <4> QED
        BY <3>2, <4>1, <4>2 DEF Shows, Outcomes
    <3> QED
      BY <1>2, <2>3, <3>3, <3>4, <3>5 DEF Kinds, Advances, PassesHour, PassesActive, Asks, Persists
  <2> QED
    BY <2>2, <2>3
<1>3. ASSUME NEW g \in Runs, Closes \/ Ticks \/ Fills \/ Filled PROVE Good(g)
  BY <1>1, <1>3 DEF Closes, Ticks, Fills, Filled, Unmoved, OutcomeLost
<1>4. ASSUME NEW g \in Runs, Dies PROVE Good(g)
  <2>1. OutcomeLost(g)' <=> OutcomeLost(g)
    BY <1>4 DEF Dies, OutcomeLost
  <2>2. pc[g] = "done" <=> pc'[g] = "done"
    BY <1>4 DEF Dies
  <2> QED
    BY <1>4, <2>1, <2>2 DEF Dies, Ending, Shows
<1>5. ASSUME NEW f \in Runs, NEW g \in Runs, Dismisses(f) PROVE Good(g)
  <2>1. pc' = pc /\ my' = my /\ (OutcomeLost(g)' <=> OutcomeLost(g))
    BY <1>5 DEF Dismisses, Unmoved, OutcomeLost
  <2>2. CASE f # g
    BY <1>1, <1>5, <2>1, <2>2 DEF Dismisses, Reads, Marks, FailsToMark
  <2>3. CASE f = g /\ Reads(g)
    <3>1. /\ dismissal[g].at = "none" /\ dismissal'[g].at = "write" /\ dismissal'[g].row = row[g]
          /\ dismissal'[g].over = (pc[g] = "done") /\ row' = row
      BY <2>3 DEF Reads
    <3> QED
      BY <2>1, <3>1 DEF Ending, Shows
  <2>4. CASE f = g /\ Marks(g)
    <3>1. dismissal[g].row \in RowSet /\ dismissal[g].over \in BOOLEAN
      BY DEF Types
    <3>2. /\ row'[g].url = dismissal[g].row.url /\ row'[g].status = dismissal[g].row.status
          /\ row'[g].dismissed /\ dismissal'[g].row = dismissal[g].row
      BY <2>4, <3>1, Rows DEF Marks
    <3>3. /\ dismissal[g].at = "write" /\ dismissal'[g].over = dismissal[g].over
          /\ dismissal'[g].at = IF pc[g] = "done" /\ ~ dismissal[g].over THEN "late" ELSE "done"
      BY <2>4 DEF Marks
    <3>4. /\ Shows(g, dismissal[g].row) /\ (OutcomeLost(g) => pc[g] = "done")
          /\ dismissal[g].over =>
                 pc[g] = "done" /\ (dismissal[g].row.status \in Outcomes \/ OutcomeLost(g))
      BY <3>3 DEF Ending
    <3>5. Shows(g, row[g])' /\ Shows(g, dismissal[g].row)'
      BY <2>1, <3>2, <3>4 DEF Shows
    <3> QED
      BY <2>1, <3>2, <3>3, <3>4, <3>5
  <2>5. CASE f = g /\ FailsToMark(g)
    <3>1. /\ dismissal[g].at = "write" /\ dismissal'[g].at = "failed" /\ row' = row
          /\ dismissal'[g].over = dismissal[g].over /\ dismissal'[g].row = dismissal[g].row
      BY <2>5 DEF FailsToMark
    <3> QED
      BY <2>1, <3>1 DEF Ending, Shows
  <2> QED
    BY <1>5, <2>2, <2>3, <2>4, <2>5 DEF Dismisses
<1>6. \A g \in Runs : Good(g)
  BY <1>2, <1>3, <1>4, <1>5 DEF Moves
<1> QED
  BY <1>6 DEF Ending

\* Overlapping is kept.
LEMMA OverlappingStep ==
  ASSUME Types, Holding, Overlapping, Moves
  PROVE  Overlapping'
<1>0. now \in Nat /\ \A f \in Runs : asked[f] \in Nat /\ pc[f] \in PcSet
  BY Basics
<1>1. CASE \E f \in Runs : Alone(f) /\ PassesHour(f)
  <2>1. PICK f \in Runs : Alone(f) /\ PassesHour(f)
    BY <1>1
  <2>2. Gated' \subseteq Gated \cup {f} /\ Gated \subseteq Asking
    BY <2>1 DEF Gated, Alone, PassesHour, Asking
  <2>3. overlap' = overlap \cup {{f, g} : g \in Asking}
    BY <2>1 DEF PassesHour
  <2>4. \A g \in Gated : {f, g} \in overlap' /\ {g, f} \in overlap'
    <3>1. \A g : {g, f} = {f, g}
      OBVIOUS
    <3> QED
      BY <2>2, <2>3, <3>1
  <2> QED
    BY <2>2, <2>3, <2>4 DEF Overlapping
<1>2. CASE Gated' \subseteq Gated
  BY <1>2, RunsStay DEF Overlapping
<1>3. ASSUME NEW f \in Runs, Alone(f), Kinds(f), ~ PassesHour(f) PROVE Gated' \subseteq Gated
  <2>1. f \in Gated' => f \in Gated
    BY <1>0, <1>3 DEF Gated, Holding, Kinds, Advances, Skips, PassesActive, Asks, Persists, Completes
  <2> QED
    BY <1>3, <2>1 DEF Gated, Alone
<1>4. CASE Dies
  BY <1>2, <1>4 DEF Dies, Gated
<1>5. CASE \/ Closes \/ Ticks \/ Fills \/ Filled \/ \E f \in Runs : Dismisses(f)
  BY <1>2, <1>5 DEF Closes, Ticks, Fills, Filled, Dismisses, Unmoved, Gated
<1> QED
  BY <1>1, <1>2, <1>3, <1>4, <1>5 DEF Moves

\* A set of runs that each left a row of their own among those counted is no
\* greater than the count.
LEMMA Counting ==
  ASSUME NEW S \in SUBSET Runs, IsFiniteSet(Runs), Types, NEW C \in SUBSET DOMAIN items,
         \A f \in S : \E i \in C : items[i].run = f
  PROVE  IsFiniteSet(S) /\ IsFiniteSet(C) /\ Cardinality(S) <= Cardinality(C)
<1> DEFINE p == [f \in S |-> CHOOSE i \in C : items[i].run = f]
<1>1. IsFiniteSet(S)
  BY FS_Subset
<1>2. IsFiniteSet(C)
  <2>1. DOMAIN items = 1..Len(items) /\ Len(items) \in Nat
    BY ItemsTyped
  <2>2. IsFiniteSet(1..Len(items))
    BY <2>1, FS_Interval
  <2> QED
    BY <2>1, <2>2, FS_Subset
<1>3. \A f \in S : p[f] \in C /\ items[p[f]].run = f
  OBVIOUS
<1>4. p \in Injection(S, C)
  <2>1. p \in [S -> C]
    BY <1>3
  <2>2. \A f, g \in S : p[f] = p[g] => f = g
    BY <1>3
  <2> HIDE DEF p
  <2> QED
    BY <2>1, <2>2 DEF Injection, IsInjective
<1> QED
  BY <1>1, <1>2, <1>4, FS_Injection

\* One more than a set without f.
LEMMA OneMore ==
  ASSUME NEW S, IsFiniteSet(S), NEW f \in S, NEW n \in Nat, NEW m \in Nat,
         Cardinality(S \ {f}) <= n, n < m
  PROVE  Cardinality(S) <= m
<1>1. Cardinality(S \ {f}) = Cardinality(S) - 1 /\ Cardinality(S) \in Nat
  BY FS_RemoveElement, FS_CardinalityType
<1> QED
  BY <1>1

\* HourKept is kept.
LEMMA HourStep ==
  ASSUME Types, Holding, Leaving, HourKept, Moves
  PROVE  HourKept'
<1>0. /\ now \in Nat /\ Hour \in Nat /\ MaxPerHour \in Nat /\ IsFiniteSet(Runs)
      /\ \A f \in Runs : asked[f] \in Nat /\ pc[f] \in PcSet
  BY Basics
<1>1. CASE /\ Starting' \subseteq Starting
           /\ \A f, g \in Starting' : Since(f)' - Since(g)' <= Hour => Since(f) - Since(g) <= Hour
  <2> SUFFICES ASSUME NEW S \in SUBSET Starting', Apart(S)',
                      \A f, g \in S : Since(f)' - Since(g)' <= Hour
               PROVE  Cardinality(S) <= MaxPerHour
    BY DEF HourKept
  <2>1. S \in SUBSET Starting
    BY <1>1
  <2>2. Apart(S)
    BY RunsStay DEF Apart
  <2>3. \A f, g \in S : Since(f) - Since(g) <= Hour
    BY <1>1
  <2> QED
    BY <2>1, <2>2, <2>3 DEF HourKept
<1>2. ASSUME NEW f \in Runs, Alone(f), PassesHour(f) PROVE HourKept'
  <2>1. /\ now' = now /\ asked'[f] = asked[f]
        /\ \A g \in Runs : g # f => pc'[g] = pc[g] /\ asked'[g] = asked[g]
        /\ \A g \in Runs : asked'[g] = asked[g]
    BY <1>2 DEF Alone, PassesHour
  <2>2. asked[f] = 0 /\ pc[f] = "gateHour"
    BY <1>2 DEF PassesHour, Holding
  <2> SUFFICES ASSUME NEW S \in SUBSET Starting', Apart(S)',
                      \A g, h \in S : Since(g)' - Since(h)' <= Hour
               PROVE  Cardinality(S) <= MaxPerHour
    BY DEF HourKept
  <2>3. \A g \in Runs : Since(g)' = Since(g)
    BY <2>1 DEF Since
  <2>4. \A g \in Starting' : g \in Runs /\ (g # f => g \in Starting)
    BY <1>2, <2>1, OthersLose DEF ItemLost, Starting, Kinds
  <2>5. CASE f \notin S
    <3>1. S \in SUBSET Starting
      BY <2>4, <2>5
    <3>2. Apart(S)
      BY RunsStay DEF Apart
    <3>3. \A g, h \in S : Since(g) - Since(h) <= Hour
      BY <2>3, <2>4
    <3> QED
      BY <3>1, <3>2, <3>3 DEF HourKept
  <2>6. CASE f \in S
    <3> DEFINE C == {i \in DOMAIN items : items[i].at > 0 /\ items[i].at + Hour >= now}
    <3>1. \A g \in S \ {f} : \E i \in C : items[i].run = g
      <4> SUFFICES ASSUME NEW g \in S \ {f} PROVE \E i \in C : items[i].run = g
        OBVIOUS
      <4>1. g \in Runs /\ g \in Starting /\ g # f
        BY <2>4
      <4>2. g \notin Asking
        <5>1. {f, g} \notin overlap'
          BY <2>6 DEF Apart
        <5>2. overlap' = overlap \cup {{f, h} : h \in Asking}
          BY <1>2 DEF PassesHour
        <5> QED
          BY <5>1, <5>2
      <4>3. pc[g] \in {"complete", "done"} /\ asked[g] > 0
        BY <1>0, <4>1, <4>2 DEF Starting, Asking, Holding
      <4>4. PICK i \in DOMAIN items : Left(g, i)
        BY <1>0, <4>1, <4>3 DEF Leaving, Starting
      <4>5. items[i].run = g /\ items[i].at = asked[g]
        BY <4>3, <4>4 DEF Left
      <4>6. now - asked[g] <= Hour
        <5>1. Since(f)' = now /\ Since(g)' = asked[g]
          BY <1>0, <2>1, <2>2, <4>1, <4>3 DEF Since
        <5>2. Since(f)' - Since(g)' <= Hour
          BY <2>6, <4>1
        <5> QED
          BY <5>1, <5>2
      <4>7. asked[g] \in Nat /\ asked[g] + Hour >= now
        BY <1>0, <4>1, <4>6
      <4> QED
        BY <4>3, <4>4, <4>5, <4>7
    <3>2. S \subseteq Runs
      BY <2>4
    <3>3. IsFiniteSet(S)
      BY <1>0, <3>2, FS_Subset
    <3>4. S \ {f} \in SUBSET Runs /\ C \in SUBSET DOMAIN items
      BY <3>2
    <3>5. Cardinality(C) < MaxPerHour
      BY <1>2 DEF PassesHour, countCopilotAssignmentsLastHour
    <3> HIDE DEF C
    <3>6. IsFiniteSet(C) /\ Cardinality(S \ {f}) <= Cardinality(C)
      BY <1>0, <3>1, <3>4, Counting
    <3>7. Cardinality(C) \in Nat
      BY <3>6, FS_CardinalityType
    <3> QED
      BY <1>0, <2>6, <3>3, <3>5, <3>6, <3>7, OneMore
  <2> QED
    BY <2>5, <2>6
<1>3. ASSUME NEW f \in Runs, Alone(f), Kinds(f), ~ PassesHour(f) PROVE HourKept'
  <2>1. now' = now /\ \A g \in Runs : g # f => pc'[g] = pc[g] /\ asked'[g] = asked[g]
    BY <1>3 DEF Alone
  <2>2. f \in Starting' => f \in Starting /\ Since(f)' = Since(f)
    <3>0. ItemLost(f) => ItemLost(f)'
      BY <1>3, LostStay DEF ItemLost
    <3>1. CASE Advances(f) \/ Skips(f)
      BY <1>0, <3>0, <3>1 DEF Starting, Holding, Advances, Skips
    <3>2. CASE PassesActive(f) \/ Persists(f) \/ Completes(f)
      BY <1>0, <2>1, <3>0, <3>2 DEF Starting, Since, PassesActive, Persists, Completes
    <3>3. CASE Asks(f)
      <4>1. pc[f] = "assign" /\ pc'[f] = "persist" /\ asked[f] = 0
        BY <3>3 DEF Asks, Holding
      <4>2. asked'[f] = asked[f] \/ asked'[f] = now
        BY <3>3 DEF Asks
      <4> QED
        BY <1>0, <2>1, <3>0, <4>1, <4>2 DEF Starting, Since
    <3> QED
      BY <1>3, <3>1, <3>2, <3>3 DEF Kinds
  <2>3. \A g \in Starting' : g \in Starting /\ Since(g)' = Since(g)
    <3>1. \A g \in Runs : g # f /\ g \in Starting' => g \in Starting /\ Since(g)' = Since(g)
      BY <1>3, <2>1, OthersLose DEF ItemLost, Starting, Since
    <3>2. Starting' \subseteq Runs
      BY DEF Starting
    <3> QED
      BY <2>2, <3>1, <3>2
  <2> QED
    BY <1>1, <2>3
<1>4. CASE Ticks
  <2>1. now' = now + 1 /\ pc' = pc /\ asked' = asked /\ lost' = lost
    BY <1>4 DEF Ticks
  <2>2. Starting' = Starting /\ Starting \subseteq Runs
    BY <2>1 DEF Starting, ItemLost
  <2>3. \A f, g \in Runs : Since(f)' - Since(g)' <= Hour => Since(f) - Since(g) <= Hour
    <3> SUFFICES ASSUME NEW f \in Runs, NEW g \in Runs, Since(f)' - Since(g)' <= Hour
                 PROVE  Since(f) - Since(g) <= Hour
      OBVIOUS
    <3>1. asked[f] \in Nat /\ asked[g] \in Nat /\ asked[f] <= now /\ asked[g] <= now
      BY <1>0 DEF Holding
    <3> QED
      BY <1>0, <2>1, <3>1 DEF Since
  <2> QED
    BY <1>1, <2>2, <2>3
<1>5. CASE Dies
  <2>1. /\ now' = now /\ asked' = asked /\ lost' = lost
        /\ \A f \in Runs : pc'[f] = IF pc[f] \in {"new", "limited", "done"} THEN pc[f] ELSE "dead"
    BY <1>5 DEF Dies
  <2>2. Starting' \subseteq Starting
    BY <2>1 DEF Starting, ItemLost
  <2>3. \A f : Since(f)' = Since(f)
    BY <2>1 DEF Since
  <2> QED
    BY <1>1, <2>2, <2>3
<1>6. CASE \/ Closes \/ Fills \/ Filled \/ \E f \in Runs : Dismisses(f)
  <2>1. now' = now /\ pc' = pc /\ asked' = asked /\ lost' = lost
    BY <1>6 DEF Closes, Fills, Filled, Dismisses, Unmoved
  <2>2. Starting' = Starting
    BY <2>1 DEF Starting, ItemLost
  <2>3. \A f : Since(f)' = Since(f)
    BY <2>1 DEF Since
  <2> QED
    BY <1>1, <2>2, <2>3
<1> QED
  BY <1>2, <1>3, <1>4, <1>5, <1>6 DEF Moves

\* ActiveKept is kept.
LEMMA ActiveStep ==
  ASSUME Types, Holding, Leaving, Overlapping, ActiveKept, Moves
  PROVE  ActiveKept'
<1>0. /\ now \in Nat /\ MaxActive \in Nat /\ IsFiniteSet(Runs)
      /\ \A f \in Runs : asked[f] \in Nat /\ pc[f] \in PcSet
  BY Basics
<1>1. CASE Active' \subseteq Active
  <2> SUFFICES ASSUME NEW S \in SUBSET Active', Apart(S)' PROVE Cardinality(S) <= MaxActive
    BY DEF ActiveKept
  <2>1. S \in SUBSET Active
    BY <1>1
  <2>2. Apart(S)
    BY RunsStay DEF Apart
  <2> QED
    BY <2>1, <2>2 DEF ActiveKept
<1>2. ASSUME NEW f \in Runs, Alone(f), PassesActive(f) PROVE ActiveKept'
  <2>1. /\ closed' = closed /\ my'[f] = my[f] /\ asked'[f] = asked[f] /\ overlap' = overlap
        /\ \A g \in Runs : g # f => pc'[g] = pc[g] /\ asked'[g] = asked[g] /\ my'[g] = my[g]
    BY <1>2 DEF Alone, PassesActive
  <2> SUFFICES ASSUME NEW S \in SUBSET Active', Apart(S)' PROVE Cardinality(S) <= MaxActive
    BY DEF ActiveKept
  <2>2. \A g \in Active' : g \in Runs /\ (g # f => g \in Active)
    BY <1>2, <2>1, OthersLose DEF ItemLost, Active, Kinds
  <2>3. Apart(S)
    BY <2>1 DEF Apart
  <2>4. CASE f \notin S
    BY <2>2, <2>3, <2>4 DEF ActiveKept
  <2>5. CASE f \in S
    <3> DEFINE C == {i \in DOMAIN items : items[i].status \in {"requested", "active"}}
    <3>1. \A g \in S \ {f} : \E i \in C : items[i].run = g
      <4> SUFFICES ASSUME NEW g \in S \ {f} PROVE \E i \in C : items[i].run = g
        OBVIOUS
      <4>1. g \in Runs /\ g \in Active /\ g # f
        BY <2>2
      <4>2. g \notin Gated
        <5>1. {f, g} \notin overlap
          BY <2>3, <2>5 DEF Apart
        <5>2. f \in Gated
          BY <1>2 DEF PassesActive, Gated
        <5> QED
          BY <4>1, <5>1, <5>2 DEF Overlapping
      <4>3. /\ pc[g] \in {"complete", "done"} /\ asked[g] > 0
            /\ my[g].status = "requested" /\ my[g].issue \notin closed
        BY <1>0, <4>1, <4>2 DEF Active, Gated, Holding
      <4>4. PICK i \in DOMAIN items : Left(g, i)
        BY <1>0, <4>1, <4>3 DEF Leaving, Active
      <4>5. items[i].run = g /\ items[i].status \in InProgress
        BY <4>3, <4>4 DEF Left
      <4> QED
        BY <4>4, <4>5 DEF InProgress
    <3>2. S \subseteq Runs
      BY <2>2
    <3>3. IsFiniteSet(S)
      BY <1>0, <3>2, FS_Subset
    <3>4. S \ {f} \in SUBSET Runs /\ C \in SUBSET DOMAIN items
      BY <3>2
    <3>5. Cardinality(C) < MaxActive
      BY <1>2 DEF PassesActive, countActiveCopilotAssignments
    <3> HIDE DEF C
    <3>6. IsFiniteSet(C) /\ Cardinality(S \ {f}) <= Cardinality(C)
      BY <1>0, <3>1, <3>4, Counting
    <3>7. Cardinality(C) \in Nat
      BY <3>6, FS_CardinalityType
    <3> QED
      BY <1>0, <2>5, <3>3, <3>5, <3>6, <3>7, OneMore
  <2> QED
    BY <2>4, <2>5
<1>3. ASSUME NEW f \in Runs, Alone(f), Kinds(f), ~ PassesActive(f) PROVE Active' \subseteq Active
  <2>1. closed' = closed
        /\ \A g \in Runs : g # f => pc'[g] = pc[g] /\ asked'[g] = asked[g] /\ my'[g] = my[g]
    BY <1>3 DEF Alone
  <2>2. f \in Active' => f \in Active
    <3>0. ItemLost(f) => ItemLost(f)'
      BY <1>3, LostStay DEF ItemLost
    <3>1. CASE Advances(f) \/ Skips(f) \/ PassesHour(f)
      BY <1>0, <3>0, <3>1 DEF Active, Holding, Advances, Skips, PassesHour
    <3>2. CASE Persists(f) \/ Completes(f)
      BY <2>1, <3>0, <3>2 DEF Active, Persists, Completes
    <3>3. CASE Asks(f)
      <4>1. pc[f] = "assign" /\ pc'[f] = "persist" /\ my'[f].issue = my[f].issue
        BY <3>3 DEF Asks
      <4> QED
        BY <2>1, <3>0, <4>1 DEF Active
    <3> QED
      BY <1>3, <3>1, <3>2, <3>3 DEF Kinds
  <2> QED
    BY <1>3, <2>1, <2>2, OthersLose DEF ItemLost, Active
<1>4. CASE Dies
  <2>1. /\ my' = my /\ asked' = asked /\ closed' = closed /\ lost' = lost
        /\ \A f \in Runs : pc'[f] = IF pc[f] \in {"new", "limited", "done"} THEN pc[f] ELSE "dead"
    BY <1>4 DEF Dies
  <2> QED
    BY <1>1, <2>1 DEF Active, ItemLost
<1>5. CASE \/ Closes \/ Ticks \/ Fills \/ Filled \/ \E f \in Runs : Dismisses(f)
  <2>1. my' = my /\ pc' = pc /\ asked' = asked /\ closed \subseteq closed' /\ lost' = lost
    BY <1>5 DEF Closes, Ticks, Fills, Filled, Dismisses, Unmoved
  <2> QED
    BY <1>1, <2>1 DEF Active, ItemLost
<1> QED
  BY <1>1, <1>2, <1>3, <1>4, <1>5 DEF Moves

-----------------------------------------------------------------------------
(* The invariant.                                                          *)

\* It holds at first,
LEMMA InitIInv == Init => IInv
<1> SUFFICES ASSUME Init PROVE IInv
  OBVIOUS
<1>1. /\ now = 1 /\ items = <<>> /\ fresh = <<>> /\ overlap = {} /\ filling = FALSE /\ lost = {}
      /\ issues = {} /\ closed = {} /\ assigned = {} /\ linked = {}
      /\ pc = [f \in Runs |-> "new"]
      /\ started = [f \in Runs |-> 0] /\ asked = [f \in Runs |-> 0]
      /\ row = [f \in Runs |-> Partial("none", None)]
      /\ my = [f \in Runs |-> [rule |-> None, allow |-> FALSE, issue |-> None,
                               status |-> "not_requested", at |-> 0]]
      /\ dismissal = [f \in Runs |-> [at |-> "none", row |-> row[f], over |-> FALSE]]
  BY DEF Init
<1>2. MaxTime \in Nat /\ MaxTime >= 1 /\ 0 \in 0..MaxTime /\ 1 \in 1..MaxTime
  BY AgentAssumption
<1>3. /\ Partial("none", None) \in RowSet /\ Partial("none", None).url = None
      /\ Partial("none", None).status = "none"
  BY <1>2 DEF Partial, RowSet
<1>4. /\ my \in [Runs -> MySet]
      /\ \A f \in Runs : my[f].issue = None /\ my[f].status = "not_requested"
  BY <1>1, <1>2 DEF MySet, Statuses
<1>5. row \in [Runs -> RowSet] /\ \A f \in Runs : row[f].url = None /\ row[f].status = "none"
  <2> DEFINE w == Partial("none", None)
  <2>1. w \in RowSet /\ w.url = None /\ w.status = "none" /\ row = [f \in Runs |-> w]
    BY <1>1, <1>3
  <2> HIDE DEF w
  <2> QED
    BY <2>1
<1>6. /\ dismissal \in [Runs -> DismissalSet]
      /\ \A f \in Runs : /\ dismissal[f].at = "none" /\ dismissal[f].row = row[f]
                         /\ dismissal[f].over = FALSE
  BY <1>1, <1>5 DEF DismissalSet
<1>7. pc \in [Runs -> PcSet] /\ \A f \in Runs : pc[f] = "new"
  BY <1>1 DEF PcSet
<1>8. /\ started \in [Runs -> 0..MaxTime] /\ asked \in [Runs -> 0..MaxTime]
      /\ \A f \in Runs : asked[f] = 0
  BY <1>1, <1>2
<1>9. items \in Seq(ItemSet) /\ DOMAIN items = {} /\ DOMAIN fresh = {}
  BY <1>1
<1>10. Types
  <2>1. \A f \in Runs : dismissal[f].at \in {"none", "write", "done", "late", "failed"}
    BY <1>6
  <2> QED
    BY <1>1, <1>2, <1>4, <1>5, <1>6, <1>7, <1>8, <1>9, <2>1
       DEF Types, TypeOK, MySet, PcSet, RowSet, ItemSet, DismissalSet
<1>11. Holding /\ Refreshed /\ Leaving
  BY <1>1, <1>4, <1>7, <1>8, <1>9 DEF Holding, Refreshed, Leaving
<1>12. Named /\ Ending
  BY <1>1, <1>5, <1>6, <1>7 DEF Named, Ending, Shows, Outcomes, OutcomeLost
<1>13. Overlapping
  BY <1>7 DEF Overlapping, Gated
<1>14. MaxPerHour \in Nat /\ MaxActive \in Nat /\ Cardinality({}) = 0
  BY AgentAssumption, FS_EmptySet
<1>15. HourKept
  <2>1. Starting = {}
    BY <1>7, <1>8 DEF Starting
  <2> QED
    BY <1>14, <2>1 DEF HourKept
<1>16. ActiveKept
  <2>1. Active = {}
    BY <1>7, <1>8 DEF Active
  <2> QED
    BY <1>14, <2>1 DEF ActiveKept
<1> QED
  BY <1>10, <1>11, <1>12, <1>13, <1>15, <1>16 DEF IInv

\* and every step keeps it.
LEMMA Inductive == IInv /\ [Next]_vars => IInv'
<1> SUFFICES ASSUME IInv, [Next]_vars PROVE IInv'
  OBVIOUS
<1>1. /\ Types /\ Holding /\ Refreshed /\ Leaving /\ Named /\ Ending
      /\ Overlapping /\ HourKept /\ ActiveKept
  BY DEF IInv
<1>2. Moves /\ Types'
  BY <1>1, Steps
<1>3. Holding' /\ Refreshed'
  BY <1>1, <1>2, HoldingStep, RefreshedStep
<1>4. Leaving' /\ Named'
  BY <1>1, <1>2, LeavingStep, NamedStep
<1>5. Ending' /\ Overlapping'
  BY <1>1, <1>2, EndingStep, OverlappingStep
<1>6. HourKept' /\ ActiveKept'
  BY <1>1, <1>2, HourStep, ActiveStep
<1> QED
  BY <1>2, <1>3, <1>4, <1>5, <1>6 DEF IInv

\* So it always holds.
LEMMA Invariance == Spec => []IInv
BY InitIInv, Inductive, PTL DEF Spec

-----------------------------------------------------------------------------
(* What it is for.                                                        *)

\* Whatever runs, backfills, dismissals and deaths are in between, runs that ask
\* for Copilot one after the other, and whose work items were stored, keep both
\* ceilings (chooseGithubIssueOutcome).
THEOREM RunsInTurnKeepCaps == Spec => [](HourlyCap /\ ActiveCap)
<1>1. ASSUME IInv PROVE HourlyCap /\ ActiveCap
  <2>1. Types /\ HourKept /\ ActiveKept
    BY <1>1 DEF IInv
  <2>2. \A f \in Runs : asked[f] \in Nat
    BY <2>1, Basics
  <2>3. \A S \in SUBSET Runs : InTurn(S) => S \in SUBSET Starting /\ Apart(S)
    BY DEF InTurn, Starting, Apart, ItemLost
  <2>4. HourlyCap
    <3> SUFFICES ASSUME NEW S \in SUBSET Runs, InTurn(S),
                        \A f, g \in S : asked[f] - asked[g] <= Hour
                 PROVE  Cardinality(S) <= MaxPerHour
      BY DEF HourlyCap
    <3>1. \A f \in S : Since(f) = asked[f]
      BY DEF InTurn, Since
    <3>2. \A f, g \in S : Since(f) - Since(g) <= Hour
      BY <3>1
    <3> QED
      BY <2>1, <2>3, <3>2 DEF HourKept
  <2>5. ActiveCap
    <3> SUFFICES ASSUME NEW S \in SUBSET Runs, InTurn(S),
                        \A f \in S : my[f].status = "requested" /\ my[f].issue \notin closed
                 PROVE  Cardinality(S) <= MaxActive
      BY DEF ActiveCap
    <3>1. S \in SUBSET Active
      BY DEF InTurn, Active, ItemLost
    <3> QED
      BY <2>1, <2>3, <3>1 DEF ActiveKept
  <2> QED
    BY <2>4, <2>5
<1> QED
  BY <1>1, Invariance, PTL

\* Whichever inserts fail, a run that comes to its end left its outcome in its row,
\* unless it was the insert of the outcome that failed, or a dismissal that had
\* read the row before inserted it after; no row shows an outcome its run did not
\* have; and every issue a run names, or its row does, has a work item, unless the
\* insert of that one failed (insertAgentRun, persistGithubWorkItem, handleAgentRunSub).
THEOREM RunsStayRecorded ==
  Spec => [](TypeOK /\ OutcomeIsRecorded /\ IssuesAreTracked)
<1>1. ASSUME IInv PROVE TypeOK /\ OutcomeIsRecorded /\ IssuesAreTracked
  <2>1. Types /\ Leaving /\ Named /\ Ending
    BY <1>1 DEF IInv
  <2>2. OutcomeIsRecorded
    BY <2>1 DEF OutcomeIsRecorded, Ending, Shows, Outcomes, OutcomeLost
  <2>3. IssuesAreTracked
    <3>1. \A f \in Runs : row[f].url # None => Tracked(f, row[f].url)
      BY <2>1 DEF Named
    <3>2. \A f \in Runs : pc[f] \in {"complete", "done"} /\ my[f].issue # None =>
              Tracked(f, my[f].issue)
      BY <2>1 DEF Leaving, Left, Tracked
    <3> QED
      BY <3>1, <3>2 DEF IssuesAreTracked, Tracked, ItemLost
  <2> QED
    BY <2>1, <2>2, <2>3 DEF Types
<1> QED
  BY <1>1, Invariance, PTL

-----------------------------------------------------------------------------
(* The notification rules.                                                  *)

RuleRows == [live : BOOLEAN, enabled : BOOLEAN, conf : Confs, last : Nat, ver : Nat]
Loaded == [id : NotifyRules, enabled : BOOLEAN, conf : Confs]

\* Where a check is at work on one rule.
AtRule == {"evaluate", "dispatch", "build", "bump"}

NotifyTypes ==
    /\ clock \in Nat /\ clock >= First
    /\ rules \in [NotifyRules -> RuleRows]
    /\ check \in [Checks -> [at : {"rule"} \cup AtRule \cup Notify!Over, rules : SUBSET Loaded,
                             id : NotifyRules \cup {"none"}, row : RuleRows]]
    /\ post \in [Posts -> [at : {"insert"} \cup Notify!Over, form : Forms \cup {"none"},
                           id : NotifyRules \cup {"none"}, row : RuleRows]]
    /\ fires \subseteq [rule : NotifyRules, at : Nat]
    /\ stale \subseteq Checks \X NotifyRules /\ reset \subseteq NotifyRules /\ mixed \in BOOLEAN

\* A check holds each rule once, and the one it is at work on among them,
\* enabled; the row it will insert is that rule's, with LastFiredAt.
Hands ==
    /\ \A k \in Checks :
        /\ \A u, v \in check[k].rules : u.id = v.id => u = v
        /\ check[k].at \in AtRule =>
               \E u \in check[k].rules : u.id = check[k].id /\ u.enabled
        /\ check[k].at = "bump" =>
               \A u \in check[k].rules : u.id = check[k].id =>
                   /\ check[k].row.live /\ check[k].row.enabled = u.enabled
                   /\ check[k].row.conf = u.conf
                   /\ check[k].row.last = check[k].row.ver
    /\ \A p \in Posts : post[p].at = "insert" => post[p].id \in NotifyRules

\* No row is of the future, and none was fired after it was made.
Past ==
    /\ \A r \in NotifyRules : rules[r].last <= rules[r].ver /\ rules[r].ver <= clock
    /\ \A k \in Checks : check[k].at = "bump" => check[k].row.ver <= clock
    /\ \A p \in Posts : post[p].at = "insert" =>
           /\ post[p].row.last <= post[p].row.ver /\ post[p].row.ver <= clock
           /\ post[p].row.ver > 0
    /\ \A e \in fires : rules[e.rule] # Notify!NoRow

\* What a check has loaded of a rule no post wrote since is on in the table,
Quiet ==
    \A k \in Checks : check[k].at \in Notify!Reading =>
        \A u \in check[k].rules :
            <<k, u.id>> \notin stale /\ u.enabled =>
                rules[u.id].live /\ rules[u.id].enabled

\* and is what the table has, unless another check had loaded it before.
Kept ==
    \A k \in Checks : check[k].at \in Notify!Reading =>
        \A u \in check[k].rules :
            (\A j \in Checks : <<j, u.id>> \notin stale) =>
                /\ rules[u.id].live /\ rules[u.id].enabled = u.enabled
                /\ rules[u.id].conf = u.conf

\* Requests that come in turn: one is served at a time,
OneAtATime ==
    /\ \A j, k \in Checks : check[j].at \notin Notify!Over /\ check[k].at \notin Notify!Over => j = k
    /\ \A p, q \in Posts : post[p].at \notin Notify!Over /\ post[q].at \notin Notify!Over => p = q
    /\ \A k \in Checks, p \in Posts : check[k].at \in Notify!Over \/ post[p].at \in Notify!Over

\* LastFiredAt is not before a firing, and what is in hand is up to date.
RequestsInTurn ==
    ~ mixed =>
        /\ OneAtATime
        /\ \A e \in fires : e.rule \notin reset => e.at <= rules[e.rule].last
        /\ \A k \in Checks :
               /\ check[k].at = "evaluate" =>
                      \A u \in check[k].rules : u.id = check[k].id =>
                          clock - rules[u.id].last >= CooldownOf[u.conf]
               /\ check[k].at = "bump" => check[k].row.ver >= rules[check[k].id].ver
        /\ \A p \in Posts : post[p].at = "insert" =>
               \/ post[p].form = "create" /\ rules[post[p].id] = Notify!NoRow
               \/ post[p].form = "save" /\ post[p].row.last = rules[post[p].id].last
               \/ post[p].form \in {"toggle", "delete"}

NotifyInv == NotifyTypes /\ Hands /\ Past /\ Quiet /\ Kept /\ RequestsInTurn

-----------------------------------------------------------------------------
(* What the actions do to the records, field by field.                     *)

\* Check k becomes c, the other checks stay as they are.
Becomes(k, c) == check'[k] = c /\ \A j \in Checks : j # k => check'[j] = check[j]

\* The steps of a check, told by their effect on it and on the rules.
Loads(k) ==
    /\ check[k].at = "new" /\ check'[k].at = "rule" /\ check'[k].row = check[k].row
    /\ \A u \in check'[k].rules :
           rules[u.id].live /\ u.enabled = rules[u.id].enabled /\ u.conf = rules[u.id].conf
    /\ \A u, v \in check'[k].rules : u.id = v.id => u = v
    /\ UNCHANGED <<rules, fires>> /\ mixed' = (mixed \/ Notify!Serving # {})
Passes(k) ==
    /\ check[k].at \in {"rule", "evaluate"} /\ check'[k].at = "rule"
    /\ check'[k].rules \subseteq check[k].rules /\ UNCHANGED <<rules, fires, mixed>>
Picks(k) ==
    /\ check[k].at = "rule" /\ check'[k].at = "evaluate" /\ check'[k].rules = check[k].rules
    /\ \E u \in check[k].rules :
           /\ check'[k].id = u.id /\ u.enabled
           /\ clock - rules[u.id].last >= CooldownOf[u.conf]
    /\ UNCHANGED <<rules, fires, mixed>>
Goes(k) ==
    /\ \/ check[k].at = "evaluate" /\ check'[k].at = "dispatch"
       \/ check[k].at = "dispatch" /\ check'[k].at = "build"
    /\ check'[k].rules = check[k].rules /\ check'[k].id = check[k].id
    /\ UNCHANGED <<rules, fires, mixed>>
Builds(k) ==
    /\ check[k].at = "build" /\ check'[k].at = "bump"
    /\ check'[k].rules = check[k].rules /\ check'[k].id = check[k].id
    /\ check'[k].row = Notify!Row(TRUE, Notify!Current(k).enabled, Notify!Current(k).conf, clock, clock)
    /\ UNCHANGED <<rules, fires, mixed>>
Bumps(k) ==
    /\ check[k].at = "bump" /\ check'[k].at = "rule"
    /\ check'[k].rules \subseteq check[k].rules /\ UNCHANGED mixed
    /\ \/ /\ Notify!Insert(check[k].id, check[k].row)
          /\ fires' = fires \cup {[rule |-> check[k].id, at |-> check[k].row.last]}
       \/ UNCHANGED <<rules, fires>>
Ends(k) ==
    /\ check[k].at = "rule" /\ check'[k].at = "done" /\ check'[k].rules = {}
    /\ UNCHANGED <<rules, fires, mixed>>

\* The rule at hand is the one loaded under its id.
LEMMA CurrentIsLoaded ==
  ASSUME NotifyTypes, Hands, NEW k \in Checks, check[k].at \in AtRule
  PROVE  /\ Notify!Current(k) \in check[k].rules /\ Notify!Current(k).id = check[k].id
         /\ Notify!Current(k).enabled /\ check[k].id \in NotifyRules /\ Notify!Current(k) \in Loaded
<1>1. PICK u \in check[k].rules : u.id = check[k].id /\ u.enabled
  BY DEF Hands
<1>2. \A v \in check[k].rules : v.id = check[k].id => v = u
  BY <1>1 DEF Hands
<1>3. Notify!Current(k) = u
  BY <1>1, <1>2 DEF Notify!Current
<1>4. check[k].rules \subseteq Loaded
  BY DEF NotifyTypes
<1> QED
  BY <1>1, <1>3, <1>4 DEF Loaded

\* The records of the initial states.
LEMMA Records ==
  ASSUME Notify!NotificationAssumption
  PROVE  /\ Notify!NoRow \in RuleRows /\ Notify!NoRow.live = FALSE /\ Notify!NoRow.ver = 0 /\ Notify!NoRow.last = 0
         /\ First \in Nat \ {0} /\ CooldownOf \in [Confs -> Nat]
         /\ \A l, e \in BOOLEAN, c \in Confs, t, w \in Nat :
                /\ Notify!Row(l, e, c, t, w) \in RuleRows
                /\ Notify!Row(l, e, c, t, w).live = l /\ Notify!Row(l, e, c, t, w).enabled = e
                /\ Notify!Row(l, e, c, t, w).conf = c
                /\ Notify!Row(l, e, c, t, w).last = t /\ Notify!Row(l, e, c, t, w).ver = w
<1>1. Notify!AnyConf \in Confs
  BY DEF Notify!AnyConf, Notify!NotificationAssumption
<1> QED
  BY <1>1 DEF Notify!NoRow, Notify!Row, RuleRows, Notify!Never, Notify!NotificationAssumption

CheckSet == [at : {"rule"} \cup AtRule \cup Notify!Over, rules : SUBSET Loaded,
             id : NotifyRules \cup {"none"}, row : RuleRows]

\* A check's step is one of those, and leaves all else alone.
LEMMA CheckSteps ==
  ASSUME Notify!NotificationAssumption, NotifyTypes, Hands, NEW k \in Checks, Notify!Check(k)
  PROVE  /\ check' \in [Checks -> CheckSet]
         /\ \A j \in Checks : j # k => check'[j] = check[j]
         /\ UNCHANGED <<clock, post, stale, reset>>
         /\ \/ Loads(k) \/ Passes(k) \/ Picks(k) \/ Goes(k)
            \/ Builds(k) \/ Bumps(k) \/ Ends(k)
<1> DEFINE Only(c) == check' = [check EXCEPT ![k] = c]
           Doing == \/ Loads(k) \/ Passes(k) \/ Picks(k) \/ Goes(k)
                    \/ Builds(k) \/ Bumps(k) \/ Ends(k)
<1>1. /\ check \in [Checks -> CheckSet] /\ check[k] \in CheckSet
      /\ check[k].rules \subseteq Loaded
  BY DEF NotifyTypes, CheckSet
<1>2. ASSUME NEW c \in CheckSet, Only(c)
      PROVE  /\ check' \in [Checks -> CheckSet] /\ check'[k] = c
             /\ \A j \in Checks : j # k => check'[j] = check[j]
  BY <1>1, <1>2
<1>3. ASSUME NEW u, Notify!NextRule(k, u)
      PROVE  /\ check' \in [Checks -> CheckSet]
             /\ \A j \in Checks : j # k => check'[j] = check[j]
             /\ check'[k].at = "rule" /\ check'[k].rules \subseteq check[k].rules
             /\ check'[k].id = check[k].id /\ check'[k].row = check[k].row
  <2> DEFINE c == [check[k] EXCEPT !.at = "rule", !.rules = @ \ {u}]
  <2>1. c \in CheckSet
    BY <1>1 DEF CheckSet
  <2>2. Only(c)
    BY <1>3 DEF Notify!NextRule
  <2>3. /\ c.at = "rule" /\ c.rules \subseteq check[k].rules
        /\ c.id = check[k].id /\ c.row = check[k].row
    BY <1>1 DEF CheckSet
  <2> HIDE DEF c
  <2> QED
    BY <1>2, <2>1, <2>2, <2>3
<1>4. CASE Notify!LoadRules(k)
  <2> DEFINE L == {[id |-> r, enabled |-> rules[r].enabled, conf |-> rules[r].conf] :
                       r \in {q \in NotifyRules : rules[q].live}}
             c == [check[k] EXCEPT !.at = "rule", !.rules = L]
  <2>1. L \subseteq Loaded
    BY DEF Loaded, NotifyTypes, RuleRows
  <2>2. /\ \A u \in L : rules[u.id].live /\ u.enabled = rules[u.id].enabled
                        /\ u.conf = rules[u.id].conf
        /\ \A u, v \in L : u.id = v.id => u = v
    OBVIOUS
  <2>3. Only(c) /\ check[k].at = "new"
    BY <1>4 DEF Notify!LoadRules
  <2> HIDE DEF L
  <2>4. c \in CheckSet /\ c.at = "rule" /\ c.rules = L /\ c.row = check[k].row
    BY <1>1, <2>1 DEF CheckSet
  <2> HIDE DEF c
  <2>5. UNCHANGED <<clock, rules, post, fires, stale, reset>> /\ mixed' = (mixed \/ Notify!Serving # {})
    BY <1>4 DEF Notify!LoadRules, Notify!Begin
  <2>6. Loads(k)
    BY <1>2, <2>2, <2>3, <2>4, <2>5 DEF Loads
  <2> QED
    BY <1>2, <2>3, <2>4, <2>5, <2>6
<1>5. CASE Notify!BeginRule(k)
  <2>1. PICK u \in check[k].rules :
            IF u.enabled /\ clock - rules[u.id].last >= CooldownOf[u.conf]
            THEN check' = [check EXCEPT ![k].at = "evaluate", ![k].id = u.id]
            ELSE Notify!NextRule(k, u)
    BY <1>5 DEF Notify!BeginRule
  <2>2. check[k].at = "rule" /\ UNCHANGED <<clock, rules, post, Notify!history>>
    BY <1>5 DEF Notify!BeginRule
  <2>3. CASE u.enabled /\ clock - rules[u.id].last >= CooldownOf[u.conf]
    <3> DEFINE c == [check[k] EXCEPT !.at = "evaluate", !.id = u.id]
    <3>1. c \in CheckSet /\ c.at = "evaluate" /\ c.rules = check[k].rules /\ c.id = u.id
      BY <1>1 DEF CheckSet, Loaded, AtRule
    <3>2. Only(c)
      BY <2>1, <2>3
    <3> HIDE DEF c
    <3>3. Picks(k)
      BY <1>2, <2>2, <2>3, <3>1, <3>2 DEF Picks, Notify!history
    <3> QED
      BY <1>2, <2>2, <3>1, <3>2, <3>3 DEF Notify!history
  <2>4. CASE ~(u.enabled /\ clock - rules[u.id].last >= CooldownOf[u.conf])
    BY <1>3, <2>1, <2>2, <2>4 DEF Passes, Notify!history
  <2> QED
    BY <2>3, <2>4
<1>6. CASE Notify!Evaluate(k)
  <2>1. check[k].at = "evaluate" /\ UNCHANGED <<clock, rules, post, Notify!history>>
    BY <1>6 DEF Notify!Evaluate
  <2>2. CASE Notify!NextRule(k, Notify!Current(k))
    BY <1>3, <2>1, <2>2 DEF Passes, Notify!history
  <2>3. CASE check' = [check EXCEPT ![k].at = "dispatch"]
    <3> DEFINE c == [check[k] EXCEPT !.at = "dispatch"]
    <3>1. c \in CheckSet /\ c.at = "dispatch" /\ c.rules = check[k].rules /\ c.id = check[k].id
      BY <1>1 DEF CheckSet, AtRule
    <3>2. Only(c)
      BY <2>3
    <3> HIDE DEF c
    <3> QED
      BY <1>2, <2>1, <3>1, <3>2 DEF Goes, Notify!history
  <2> QED
    BY <1>6, <2>2, <2>3 DEF Notify!Evaluate
<1>7. CASE Notify!Dispatch(k)
  <2> DEFINE c == [check[k] EXCEPT !.at = "build"]
  <2>1. c \in CheckSet /\ c.at = "build" /\ c.rules = check[k].rules /\ c.id = check[k].id
    BY <1>1 DEF CheckSet, AtRule
  <2>2. Only(c) /\ check[k].at = "dispatch" /\ UNCHANGED <<clock, rules, post, Notify!history>>
    BY <1>7 DEF Notify!Dispatch
  <2> HIDE DEF c
  <2> QED
    BY <1>2, <2>1, <2>2 DEF Goes, Notify!history
<1>8. CASE Notify!BuildRow(k)
  <2> DEFINE w == Notify!Row(TRUE, Notify!Current(k).enabled, Notify!Current(k).conf, clock, clock)
             c == [check[k] EXCEPT !.at = "bump", !.row = w]
  <2>1. Only(c) /\ check[k].at = "build" /\ UNCHANGED <<clock, rules, post, Notify!history>>
    BY <1>8 DEF Notify!BuildRow
  <2>2. Notify!Current(k) \in Loaded /\ clock \in Nat
    BY <2>1, CurrentIsLoaded DEF AtRule, NotifyTypes
  <2>3. w \in RuleRows
    BY <2>2, Records DEF Loaded
  <2> HIDE DEF w
  <2>4. c \in CheckSet /\ c.at = "bump" /\ c.rules = check[k].rules /\ c.id = check[k].id /\ c.row = w
    BY <1>1, <2>3 DEF CheckSet, AtRule
  <2> HIDE DEF c
  <2> QED
    BY <1>2, <2>1, <2>4 DEF Builds, Notify!history, w
<1>9. CASE Notify!Bump(k)
  <2>1. /\ Notify!NextRule(k, Notify!Current(k)) /\ check[k].at = "bump"
        /\ UNCHANGED <<clock, post, stale, reset, mixed>>
    BY <1>9 DEF Notify!Bump
  <2>2. \/ /\ Notify!Insert(check[k].id, check[k].row)
           /\ fires' = fires \cup {[rule |-> check[k].id, at |-> check[k].row.last]}
        \/ UNCHANGED <<rules, fires>>
    BY <1>9 DEF Notify!Bump
  <2> QED
    BY <1>3, <2>1, <2>2 DEF Bumps
<1>10. CASE Notify!EndCheck(k)
  <2> DEFINE c == [Notify!Idle EXCEPT !.at = "done"]
  <2>1. c \in CheckSet /\ c.at = "done" /\ c.rules = {}
    BY Records DEF CheckSet, Notify!Over, Notify!Idle
  <2>2. Only(c) /\ check[k].at = "rule" /\ UNCHANGED <<clock, rules, post, Notify!history>>
    BY <1>10 DEF Notify!EndCheck
  <2> HIDE DEF c
  <2> QED
    BY <1>2, <2>1, <2>2 DEF Ends, Notify!history
<1> QED
  BY <1>4, <1>5, <1>6, <1>7, <1>8, <1>9, <1>10 DEF Notify!Check

\* The steps of a form post.
Holds(p) ==
    /\ post[p].at = "new" /\ post'[p].at = "insert" /\ post'[p].id \in NotifyRules
    /\ \/ post'[p].form = "create" /\ rules[post'[p].id] = Notify!NoRow /\ post'[p].row.last = 0
       \/ post'[p].form = "save" /\ post'[p].row.last = rules[post'[p].id].last
       \/ post'[p].form \in {"toggle", "delete"} /\ post'[p].row.last = 0
    /\ post'[p].row.ver = clock
    /\ UNCHANGED <<rules, stale, reset>> /\ mixed' = (mixed \/ Notify!Serving # {})
Writes(p) ==
    /\ post[p].at = "insert" /\ post'[p].at = "done" /\ UNCHANGED mixed
    /\ \/ /\ Notify!Insert(post[p].id, post[p].row)
          /\ stale' = stale \cup {<<k, post[p].id>> : k \in {j \in Checks : check[j].at \in Notify!Reading}}
          /\ reset \subseteq reset' /\ reset' \subseteq reset \cup {post[p].id}
          /\ post[p].form \in {"toggle", "delete"} => post[p].id \in reset'
       \/ UNCHANGED <<rules, stale, reset>>

PostSet == [at : {"insert"} \cup Notify!Over, form : Forms \cup {"none"},
            id : NotifyRules \cup {"none"}, row : RuleRows]

\* A post's step is one of those, and leaves all else alone.
LEMMA PostSteps ==
  ASSUME Notify!NotificationAssumption, NotifyTypes, Hands, NEW p \in Posts, Notify!Post(p)
  PROVE  /\ post' \in [Posts -> PostSet]
         /\ \A q \in Posts : q # p => post'[q] = post[q]
         /\ UNCHANGED <<clock, check, fires>>
         /\ Holds(p) \/ Writes(p)
<1> DEFINE Only(c) == post' = [post EXCEPT ![p] = c]
           Effect == /\ post' \in [Posts -> PostSet]
                     /\ \A q \in Posts : q # p => post'[q] = post[q]
                     /\ UNCHANGED <<clock, check, fires>>
                     /\ Holds(p)
<1>1. post \in [Posts -> PostSet] /\ post[p] \in PostSet /\ clock \in Nat
  BY DEF NotifyTypes, PostSet
<1>2. ASSUME NEW c \in PostSet, Only(c)
      PROVE  /\ post' \in [Posts -> PostSet] /\ post'[p] = c
             /\ \A q \in Posts : q # p => post'[q] = post[q]
  BY <1>1, <1>2
<1>3. ASSUME NEW r \in NotifyRules, NEW f \in {"create", "save", "toggle", "delete"},
             NEW w \in RuleRows, Notify!Hold(p, f, r, w), w.ver = clock,
             \/ f = "create" /\ rules[r] = Notify!NoRow /\ w.last = 0
             \/ f = "save" /\ w.last = rules[r].last
             \/ f \in {"toggle", "delete"} /\ w.last = 0
      PROVE  Effect
  <2> DEFINE c == [at |-> "insert", form |-> f, id |-> r, row |-> w]
  <2>1. Only(c) /\ f \in Forms /\ post[p].at = "new"
        /\ UNCHANGED <<clock, rules, check, fires, stale, reset>>
        /\ mixed' = (mixed \/ Notify!Serving # {})
    BY <1>3 DEF Notify!Hold, Notify!Begin
  <2>2. c \in PostSet /\ c.at = "insert" /\ c.form = f /\ c.id = r /\ c.row = w
    BY <2>1 DEF PostSet
  <2> HIDE DEF c
  <2> QED
    BY <1>2, <1>3, <2>1, <2>2 DEF Holds
<1>4. ASSUME NEW r \in NotifyRules,
             \/ Notify!Create(p, r) \/ Notify!Save(p, r) \/ Notify!Toggle(p, r)
             \/ Notify!Delete(p, r)
      PROVE  Effect
  <2>0. rules[r] \in RuleRows /\ rules[r].enabled \in BOOLEAN /\ rules[r].conf \in Confs
        /\ rules[r].last \in Nat /\ Notify!Never \in Nat /\ Notify!Never = 0
    BY DEF NotifyTypes, RuleRows, Notify!Never
  <2> HIDE DEF Effect
  <2>1. CASE Notify!Create(p, r)
    <3>1. PICK c \in Confs : Notify!Hold(p, "create", r, Notify!Row(TRUE, TRUE, c, Notify!Never, clock))
      BY <2>1 DEF Notify!Create
    <3>2. LET w == Notify!Row(TRUE, TRUE, c, Notify!Never, clock) IN w \in RuleRows /\ w.ver = clock /\ w.last = 0
      BY <1>1, <2>0 DEF Notify!Row, RuleRows
    <3>3. rules[r] = Notify!NoRow
      BY <2>1 DEF Notify!Create
    <3> QED
      BY <1>3, <3>1, <3>2, <3>3
  <2>2. CASE Notify!Save(p, r)
    <3>1. PICK c \in Confs : Notify!Hold(p, "save", r, Notify!Row(TRUE, rules[r].enabled, c, rules[r].last, clock))
      BY <2>2 DEF Notify!Save
    <3>2. LET w == Notify!Row(TRUE, rules[r].enabled, c, rules[r].last, clock)
          IN w \in RuleRows /\ w.ver = clock /\ w.last = rules[r].last
      BY <1>1, <2>0 DEF Notify!Row, RuleRows
    <3> QED
      BY <1>3, <3>1, <3>2
  <2>3. CASE Notify!Toggle(p, r)
    <3>1. Notify!Hold(p, "toggle", r, Notify!Row(TRUE, ~ rules[r].enabled, rules[r].conf, Notify!Never, clock))
      BY <2>3 DEF Notify!Toggle
    <3>2. LET w == Notify!Row(TRUE, ~ rules[r].enabled, rules[r].conf, Notify!Never, clock)
          IN w \in RuleRows /\ w.ver = clock /\ w.last = 0
      BY <1>1, <2>0 DEF Notify!Row, RuleRows
    <3> QED
      BY <1>3, <3>1, <3>2
  <2>4. CASE Notify!Delete(p, r)
    <3>1. Notify!Hold(p, "delete", r, Notify!Row(FALSE, rules[r].enabled, rules[r].conf, Notify!Never, clock))
      BY <2>4 DEF Notify!Delete
    <3>2. LET w == Notify!Row(FALSE, rules[r].enabled, rules[r].conf, Notify!Never, clock)
          IN w \in RuleRows /\ w.ver = clock /\ w.last = 0
      BY <1>1, <2>0 DEF Notify!Row, RuleRows
    <3> QED
      BY <1>3, <3>1, <3>2
  <2> QED
    BY <1>4, <2>1, <2>2, <2>3, <2>4
<1>5. CASE Notify!Write(p)
  <2> DEFINE c == [post[p] EXCEPT !.at = "done"]
  <2>1. Only(c) /\ post[p].at = "insert" /\ UNCHANGED <<clock, check, fires, mixed>>
    BY <1>5 DEF Notify!Write
  <2>2. c \in PostSet /\ c.at = "done"
    BY <1>1 DEF PostSet, Notify!Over
  <2>3. \/ /\ Notify!Insert(post[p].id, post[p].row)
           /\ stale' = stale \cup {<<k, post[p].id>> : k \in {j \in Checks : check[j].at \in Notify!Reading}}
           /\ reset' = IF post[p].form \in {"toggle", "delete"} THEN reset \cup {post[p].id} ELSE reset
        \/ UNCHANGED <<rules, stale, reset>>
    BY <1>5 DEF Notify!Write
  <2> HIDE DEF c
  <2>4. Writes(p)
    BY <1>2, <2>1, <2>2, <2>3 DEF Writes
  <2> QED
    BY <1>2, <2>1, <2>2, <2>4
<1> QED
  BY <1>4, <1>5 DEF Notify!Post

\* An insert is seen if nothing later was.
LEMMA Inserting ==
  ASSUME rules \in [NotifyRules -> RuleRows], NEW r \in NotifyRules, NEW w \in RuleRows, Notify!Insert(r, w)
  PROVE  /\ rules' \in [NotifyRules -> RuleRows]
         /\ \A q \in NotifyRules : q # r => rules'[q] = rules[q]
         /\ \/ rules'[r] = w /\ w.ver >= rules[r].ver
            \/ rules' = rules /\ w.ver < rules[r].ver
<1>1. w.ver \in Nat /\ rules[r].ver \in Nat
  BY DEF RuleRows
<1> QED
  BY <1>1 DEF Notify!Insert

-----------------------------------------------------------------------------
(* The invariant, one part at a time.                                      *)

CheckMoves(k) ==
    /\ check' \in [Checks -> CheckSet]
    /\ \A j \in Checks : j # k => check'[j] = check[j]
    /\ UNCHANGED <<clock, post, stale, reset>>
    /\ \/ Loads(k) \/ Passes(k) \/ Picks(k) \/ Goes(k)
       \/ Builds(k) \/ Bumps(k) \/ Ends(k)
PostMoves(p) ==
    /\ post' \in [Posts -> PostSet]
    /\ \A q \in Posts : q # p => post'[q] = post[q]
    /\ UNCHANGED <<clock, check, fires>>
    /\ Holds(p) \/ Writes(p)
\* The clock, a death, or nothing.
OtherMoves ==
    /\ clock' \in Nat /\ clock' >= clock
    /\ check' \in [Checks -> CheckSet] /\ post' \in [Posts -> PostSet]
    /\ \A k \in Checks : check'[k] = check[k] \/ (check'[k].at \in Notify!Over /\ check'[k].rules = {})
    /\ \A p \in Posts : post'[p] = post[p] \/ post'[p].at \in Notify!Over
    /\ UNCHANGED <<rules, Notify!history>>

\* Every step is one of a check, of a post, or of the rest.
LEMMA StepKinds ==
  ASSUME Notify!NotificationAssumption, NotifyTypes, Hands, [Notify!Next]_Notify!vars
  PROVE  \/ \E k \in Checks : CheckMoves(k)
         \/ \E p \in Posts : PostMoves(p)
         \/ OtherMoves
<1>0. check \in [Checks -> CheckSet] /\ post \in [Posts -> PostSet] /\ clock \in Nat
  BY DEF NotifyTypes, CheckSet, PostSet
<1>1. CASE Notify!Tick \/ UNCHANGED Notify!vars
  BY <1>0, <1>1 DEF Notify!Tick, Notify!vars, OtherMoves, Notify!history
<1>2. CASE Notify!Crash
  <2> DEFINE c == [Notify!Idle EXCEPT !.at = "dead"]
             d(p) == [post[p] EXCEPT !.at = "dead"]
  <2>1. c \in CheckSet /\ c.at \in Notify!Over /\ c.rules = {}
    BY Records DEF CheckSet, Notify!Over, Notify!Idle
  <2>2. \A p \in Posts : d(p) \in PostSet /\ d(p).at \in Notify!Over
    BY <1>0 DEF PostSet, Notify!Over
  <2>3. /\ check' = [k \in Checks |-> IF check[k].at \in Notify!Over THEN check[k] ELSE c]
        /\ post' = [p \in Posts |-> IF post[p].at \in Notify!Over THEN post[p] ELSE d(p)]
        /\ UNCHANGED <<clock, rules, Notify!history>>
    BY <1>2 DEF Notify!Crash
  <2> HIDE DEF c, d
  <2>4. \A k \in Checks : check'[k] \in CheckSet /\ (check'[k] = check[k] \/ check'[k] = c)
    BY <1>0, <2>1, <2>3
  <2>5. \A p \in Posts : post'[p] \in PostSet /\ (post'[p] = post[p] \/ post'[p] = d(p))
    BY <1>0, <2>2, <2>3
  <2>6. check' \in [Checks -> CheckSet] /\ post' \in [Posts -> PostSet]
    BY <2>3, <2>4, <2>5
  <2> QED
    BY <1>0, <2>1, <2>2, <2>3, <2>4, <2>5, <2>6 DEF OtherMoves
<1>3. ASSUME NEW k \in Checks, Notify!Check(k) PROVE CheckMoves(k)
  BY <1>3, CheckSteps DEF CheckMoves
<1>4. ASSUME NEW p \in Posts, Notify!Post(p) PROVE PostMoves(p)
  BY <1>4, PostSteps DEF PostMoves
<1> QED
  BY <1>1, <1>2, <1>3, <1>4 DEF Notify!Next

\* The table after a step: at most one rule's row is replaced.
LEMMA RulesStep ==
  ASSUME Notify!NotificationAssumption, NotifyTypes, Hands
  PROVE  /\ \A k \in Checks : Bumps(k) =>
                \/ rules' = rules
                \/ /\ check[k].id \in NotifyRules /\ rules'[check[k].id] = check[k].row
                   /\ check[k].row.ver >= rules[check[k].id].ver
                   /\ \A q \in NotifyRules : q # check[k].id => rules'[q] = rules[q]
         /\ \A p \in Posts : Writes(p) =>
                \/ rules' = rules
                \/ /\ post[p].id \in NotifyRules /\ rules'[post[p].id] = post[p].row
                   /\ \A q \in NotifyRules : q # post[p].id => rules'[q] = rules[q]
         /\ [Notify!Next]_Notify!vars => rules' \in [NotifyRules -> RuleRows]
<1>1. ASSUME NEW k \in Checks, Bumps(k)
      PROVE  /\ rules' \in [NotifyRules -> RuleRows]
             /\ \/ rules' = rules
                \/ /\ check[k].id \in NotifyRules /\ rules'[check[k].id] = check[k].row
                   /\ check[k].row.ver >= rules[check[k].id].ver
                   /\ \A q \in NotifyRules : q # check[k].id => rules'[q] = rules[q]
  <2>1. check[k].id \in NotifyRules /\ check[k].row \in RuleRows /\ rules \in [NotifyRules -> RuleRows]
    BY <1>1, CurrentIsLoaded DEF Bumps, AtRule, NotifyTypes
  <2> QED
    BY <1>1, <2>1, Inserting DEF Bumps
<1>2. ASSUME NEW p \in Posts, Writes(p)
      PROVE  /\ rules' \in [NotifyRules -> RuleRows]
             /\ \/ rules' = rules
                \/ /\ post[p].id \in NotifyRules /\ rules'[post[p].id] = post[p].row
                   /\ \A q \in NotifyRules : q # post[p].id => rules'[q] = rules[q]
  <2>1. post[p].id \in NotifyRules /\ post[p].row \in RuleRows /\ rules \in [NotifyRules -> RuleRows]
    BY <1>2 DEF Writes, Hands, NotifyTypes
  <2> QED
    BY <1>2, <2>1, Inserting DEF Writes
<1>3. ASSUME [Notify!Next]_Notify!vars PROVE rules' \in [NotifyRules -> RuleRows]
  <2>1. rules \in [NotifyRules -> RuleRows]
    BY DEF NotifyTypes
  <2> QED
    BY <1>1, <1>2, <1>3, <2>1, StepKinds DEF CheckMoves, PostMoves, OtherMoves, Loads, Passes,
       Picks, Goes, Builds, Ends, Holds
<1> QED
  BY <1>1, <1>2, <1>3

\* The records keep their types, and the clock goes on.
LEMMA TypeStep ==
  ASSUME Notify!NotificationAssumption, NotifyTypes, Hands, [Notify!Next]_Notify!vars
  PROVE  NotifyTypes' /\ clock' >= clock
<1>0. /\ check \in [Checks -> CheckSet] /\ post \in [Posts -> PostSet] /\ clock \in Nat /\ clock >= First
      /\ fires \subseteq [rule : NotifyRules, at : Nat]
      /\ stale \subseteq Checks \X NotifyRules /\ reset \subseteq NotifyRules /\ mixed \in BOOLEAN
      /\ First \in Nat
  BY DEF NotifyTypes, CheckSet, PostSet, Notify!NotificationAssumption
<1>1. rules' \in [NotifyRules -> RuleRows]
  BY RulesStep
<1> DEFINE Rest == /\ clock' \in Nat /\ clock' >= clock
                   /\ check' \in [Checks -> CheckSet] /\ post' \in [Posts -> PostSet]
                   /\ fires' \subseteq [rule : NotifyRules, at : Nat]
                   /\ stale' \subseteq Checks \X NotifyRules /\ reset' \subseteq NotifyRules
                   /\ mixed' \in BOOLEAN
<1>2. ASSUME NEW k \in Checks, CheckMoves(k) PROVE Rest
  <2>1. mixed' \in BOOLEAN
    BY <1>0, <1>2 DEF CheckMoves, Loads, Passes, Picks, Goes, Builds, Bumps, Ends
  <2>2. CASE Bumps(k)
    <3>1. check[k].id \in NotifyRules /\ check[k].row.last \in Nat
      BY <1>0, <2>2, CurrentIsLoaded DEF Bumps, AtRule, CheckSet, RuleRows
    <3> QED
      BY <1>0, <1>2, <2>1, <2>2, <3>1 DEF CheckMoves, Bumps
  <2>3. CASE ~ Bumps(k)
    <3>1. fires' = fires
      BY <1>2, <2>3 DEF CheckMoves, Loads, Passes, Picks, Goes, Builds, Ends
    <3> QED
      BY <1>0, <1>2, <2>1, <3>1 DEF CheckMoves
  <2> QED
    BY <2>2, <2>3
<1>3. ASSUME NEW p \in Posts, PostMoves(p) PROVE Rest
  <2>1. mixed' \in BOOLEAN
    BY <1>0, <1>3 DEF PostMoves, Holds, Writes
  <2>2. post[p].at = "insert" => post[p].id \in NotifyRules
    BY DEF Hands
  <2> QED
    BY <1>0, <1>3, <2>1, <2>2 DEF PostMoves, Holds, Writes
<1>4. ASSUME OtherMoves PROVE Rest
  BY <1>0, <1>4 DEF OtherMoves, Notify!history
<1> HIDE DEF Rest
<1>5. Rest
  BY <1>2, <1>3, <1>4, StepKinds
<1> QED
  BY <1>0, <1>1, <1>5 DEF Rest, NotifyTypes, CheckSet, PostSet

\* What requests hold in hand, they hold after a step.
LEMMA HandsStep ==
  ASSUME Notify!NotificationAssumption, NotifyTypes, Hands, [Notify!Next]_Notify!vars
  PROVE  Hands'
<1> DEFINE H(c) == /\ \A u, v \in c.rules : u.id = v.id => u = v
                   /\ c.at \in AtRule => \E u \in c.rules : u.id = c.id /\ u.enabled
                   /\ c.at = "bump" =>
                          \A u \in c.rules : u.id = c.id =>
                              /\ c.row.live /\ c.row.enabled = u.enabled
                              /\ c.row.conf = u.conf /\ c.row.last = c.row.ver
           I(q) == q.at = "insert" => q.id \in NotifyRules
<1>0. (\A k \in Checks : H(check[k])) /\ (\A p \in Posts : I(post[p]))
  BY DEF Hands
<1>1. ASSUME NEW k \in Checks, CheckMoves(k) PROVE H(check'[k]) /\ post' = post
  <2>1. CASE Loads(k)
    BY <2>1, <1>1 DEF Loads, AtRule, CheckMoves
  <2>2. CASE Passes(k)
    BY <1>0, <2>2, <1>1 DEF Passes, AtRule, CheckMoves
  <2>3. CASE Picks(k)
    BY <1>0, <2>3, <1>1 DEF Picks, AtRule, CheckMoves
  <2>4. CASE Goes(k)
    BY <1>0, <2>4, <1>1 DEF Goes, AtRule, CheckMoves
  <2>5. CASE Builds(k)
    <3>1. /\ Notify!Current(k) \in check[k].rules /\ Notify!Current(k).id = check[k].id
          /\ Notify!Current(k) \in Loaded /\ clock \in Nat
      BY <2>5, CurrentIsLoaded DEF Builds, AtRule, NotifyTypes
    <3>2. \A u \in check[k].rules : u.id = check[k].id => u = Notify!Current(k)
      BY <1>0, <3>1
    <3>3. /\ check'[k].row.live /\ check'[k].row.enabled = Notify!Current(k).enabled
          /\ check'[k].row.conf = Notify!Current(k).conf /\ check'[k].row.last = check'[k].row.ver
      BY <2>5 DEF Builds, Notify!Row
    <3> QED
      <4>1. /\ check'[k].rules = check[k].rules /\ check'[k].id = check[k].id
            /\ check'[k].at = "bump" /\ check[k].at \in AtRule /\ post' = post
        BY <1>1, <2>5 DEF Builds, AtRule, CheckMoves
      <4> QED
        BY <1>0, <3>2, <3>3, <4>1
  <2>6. CASE Bumps(k)
    BY <1>0, <2>6, <1>1 DEF Bumps, AtRule, CheckMoves
  <2>7. CASE Ends(k)
    BY <2>7, <1>1 DEF Ends, AtRule, CheckMoves
  <2> QED
    BY <1>1, <2>1, <2>2, <2>3, <2>4, <2>5, <2>6, <2>7 DEF CheckMoves
<1>2. ASSUME NEW p \in Posts, PostMoves(p) PROVE I(post'[p]) /\ check' = check
  BY <1>2 DEF PostMoves, Holds, Writes
<1>3. ASSUME OtherMoves
      PROVE (\A k \in Checks : H(check'[k])) /\ (\A p \in Posts : I(post'[p]))
  BY <1>0, <1>3 DEF OtherMoves, Notify!Over, AtRule
<1> HIDE DEF H, I
<1>4. (\A k \in Checks : H(check'[k])) /\ (\A p \in Posts : I(post'[p]))
  <2>1. CASE \E k \in Checks : CheckMoves(k)
    BY <1>0, <1>1, <2>1 DEF CheckMoves
  <2>2. CASE \E p \in Posts : PostMoves(p)
    BY <1>0, <1>2, <2>2 DEF PostMoves
  <2> QED
    BY <1>3, <2>1, <2>2, StepKinds
<1> QED
  BY <1>4 DEF Hands, H, I

\* No step makes a row of the future, or takes one that fired away.
LEMMA PastStep ==
  ASSUME Notify!NotificationAssumption, NotifyTypes, Hands, Past, [Notify!Next]_Notify!vars
  PROVE  Past'
<1> DEFINE R(r) == r.last <= r.ver /\ r.ver <= clock
           C(c) == c.at = "bump" => c.row.ver <= clock
           Q(q) == q.at = "insert" => q.row.last <= q.row.ver /\ q.row.ver <= clock /\ q.row.ver > 0
<1>0. /\ \A r \in NotifyRules : R(rules[r]) /\ rules[r] \in RuleRows
      /\ \A k \in Checks : C(check[k]) /\ check[k].row \in RuleRows
      /\ \A p \in Posts : Q(post[p]) /\ post[p].row \in RuleRows
      /\ \A e \in fires : e.rule \in NotifyRules /\ rules[e.rule] # Notify!NoRow
      /\ clock \in Nat /\ clock > 0 /\ clock' \in Nat /\ clock' >= clock
      /\ \A w \in RuleRows : w.last \in Nat /\ w.ver \in Nat
      /\ Notify!NoRow.live = FALSE /\ Notify!NoRow.ver = 0
  <2>1. clock' \in Nat /\ clock' >= clock
    BY TypeStep DEF NotifyTypes
  <2>2. clock \in Nat /\ clock > 0
    BY DEF NotifyTypes, Notify!NotificationAssumption
  <2>3. \A w \in RuleRows : w.last \in Nat /\ w.ver \in Nat
    BY DEF RuleRows
  <2>4. /\ \A r \in NotifyRules : rules[r] \in RuleRows
        /\ \A k \in Checks : check[k].row \in RuleRows
        /\ \A p \in Posts : post[p].row \in RuleRows
        /\ \A e \in fires : e.rule \in NotifyRules
    BY DEF NotifyTypes
  <2>5. /\ \A r \in NotifyRules : R(rules[r])
        /\ \A k \in Checks : C(check[k])
        /\ \A p \in Posts : Q(post[p])
        /\ \A e \in fires : rules[e.rule] # Notify!NoRow
    BY DEF Past
  <2> HIDE DEF R, C, Q
  <2> QED
    BY <2>1, <2>2, <2>3, <2>4, <2>5, Records
<1>1. ASSUME NEW k \in Checks, CheckMoves(k) PROVE Past'
  <2>0. /\ clock' = clock /\ post' = post /\ \A j \in Checks : j # k => check'[j] = check[j]
    BY <1>1 DEF CheckMoves
  <2>1. CASE Builds(k)
    BY <1>0, <2>0, <2>1 DEF Builds, Past, Notify!Row
  <2>2. CASE Bumps(k)
    <3>1. /\ check[k].row.live /\ check[k].row.last = check[k].row.ver /\ check[k].row.ver <= clock
          /\ check'[k].at = "rule" /\ check[k].id \in NotifyRules /\ check[k].row \in RuleRows
      <4>1. check[k].at = "bump" /\ check'[k].at = "rule"
        BY <2>2 DEF Bumps
      <4>2. Notify!Current(k) \in check[k].rules /\ Notify!Current(k).id = check[k].id /\ check[k].id \in NotifyRules
        BY <4>1, CurrentIsLoaded DEF AtRule
      <4> QED
        BY <1>0, <4>1, <4>2 DEF Hands, Past
    <3>2. \/ rules' = rules
          \/ /\ rules'[check[k].id] = check[k].row
             /\ \A q \in NotifyRules : q # check[k].id => rules'[q] = rules[q]
      BY <2>2, RulesStep
    <3>3. rules'[check[k].id] # Notify!NoRow \/ UNCHANGED <<rules, fires>>
      <4>1. CASE UNCHANGED <<rules, fires>>
        BY <4>1
      <4>2. CASE Notify!Insert(check[k].id, check[k].row)
        <5>1. rules \in [NotifyRules -> RuleRows]
          BY DEF NotifyTypes
        <5>2. \/ rules'[check[k].id] = check[k].row
              \/ rules' = rules /\ check[k].row.ver < rules[check[k].id].ver
          BY <3>1, <4>2, <5>1, Inserting
        <5> QED
          BY <1>0, <3>1, <5>2
      <4> QED
        BY <2>2, <4>1, <4>2 DEF Bumps
    <3>4. \A e \in fires' : e \in fires \/ e.rule = check[k].id
      BY <2>2 DEF Bumps
    <3>5. \A r \in NotifyRules : R(rules'[r])
      BY <1>0, <3>1, <3>2
    <3>6. \A e \in fires' : rules'[e.rule] # Notify!NoRow
      <4> SUFFICES ASSUME NEW e \in fires' PROVE rules'[e.rule] # Notify!NoRow
        OBVIOUS
      <4>1. CASE UNCHANGED <<rules, fires>>
        BY <1>0, <4>1
      <4>2. CASE e.rule = check[k].id
        BY <1>0, <3>3, <4>2
      <4>3. CASE e \in fires /\ e.rule # check[k].id
        BY <1>0, <3>2, <4>3
      <4> QED
        BY <3>4, <4>2, <4>3
    <3> QED
      BY <1>0, <2>0, <3>1, <3>5, <3>6 DEF Past
  <2>3. CASE ~ Builds(k) /\ ~ Bumps(k)
    <3>1. check'[k].at # "bump" /\ rules' = rules /\ fires' = fires
      BY <1>1, <2>3 DEF CheckMoves, Loads, Passes, Picks, Goes, Ends
    <3> QED
      BY <1>0, <2>0, <3>1 DEF Past
  <2> QED
    BY <2>1, <2>2, <2>3
<1>2. ASSUME NEW p \in Posts, PostMoves(p) PROVE Past'
  <2>0. /\ clock' = clock /\ check' = check /\ fires' = fires
        /\ \A q \in Posts : q # p => post'[q] = post[q]
    BY <1>2 DEF PostMoves
  <2>1. CASE Holds(p)
    <3>1. /\ rules' = rules /\ post'[p].row.ver = clock
          /\ post'[p].row.last = 0 \/ (post'[p].row.last = rules[post'[p].id].last /\ post'[p].id \in NotifyRules)
      BY <2>1 DEF Holds
    <3>2. Q(post'[p])
      BY <1>0, <3>1
    <3> QED
      BY <1>0, <2>0, <3>1, <3>2 DEF Past
  <2>2. CASE Writes(p)
    <3>1. post[p].at = "insert" /\ post'[p].at = "done"
      BY <2>2 DEF Writes
    <3>2. \/ rules' = rules
          \/ /\ post[p].id \in NotifyRules /\ rules'[post[p].id] = post[p].row
             /\ \A q \in NotifyRules : q # post[p].id => rules'[q] = rules[q]
      BY <2>2, RulesStep
    <3>3. \A r \in NotifyRules : R(rules'[r]) /\ (rules[r] # Notify!NoRow => rules'[r] # Notify!NoRow)
      BY <1>0, <3>1, <3>2
    <3> QED
      BY <1>0, <2>0, <3>1, <3>3 DEF Past
  <2> QED
    BY <1>2, <2>1, <2>2 DEF PostMoves
<1>3. CASE OtherMoves
  BY <1>0, <1>3 DEF OtherMoves, Notify!history, Past, Notify!Over
<1> QED
  BY <1>1, <1>2, <1>3, StepKinds

\* The row a check is about to insert is the one it loaded.
LEMMA BumpedRow ==
  ASSUME NotifyTypes, Hands, NEW k \in Checks, Bumps(k)
  PROVE  \E u \in check[k].rules :
             /\ u.id = check[k].id /\ u.enabled /\ check[k].row.live
             /\ check[k].row.enabled = u.enabled /\ check[k].row.conf = u.conf
             /\ check[k].row.last = check[k].row.ver
<1>1. check[k].at = "bump"
  BY DEF Bumps
<1>2. /\ Notify!Current(k) \in check[k].rules /\ Notify!Current(k).id = check[k].id /\ Notify!Current(k).enabled
  BY <1>1, CurrentIsLoaded DEF AtRule
<1> QED
  BY <1>1, <1>2 DEF Hands

\* A post that writes makes stale what is loaded; a check that writes does not.
LEMMA LoadedStep ==
  ASSUME Notify!NotificationAssumption, NotifyTypes, Hands, Quiet, Kept, [Notify!Next]_Notify!vars
  PROVE  Quiet' /\ Kept'
<1> DEFINE Out(k, r) == <<k, r>> \in stale
           Was(r) == \A j \in Checks : ~ Out(j, r)
<1>0. /\ \A k \in Checks : check[k].at \in Notify!Reading =>
             \A u \in check[k].rules :
                 /\ u.id \in NotifyRules
                 /\ ~ Out(k, u.id) /\ u.enabled => rules[u.id].live /\ rules[u.id].enabled
                 /\ Was(u.id) => /\ rules[u.id].live /\ rules[u.id].enabled = u.enabled
                                 /\ rules[u.id].conf = u.conf
      /\ \A k \in Checks, u \in Loaded : u \in check[k].rules => u.id \in NotifyRules
  BY DEF Quiet, Kept, NotifyTypes, Loaded
<1>1. ASSUME NEW k \in Checks, CheckMoves(k) PROVE Quiet' /\ Kept'
  <2>0. UNCHANGED stale /\ \A j \in Checks : j # k => check'[j] = check[j]
    BY <1>1 DEF CheckMoves
  <2>1. CASE Loads(k)
    BY <1>0, <2>0, <2>1 DEF Loads, Quiet, Kept
  <2>2. CASE Bumps(k)
    <3>0. /\ check[k].at \in Notify!Reading /\ check'[k].at = "rule"
          /\ check'[k].rules \subseteq check[k].rules
      BY <2>2 DEF Bumps, Notify!Reading
    <3>1. PICK v \in check[k].rules :
             /\ v.id = check[k].id /\ v.enabled /\ check[k].row.live
             /\ check[k].row.enabled = v.enabled /\ check[k].row.conf = v.conf
      BY <2>2, BumpedRow
    <3>2. \/ rules' = rules
          \/ /\ rules'[check[k].id] = check[k].row
             /\ \A q \in NotifyRules : q # check[k].id => rules'[q] = rules[q]
      BY <2>2, RulesStep
    <3>3. ASSUME NEW j \in Checks, check'[j].at \in Notify!Reading, NEW u \in check'[j].rules
          PROVE  /\ ~ Out(j, u.id) /\ u.enabled => rules'[u.id].live /\ rules'[u.id].enabled
                 /\ Was(u.id) => /\ rules'[u.id].live /\ rules'[u.id].enabled = u.enabled
                                 /\ rules'[u.id].conf = u.conf
      <4>1. check[j].at \in Notify!Reading /\ u \in check[j].rules
        BY <2>0, <3>0, <3>3
      <4>2. CASE rules'[u.id] = rules[u.id]
        BY <1>0, <4>1, <4>2
      <4>3. CASE u.id = check[k].id /\ rules'[u.id] = check[k].row
        <5>1. rules'[u.id].live /\ rules'[u.id].enabled
          BY <3>1, <4>3
        <5>2. ASSUME Was(u.id)
              PROVE  rules'[u.id].enabled = u.enabled /\ rules'[u.id].conf = u.conf
          <6>1. rules[u.id].enabled = u.enabled /\ rules[u.id].conf = u.conf
            BY <1>0, <4>1, <5>2
          <6>2. rules[v.id].enabled = v.enabled /\ rules[v.id].conf = v.conf
            BY <1>0, <3>0, <3>1, <4>3, <5>2
          <6> QED
            BY <3>1, <4>3, <6>1, <6>2
        <5> QED
          BY <5>1, <5>2
      <4> QED
        BY <1>0, <3>2, <4>1, <4>2, <4>3
    <3> QED
      BY <2>0, <3>3 DEF Quiet, Kept
  <2>3. CASE ~ Loads(k) /\ ~ Bumps(k)
    <3>1. /\ rules' = rules
          /\ check'[k].at \in Notify!Reading => /\ check[k].at \in Notify!Reading
                                                /\ check'[k].rules \subseteq check[k].rules
      BY <1>1, <2>3 DEF CheckMoves, Passes, Picks, Goes, Builds, Ends, Notify!Reading
    <3> QED
      BY <1>0, <2>0, <3>1 DEF Quiet, Kept
  <2> QED
    BY <2>1, <2>2, <2>3
<1>2. ASSUME NEW p \in Posts, PostMoves(p) PROVE Quiet' /\ Kept'
  <2>0. check' = check
    BY <1>2 DEF PostMoves
  <2>1. CASE rules' = rules /\ stale' = stale
    BY <1>0, <2>0, <2>1 DEF Quiet, Kept
  <2>2. CASE Writes(p) /\ ~ (rules' = rules /\ stale' = stale)
    <3>1. /\ stale' = stale \cup {<<k, post[p].id>> : k \in {j \in Checks : check[j].at \in Notify!Reading}}
          /\ \A q \in NotifyRules : q # post[p].id => rules'[q] = rules[q]
      BY <2>2, RulesStep DEF Writes
    <3>2. ASSUME NEW j \in Checks, check[j].at \in Notify!Reading, NEW u \in check[j].rules
          PROVE  \/ <<j, u.id>> \in stale'
                 \/ /\ rules'[u.id] = rules[u.id]
                    /\ \A i \in Checks : <<i, u.id>> \notin stale' => ~ Out(i, u.id)
      BY <1>0, <3>1, <3>2
    <3> QED
      <4>1. ASSUME NEW j \in Checks, check[j].at \in Notify!Reading, NEW u \in check[j].rules,
                   <<j, u.id>> \notin stale', u.enabled
            PROVE  rules'[u.id].live /\ rules'[u.id].enabled
        <5>1. rules'[u.id] = rules[u.id] /\ ~ Out(j, u.id)
          BY <3>2, <4>1
        <5> QED
          BY <1>0, <4>1, <5>1
      <4>2. ASSUME NEW j \in Checks, check[j].at \in Notify!Reading, NEW u \in check[j].rules,
                   \A i \in Checks : <<i, u.id>> \notin stale'
            PROVE  /\ rules'[u.id].live /\ rules'[u.id].enabled = u.enabled
                   /\ rules'[u.id].conf = u.conf
        <5>1. rules'[u.id] = rules[u.id] /\ Was(u.id)
          BY <3>2, <4>2
        <5> QED
          BY <1>0, <4>2, <5>1
      <4> QED
        BY <2>0, <4>1, <4>2 DEF Quiet, Kept
  <2> QED
    BY <1>2, <2>1, <2>2 DEF PostMoves, Holds
<1>3. CASE OtherMoves
  <2>1. /\ UNCHANGED <<rules, stale>>
        /\ \A k \in Checks : check'[k].at \in Notify!Reading => check'[k] = check[k]
    BY <1>3 DEF OtherMoves, Notify!history, Notify!Reading, Notify!Over
  <2> QED
    BY <1>0, <2>1 DEF Quiet, Kept
<1> QED
  BY <1>1, <1>2, <1>3, StepKinds

\* Whoever acts in turn is served alone.
LEMMA OneAtATimeStep ==
  ASSUME Notify!NotificationAssumption, NotifyTypes, Hands, RequestsInTurn, [Notify!Next]_Notify!vars, ~ mixed'
  PROVE  /\ ~ mixed /\ OneAtATime'
         /\ \A k \in Checks : CheckMoves(k) =>
                /\ \A j \in Checks : j # k => check'[j].at \in Notify!Over
                /\ \A p \in Posts : post[p].at \in Notify!Over
         /\ \A p \in Posts : PostMoves(p) =>
                /\ \A q \in Posts : q # p => post'[q].at \in Notify!Over
                /\ \A k \in Checks : check[k].at \in Notify!Over
<1>1. ASSUME NEW k \in Checks, CheckMoves(k)
      PROVE  /\ ~ mixed /\ OneAtATime'
             /\ \A j \in Checks : j # k => check'[j].at \in Notify!Over
             /\ \A p \in Posts : post[p].at \in Notify!Over
  <2>0. post' = post /\ \A j \in Checks : j # k => check'[j] = check[j]
    BY <1>1 DEF CheckMoves
  <2>1. ~ mixed /\ (Loads(k) => Notify!Serving = {})
    <3>1. Loads(k) => mixed' = (mixed \/ Notify!Serving # {})
      BY DEF Loads
    <3>2. ~ Loads(k) => mixed' = mixed
      BY <1>1 DEF CheckMoves, Passes, Picks, Goes, Builds, Bumps, Ends
    <3> QED
      BY <3>1, <3>2 DEF NotifyTypes
  <2>2. ~ Loads(k) => check[k].at \notin Notify!Over
    BY <1>1 DEF CheckMoves, Passes, Picks, Goes, Builds, Bumps, Ends, Notify!Over
  <2>3. /\ \A j \in Checks : j # k => check[j].at \in Notify!Over
        /\ \A p \in Posts : post[p].at \in Notify!Over
    BY <2>1, <2>2 DEF RequestsInTurn, OneAtATime, Notify!Serving
  <2> QED
    BY <2>0, <2>1, <2>3 DEF OneAtATime
<1>2. ASSUME NEW p \in Posts, PostMoves(p)
      PROVE  /\ ~ mixed /\ OneAtATime'
             /\ \A q \in Posts : q # p => post'[q].at \in Notify!Over
             /\ \A k \in Checks : check[k].at \in Notify!Over
  <2>0. check' = check /\ \A q \in Posts : q # p => post'[q] = post[q]
    BY <1>2 DEF PostMoves
  <2>1. ~ mixed /\ (Holds(p) => Notify!Serving = {})
    <3>1. Holds(p) => mixed' = (mixed \/ Notify!Serving # {})
      BY DEF Holds
    <3>2. ~ Holds(p) => mixed' = mixed
      BY <1>2 DEF PostMoves, Writes
    <3> QED
      BY <3>1, <3>2 DEF NotifyTypes
  <2>2. ~ Holds(p) => post[p].at \notin Notify!Over
    BY <1>2 DEF PostMoves, Writes, Notify!Over
  <2>3. /\ \A q \in Posts : q # p => post[q].at \in Notify!Over
        /\ \A k \in Checks : check[k].at \in Notify!Over
    BY <2>1, <2>2 DEF RequestsInTurn, OneAtATime, Notify!Serving
  <2> QED
    BY <2>0, <2>1, <2>3 DEF OneAtATime
<1>3. ASSUME OtherMoves PROVE ~ mixed /\ OneAtATime'
  BY <1>3 DEF OtherMoves, Notify!history, RequestsInTurn, OneAtATime
<1> QED
  BY <1>1, <1>2, <1>3, StepKinds

\* Requests in turn find LastFiredAt as the last firing left it.
LEMMA InTurnStep ==
  ASSUME Notify!NotificationAssumption, NotifyTypes, Hands, Past, RequestsInTurn, [Notify!Next]_Notify!vars
  PROVE  RequestsInTurn'
<1> SUFFICES ASSUME ~ mixed' PROVE RequestsInTurn'
  BY DEF RequestsInTurn
<1> DEFINE Fired == \A e \in fires : e.rule \notin reset => e.at <= rules[e.rule].last
           Rested2(c) == c.at = "evaluate" =>
                             \A u \in c.rules : u.id = c.id =>
                                 clock - rules[u.id].last >= CooldownOf[u.conf]
           Fresh(c) == c.at = "bump" => c.row.ver >= rules[c.id].ver
           Held(q) == q.at = "insert" =>
                          \/ q.form = "create" /\ rules[q.id] = Notify!NoRow
                          \/ q.form = "save" /\ q.row.last = rules[q.id].last
                          \/ q.form \in {"toggle", "delete"}
<1>0. /\ ~ mixed /\ OneAtATime'
      /\ \A r \in NotifyRules : rules[r].last \in Nat /\ rules[r].ver \in Nat
      /\ \A e \in fires : e.rule \in NotifyRules /\ e.at \in Nat
      /\ clock \in Nat
  BY OneAtATimeStep DEF NotifyTypes, RuleRows
<1>1. /\ Fired
      /\ \A k \in Checks : Rested2(check[k]) /\ Fresh(check[k])
      /\ \A p \in Posts : Held(post[p])
  BY <1>0 DEF RequestsInTurn
<1>2. ASSUME NEW k \in Checks, CheckMoves(k) PROVE RequestsInTurn'
  <2>0. /\ UNCHANGED <<clock, reset>> /\ post' = post
        /\ \A j \in Checks : j # k => check'[j].at \notin {"evaluate", "bump"}
        /\ \A p \in Posts : post'[p].at # "insert"
    BY <1>2, OneAtATimeStep DEF CheckMoves, Notify!Over
  <2>1. CASE Picks(k)
    <3>1. rules' = rules /\ fires' = fires
      BY <2>1 DEF Picks
    <3>2. PICK u \in check[k].rules :
              /\ check'[k].id = u.id
              /\ clock - rules[u.id].last >= CooldownOf[u.conf]
      BY <2>1 DEF Picks
    <3>3. \A v \in check'[k].rules : v.id = check'[k].id => v = u
      BY <2>1, <3>2 DEF Picks, Hands
    <3>4. check'[k].at = "evaluate"
      BY <2>1 DEF Picks
    <3> QED
      BY <1>0, <1>1, <2>0, <3>1, <3>2, <3>3, <3>4 DEF RequestsInTurn
  <2>2. CASE Builds(k)
    <3>1. rules' = rules /\ fires' = fires /\ check'[k].at = "bump" /\ check'[k].id = check[k].id
      BY <2>2 DEF Builds
    <3>2. check'[k].row.ver = clock /\ check[k].id \in NotifyRules
      BY <2>2, CurrentIsLoaded DEF Builds, Notify!Row, AtRule
    <3>3. rules[check[k].id].ver <= clock
      BY <3>2 DEF Past
    <3> QED
      BY <1>0, <1>1, <2>0, <3>1, <3>2, <3>3 DEF RequestsInTurn
  <2>3. CASE Bumps(k)
    <3>0. check[k].at = "bump" /\ check'[k].at = "rule"
      BY <2>3 DEF Bumps
    <3>1. check[k].row.last = check[k].row.ver
      BY <2>3, BumpedRow
    <3>2. /\ check[k].id \in NotifyRules /\ check[k].row \in RuleRows
          /\ check[k].row.ver \in Nat /\ rules \in [NotifyRules -> RuleRows]
      BY <3>0, CurrentIsLoaded DEF AtRule, NotifyTypes, RuleRows
    <3>3. /\ check[k].row.ver >= rules[check[k].id].ver
          /\ rules[check[k].id].ver >= rules[check[k].id].last
      BY <1>1, <3>0, <3>2 DEF Past
    <3>4. CASE UNCHANGED <<rules, fires>>
      BY <1>0, <1>1, <2>0, <3>0, <3>4 DEF RequestsInTurn
    <3>5. CASE /\ Notify!Insert(check[k].id, check[k].row)
               /\ fires' = fires \cup {[rule |-> check[k].id, at |-> check[k].row.last]}
      <4>1. /\ rules'[check[k].id] = check[k].row
            /\ \A q \in NotifyRules : q # check[k].id => rules'[q] = rules[q]
        <5>1. ~ check[k].row.ver < rules[check[k].id].ver
          BY <1>0, <3>2, <3>3
        <5> QED
          BY <3>2, <3>5, <5>1, Inserting
      <4>2. ASSUME NEW e \in fires', e.rule \notin reset PROVE e.at <= rules'[e.rule].last
        <5>1. CASE e \in fires
          <6>1. e.at <= rules[e.rule].last /\ e.rule \in NotifyRules /\ e.at \in Nat
            BY <1>0, <1>1, <4>2, <5>1
          <6>2. CASE e.rule = check[k].id
            BY <1>0, <3>1, <3>2, <3>3, <4>1, <6>1, <6>2
          <6>3. CASE e.rule # check[k].id
            BY <4>1, <6>1, <6>3
          <6> QED
            BY <6>2, <6>3
        <5>2. CASE e = [rule |-> check[k].id, at |-> check[k].row.last]
          BY <3>1, <3>2, <4>1, <5>2
        <5> QED
          BY <3>5, <5>1, <5>2
      <4> QED
        BY <1>0, <2>0, <3>0, <4>2 DEF RequestsInTurn
    <3> QED
      BY <2>3, <3>4, <3>5 DEF Bumps
  <2>4. CASE Loads(k) \/ Passes(k) \/ Goes(k) \/ Ends(k)
    <3>1. rules' = rules /\ fires' = fires /\ check'[k].at \notin {"evaluate", "bump"}
      BY <2>4 DEF Loads, Passes, Goes, Ends
    <3> QED
      BY <1>0, <1>1, <2>0, <3>1 DEF RequestsInTurn
  <2> QED
    BY <1>2, <2>1, <2>2, <2>3, <2>4 DEF CheckMoves
<1>3. ASSUME NEW p \in Posts, PostMoves(p) PROVE RequestsInTurn'
  <2>0. /\ UNCHANGED <<clock, fires>> /\ check' = check
        /\ \A j \in Checks : check'[j].at \notin {"evaluate", "bump"}
        /\ \A q \in Posts : q # p => post'[q].at # "insert"
    BY <1>3, OneAtATimeStep DEF PostMoves, Notify!Over
  <2>1. CASE Holds(p)
    <3>1. rules' = rules /\ reset' = reset /\ Held(post'[p])
      BY <2>1 DEF Holds
    <3> QED
      BY <1>0, <1>1, <2>0, <3>1 DEF RequestsInTurn
  <2>2. CASE Writes(p)
    <3>1. post[p].at = "insert" /\ post'[p].at = "done"
      BY <2>2 DEF Writes
    <3>2. CASE UNCHANGED <<rules, stale, reset>>
      BY <1>0, <1>1, <2>0, <3>1, <3>2 DEF RequestsInTurn
    <3>3. CASE /\ reset \subseteq reset'
               /\ post[p].form \in {"toggle", "delete"} => post[p].id \in reset'
      <4>1. \/ rules' = rules
            \/ /\ rules'[post[p].id] = post[p].row
               /\ \A q \in NotifyRules : q # post[p].id => rules'[q] = rules[q]
        BY <2>2, RulesStep
      <4>2. ASSUME NEW e \in fires, e.rule \notin reset' PROVE e.at <= rules'[e.rule].last
        <5>1. e.at <= rules[e.rule].last /\ e.rule \in NotifyRules /\ rules[e.rule] # Notify!NoRow
          BY <1>0, <1>1, <3>3, <4>2 DEF Past
        <5>2. CASE e.rule = post[p].id /\ rules'[e.rule] = post[p].row
          BY <1>1, <3>1, <3>3, <4>2, <5>1, <5>2
        <5> QED
          BY <4>1, <5>1, <5>2
      <4> QED
        BY <1>0, <2>0, <3>1, <4>2 DEF RequestsInTurn
    <3> QED
      BY <2>2, <3>2, <3>3 DEF Writes
  <2> QED
    BY <1>3, <2>1, <2>2 DEF PostMoves
<1>4. CASE OtherMoves
  <2>1. /\ UNCHANGED <<rules, fires, reset>> /\ clock' \in Nat /\ clock' >= clock
        /\ \A k \in Checks : check'[k].at \in {"evaluate", "bump"} => check'[k] = check[k]
        /\ \A p \in Posts : post'[p].at = "insert" => post'[p] = post[p]
    BY <1>4 DEF OtherMoves, Notify!history, Notify!Over
  <2>2. \A k \in Checks : \A u \in check[k].rules :
            u.id \in NotifyRules /\ u.conf \in Confs /\ CooldownOf[u.conf] \in Nat
    BY DEF NotifyTypes, Loaded, Notify!NotificationAssumption
  <2>3. \A k \in Checks : \A u \in check[k].rules :
            clock - rules[u.id].last >= CooldownOf[u.conf] =>
                clock' - rules[u.id].last >= CooldownOf[u.conf]
    BY <1>0, <2>1, <2>2
  <2> QED
    BY <1>0, <1>1, <2>1, <2>3 DEF RequestsInTurn
<1> QED
  BY <1>2, <1>3, <1>4, StepKinds

\* The initial states satisfy the invariant,
LEMMA NotifyStarts == ASSUME Notify!NotificationAssumption PROVE Notify!Init => NotifyInv
<1> SUFFICES ASSUME Notify!Init PROVE NotifyInv
  OBVIOUS
<1>1. \A r \in NotifyRules : /\ rules[r] \in RuleRows
                             /\ rules[r].last = 0 /\ rules[r].ver \in {0, First}
  <2>1. ASSUME NEW r \in NotifyRules
        PROVE  rules[r] \in {Notify!NoRow}
                   \cup {Notify!Row(TRUE, TRUE, c, Notify!Never, First) : c \in Confs}
    BY DEF Notify!Init
  <2>2. /\ Notify!NoRow \in RuleRows /\ Notify!NoRow.last = 0 /\ Notify!NoRow.ver = 0 /\ First \in Nat
        /\ \A c \in Confs : LET w == Notify!Row(TRUE, TRUE, c, Notify!Never, First)
                           IN w \in RuleRows /\ w.last = 0 /\ w.ver = First
    BY Records DEF Notify!Never, Notify!Row, RuleRows
  <2> QED
    BY <2>1, <2>2
<1>2. rules \in [NotifyRules -> RuleRows]
  BY <1>1 DEF Notify!Init
<1>3. /\ check = [k \in Checks |-> Notify!Idle] /\ Notify!Idle.at = "new" /\ Notify!Idle.rules = {}
      /\ Notify!Idle \in CheckSet /\ check \in [Checks -> CheckSet]
  BY Records DEF Notify!Init, Notify!Idle, CheckSet, Notify!Over
<1>4. /\ \A p \in Posts : post[p].at = "new"
      /\ post \in [Posts -> PostSet]
  BY Records DEF Notify!Init, PostSet, Notify!Over
<1>5. /\ clock = First /\ First \in Nat /\ fires = {} /\ stale = {} /\ reset = {} /\ mixed = FALSE
  BY Records DEF Notify!Init
<1>6. NotifyTypes
  <2>1. /\ check \in [Checks -> CheckSet] /\ post \in [Posts -> PostSet]
    BY <1>3, <1>4
  <2>2. /\ clock \in Nat /\ clock >= First
        /\ fires \subseteq [rule : NotifyRules, at : Nat]
        /\ stale \subseteq Checks \X NotifyRules /\ reset \subseteq NotifyRules
    BY <1>5
  <2>3. mixed \in BOOLEAN
    BY <1>5
  <2> QED
    BY <1>2, <2>1, <2>2, <2>3 DEF NotifyTypes, CheckSet, PostSet
<1>7. Hands
  BY <1>3, <1>4 DEF Hands, AtRule
<1>8. Past
  BY <1>1, <1>3, <1>4, <1>5 DEF Past
<1>9. Quiet /\ Kept
  BY <1>3 DEF Quiet, Kept, Notify!Reading
<1>10. RequestsInTurn
  BY <1>3, <1>4, <1>5 DEF RequestsInTurn, OneAtATime, Notify!Over
<1> QED
  BY <1>6, <1>7, <1>8, <1>9, <1>10 DEF NotifyInv

\* and every step keeps it.
LEMMA NotifyInductive == ASSUME Notify!NotificationAssumption PROVE NotifyInv /\ [Notify!Next]_Notify!vars => NotifyInv'
BY TypeStep, HandsStep, PastStep, LoadedStep, InTurnStep DEF NotifyInv

-----------------------------------------------------------------------------
(* The theorems.                                                           *)

\* A check that starts on its channels or writes its row is one of those steps.
LEMMA CheckTurns ==
  ASSUME Notify!NotificationAssumption, NotifyInv, [Notify!Next]_Notify!vars, NEW k \in Checks
  PROVE  /\ check[k].at = "evaluate" /\ check'[k].at = "dispatch" => Goes(k) /\ CheckMoves(k)
         /\ check[k].at = "bump" /\ check'[k].at = "rule" => Bumps(k)
<1>0. NotifyTypes /\ Hands
  BY DEF NotifyInv
<1>1. ASSUME check[k].at \in {"evaluate", "bump"}, check'[k].at \in {"dispatch", "rule"}
      PROVE  CheckMoves(k)
  <2>1. check'[k] # check[k] /\ check'[k].at \notin Notify!Over
    BY <1>1 DEF Notify!Over
  <2> QED
    BY <1>0, <2>1, StepKinds DEF CheckMoves, PostMoves, OtherMoves
<1>2. ASSUME check[k].at = "evaluate", check'[k].at = "dispatch" PROVE Goes(k) /\ CheckMoves(k)
  BY <1>1, <1>2 DEF CheckMoves, Loads, Passes, Picks, Builds, Bumps, Ends
<1>3. ASSUME check[k].at = "bump", check'[k].at = "rule" PROVE Bumps(k)
  BY <1>1, <1>3 DEF CheckMoves, Loads, Passes, Picks, Goes, Builds, Ends
<1> QED
  BY <1>2, <1>3

\* A check writes back what it loaded only over rules nobody wrote since, and is
\* quiet about those that were off (handleApiNotificationsCheck), however many
\* checks and form posts read and insert beside it.
THEOREM ChecksKeepTheRules ==
  ASSUME Notify!NotificationAssumption PROVE Notify!Spec => Notify!ChecksKeepRules
<1>1. ASSUME NotifyInv, [Notify!Next]_Notify!vars PROVE Notify!KeepsRules
  <2>0. NotifyTypes /\ Hands /\ Kept
    BY <1>1 DEF NotifyInv
  <2>1. SUFFICES ASSUME NEW k \in Checks, check[k].at = "bump", check'[k].at = "rule",
                        \A j \in Checks : <<j, check[k].id>> \notin stale
                 PROVE  [rules'[check[k].id] EXCEPT !.last = 0, !.ver = 0]
                            = [rules[check[k].id] EXCEPT !.last = 0, !.ver = 0]
    BY DEF Notify!KeepsRules
  <2>2. Bumps(k)
    BY <1>1, <2>1, CheckTurns
  <2>3. PICK u \in check[k].rules :
             /\ u.id = check[k].id /\ check[k].row.live
             /\ check[k].row.enabled = u.enabled /\ check[k].row.conf = u.conf
    BY <2>0, <2>2, BumpedRow
  <2>4. /\ rules[check[k].id].live /\ rules[check[k].id].enabled = u.enabled
        /\ rules[check[k].id].conf = u.conf
    BY <2>0, <2>1, <2>3 DEF Kept, Notify!Reading
  <2>5. \/ rules' = rules
        \/ check[k].id \in NotifyRules /\ rules'[check[k].id] = check[k].row
    BY <2>0, <2>2, RulesStep
  <2>6. ASSUME NEW v \in RuleRows, NEW w \in RuleRows, v.live = w.live,
               v.enabled = w.enabled, v.conf = w.conf
        PROVE  [v EXCEPT !.last = 0, !.ver = 0] = [w EXCEPT !.last = 0, !.ver = 0]
    BY <2>6 DEF RuleRows
  <2>7. CASE rules' = rules
    BY <2>7
  <2>8. CASE check[k].id \in NotifyRules /\ rules'[check[k].id] = check[k].row
    <3>1. rules[check[k].id] \in RuleRows /\ check[k].row \in RuleRows
      BY <2>0, <2>8 DEF NotifyTypes
    <3> QED
      <4>1. check[k].row.live = rules[check[k].id].live
        BY <2>3, <2>4, <3>1 DEF RuleRows
      <4>2. /\ check[k].row.enabled = rules[check[k].id].enabled
            /\ check[k].row.conf = rules[check[k].id].conf
        BY <2>3, <2>4
      <4> QED
        <5> DEFINE Rest(v) == [v EXCEPT !.last = 0, !.ver = 0]
        <5>1. \A v, w \in RuleRows :
                  v.live = w.live /\ v.enabled = w.enabled /\ v.conf = w.conf => Rest(v) = Rest(w)
          BY <2>6
        <5> HIDE DEF Rest
        <5>2. Rest(rules'[check[k].id]) = Rest(rules[check[k].id])
          BY <2>8, <3>1, <4>1, <4>2, <5>1
        <5> QED
          BY <5>2 DEF Rest
  <2> QED
    BY <2>5, <2>7, <2>8
<1>2. ASSUME NotifyInv, [Notify!Next]_Notify!vars PROVE Notify!QuietWhenOff
  <2>1. SUFFICES ASSUME NEW k \in Checks, check[k].at = "evaluate", check'[k].at = "dispatch",
                        <<k, check[k].id>> \notin stale
                 PROVE  rules[check[k].id].live /\ rules[check[k].id].enabled
    BY DEF Notify!QuietWhenOff
  <2>2. PICK u \in check[k].rules : u.id = check[k].id /\ u.enabled
    BY <1>2, <2>1 DEF NotifyInv, Hands, AtRule
  <2> QED
    BY <1>2, <2>1, <2>2 DEF NotifyInv, Quiet, Notify!Reading
<1>3. NotifyInv /\ [Notify!Next]_Notify!vars => [Notify!KeepsRules /\ Notify!QuietWhenOff]_Notify!vars
  BY <1>1, <1>2
<1> QED
  BY <1>3, NotifyStarts, NotifyInductive, PTL DEF Notify!Spec, Notify!ChecksKeepRules

\* As long as requests come in turn, a rule that was not toggled is dispatched
\* a cooldown after each of its recorded firings, whatever was created and
\* edited and wherever the process died.
THEOREM CooldownKeeps ==
  ASSUME Notify!NotificationAssumption PROVE Notify!Spec => Notify!CooldownInTurn
<1>1. ASSUME NotifyInv, [Notify!Next]_Notify!vars PROVE Notify!RestsInTurn
  <2>0. NotifyTypes /\ Hands /\ RequestsInTurn
    BY <1>1 DEF NotifyInv
  <2>1. SUFFICES ASSUME NEW k \in Checks, ~ mixed, check[k].id \notin reset,
                        check[k].at = "evaluate",
                        NEW e \in fires, e.rule = check[k].id
                 PROVE  clock - e.at >= CooldownOf[Notify!Current(k).conf]
    BY DEF Notify!RestsInTurn, Notify!Rested
  <2>2. /\ Notify!Current(k) \in check[k].rules /\ Notify!Current(k).id = check[k].id
        /\ check[k].id \in NotifyRules /\ Notify!Current(k) \in Loaded
    BY <2>0, <2>1, CurrentIsLoaded DEF AtRule
  <2>3. /\ clock - rules[check[k].id].last >= CooldownOf[Notify!Current(k).conf]
        /\ e.at <= rules[check[k].id].last
    BY <2>0, <2>1, <2>2 DEF RequestsInTurn
  <2>4. /\ clock \in Nat /\ e.at \in Nat /\ rules[check[k].id].last \in Nat
        /\ CooldownOf[Notify!Current(k).conf] \in Nat
    BY <2>0, <2>1, <2>2 DEF NotifyTypes, RuleRows, Loaded, Notify!NotificationAssumption
  <2> QED
    BY <2>3, <2>4
<1>2. NotifyInv /\ [Notify!Next]_Notify!vars => [Notify!RestsInTurn]_Notify!vars
  BY <1>1
<1> QED
  BY <1>2, NotifyStarts, NotifyInductive, PTL DEF Notify!Spec, Notify!CooldownInTurn

-----------------------------------------------------------------------------
(* The MCP endpoint.                                                       *)

\* What a request holds: nothing, the list it will write, or its key and clock.
Descriptors == [id : Nat, key : Nat]
Requests ==
    {Endpoint!Idle}
    \cup [at : {"write"}, list : SUBSET Descriptors, adds : SUBSET Nat, drops : SUBSET Nat]
    \cup [at : {"limit"}, key : Nat, clock : Nat]
Uses == [let : BOOLEAN, ought : BOOLEAN, inTurn : BOOLEAN]
McpTypes ==
    /\ minted \in Nat /\ mcpNow \in Nat /\ crossed \in BOOLEAN
    /\ mcp \in [Users -> Requests] /\ used \in Uses
\* A list is below the cap and has keys that were made, the stored one and those
\* to be written.
Fits(list) ==
    /\ list \subseteq Descriptors /\ \A d \in list : d.key <= minted
    /\ IsFiniteSet(list) /\ Cardinality(list) <= MaxKeysKept
Capped == Fits(keyList) /\ \A u \in Users : Endpoint!Writing(u) => Fits(mcp[u].list)
\* A list has the keys in force, each once.
Matches(list, keys) ==
    /\ Endpoint!KeysOf(list) = keys
    /\ \A d, e \in list : d.key = e.key => d = e
\* As long as nothing crossed or failed, the stored list is that, one request at
\* most is about to write, and what it will write is that again.
InTurnKeys ==
    ~ crossed =>
        /\ Matches(keyList, valid)
        /\ \A u \in Users : Endpoint!Writing(u) =>
              /\ \A v \in Users : Endpoint!Writing(v) => v = u
              /\ Matches(mcp[u].list, (valid \cup mcp[u].adds) \ mcp[u].drops)
UsedWell == used.inTurn => used.let = used.ought
McpKeyInv == McpTypes /\ Capped /\ InTurnKeys /\ UsedWell

\* A request entered at most Delay after it read the clock; the limiter forgot
\* those only that entered longer ago than the window, less that.
Clocks ==
    /\ mcpNow \in Nat
    /\ \A u \in Users : mcp[u].at = "limit" =>
           mcp[u].clock \in Nat /\ mcp[u].clock <= mcpNow /\ mcpNow <= mcp[u].clock + Delay
Entries ==
    /\ entered \in Seq(Nat)
    /\ \A i, j \in DOMAIN entered : i <= j => entered[i] <= entered[j]
    /\ \A i \in DOMAIN entered : entered[i] <= mcpNow
Stamped ==
    /\ DOMAIN stamps \subseteq DOMAIN entered
    /\ \A i \in DOMAIN stamps : stamps[i] \in Nat /\ entered[i] <= stamps[i] + Delay
    /\ \A i \in DOMAIN entered \ DOMAIN stamps : mcpNow - entered[i] > Window - Delay
McpRateInv == Clocks /\ Entries /\ Stamped /\ Endpoint!RateIsBounded

\* The endpoint's module counts sets as this one does.
LEMMA CountedAlike ==
  \A S : Endpoint!Cardinality(S) = Cardinality(S)
BY DEF Endpoint!Cardinality, Cardinality

\* What requests and descriptors are.
LEMMA RequestFacts ==
  /\ Endpoint!Idle \in Requests /\ Endpoint!Idle.at = "idle"
  /\ \A r \in Requests : r.at = "write" =>
         r.list \subseteq Descriptors /\ r.adds \subseteq Nat /\ r.drops \subseteq Nat
  /\ \A r \in Requests : r.at = "limit" => r.key \in Nat /\ r.clock \in Nat
  /\ Endpoint!Unused \in Uses /\ ~ Endpoint!Unused.inTurn
  /\ \A k \in Nat : [id |-> k, key |-> k] \in Descriptors
  /\ \A k \in Nat : [id |-> k, key |-> 0] \in Descriptors
BY DEF Requests, Descriptors, Uses, Endpoint!Idle, Endpoint!Unused

\* The request of one user is replaced.
LEMMA RequestReplaced ==
  ASSUME McpTypes, NEW u \in Users, NEW r \in Requests, mcp' = [mcp EXCEPT ![u] = r]
  PROVE  /\ mcp' \in [Users -> Requests] /\ mcp'[u] = r
         /\ \A v \in Users : v # u => mcp'[v] = mcp[v]
BY DEF McpTypes

\* A list with one more descriptor, of a key it has not.
LEMMA OneMoreKey ==
  ASSUME NEW list, IsFiniteSet(list), NEW keys, Matches(list, keys), NEW d,
         d.key \notin keys
  PROVE  Matches(list \cup {d}, keys \cup {d.key})
BY DEF Matches, Endpoint!KeysOf

\* A read of the list that works gives it as it is.
LEMMA ReadList ==
  ASSUME McpKeyInv, Endpoint!McpAssumption, NEW fails \in BOOLEAN
  PROVE  /\ Fits(Endpoint!loadMcpAPIKeys(fails))
         /\ ~ fails => Endpoint!loadMcpAPIKeys(fails) = keyList
<1>1. Fits(keyList)
  BY DEF McpKeyInv, Capped
<1>2. Fits({})
  BY FS_EmptySet DEF Fits, Endpoint!McpAssumption
<1> QED
  BY <1>1, <1>2 DEF Endpoint!loadMcpAPIKeys

\* A request reads the list and is about to write another.
LEMMA BeginsWell ==
  ASSUME McpKeyInv, NEW u \in Users, NEW fails \in BOOLEAN, Endpoint!Begin(u, fails),
         NEW list \in SUBSET Descriptors, NEW adds \in SUBSET Nat, NEW drops \in SUBSET Nat,
         mcp' = [mcp EXCEPT ![u] = [at |-> "write", list |-> list, adds |-> adds, drops |-> drops]],
         minted' \in Nat, minted <= minted', Fits(list)',
         UNCHANGED <<keyList, valid, mcpNow>>, used' = Endpoint!Unused,
         ~ fails /\ Matches(keyList, valid) => Matches(list, (valid \cup adds) \ drops)
  PROVE  McpKeyInv'
<1> DEFINE r == [at |-> "write", list |-> list, adds |-> adds, drops |-> drops]
<1>1. r \in Requests /\ r.at = "write" /\ r.list = list /\ r.adds = adds /\ r.drops = drops
  BY DEF Requests
<1>2. mcp' = [mcp EXCEPT ![u] = r]
  OBVIOUS
<1> HIDE DEF r
<1>3. McpTypes /\ Capped /\ InTurnKeys
  BY DEF McpKeyInv
<1>4. /\ mcp' \in [Users -> Requests] /\ mcp'[u] = r
      /\ \A v \in Users : v # u => mcp'[v] = mcp[v]
  BY <1>1, <1>2, <1>3, RequestReplaced
<1>5. /\ crossed' = (crossed \/ fails \/ \E v \in Users : Endpoint!Writing(v))
      /\ crossed \in BOOLEAN
  BY <1>3 DEF Endpoint!Begin, McpTypes
<1>6. crossed' \in BOOLEAN
  BY <1>5
<1>7. ~ crossed' => ~ crossed /\ ~ fails /\ \A v \in Users : ~ Endpoint!Writing(v)
  BY <1>5
<1>8. McpTypes'
  BY <1>3, <1>4, <1>6, RequestFacts DEF McpTypes
<1>9. Capped'
  <2>1. ASSUME NEW l, Fits(l) PROVE Fits(l)'
    <3>1. \A d \in l : d.key \in Nat
      BY <2>1 DEF Fits, Descriptors
    <3> QED
      BY <1>3, <2>1, <3>1 DEF Fits, McpTypes
  <2>2. Fits(keyList)'
    <3>1. Fits(keyList)
      BY <1>3 DEF Capped
    <3> QED
      BY <2>1, <3>1 DEF Fits
  <2>3. ASSUME NEW v \in Users, Endpoint!Writing(v)' PROVE Fits(mcp[v].list)'
    <3>1. CASE v = u
      BY <1>1, <1>4, <3>1 DEF Fits
    <3>2. CASE v # u
      <4>1. mcp'[v] = mcp[v] /\ Fits(mcp[v].list)
        BY <1>3, <1>4, <2>3, <3>2 DEF Capped, Endpoint!Writing
      <4> DEFINE l == mcp[v].list
      <4>2. \A d \in l : d.key \in Nat
        BY <4>1 DEF Fits, Descriptors
      <4> QED
        BY <1>3, <4>1, <4>2 DEF Fits, McpTypes
    <3> QED
      BY <3>1, <3>2
  <2> QED
    BY <2>2, <2>3 DEF Capped
<1>10. InTurnKeys'
  <2> SUFFICES ASSUME ~ crossed'
               PROVE  /\ Matches(keyList, valid)
                      /\ \A v \in Users : Endpoint!Writing(v)' =>
                            /\ \A w \in Users : Endpoint!Writing(w)' => w = v
                            /\ Matches(mcp'[v].list, (valid \cup mcp'[v].adds) \ mcp'[v].drops)
    BY DEF InTurnKeys, Matches, Endpoint!KeysOf
  <2>1. Matches(keyList, valid)
    BY <1>3, <1>7 DEF InTurnKeys
  <2>2. Matches(list, (valid \cup adds) \ drops)
    BY <1>7, <2>1
  <2>3. \A v \in Users : Endpoint!Writing(v)' => v = u
    BY <1>4, <1>7 DEF Endpoint!Writing
  <2>4. Matches(mcp'[u].list, (valid \cup mcp'[u].adds) \ mcp'[u].drops)
    BY <1>1, <1>4, <2>2
  <2> QED
    BY <2>1, <2>3, <2>4
<1>11. UsedWell'
  BY RequestFacts DEF UsedWell
<1> QED
  BY <1>8, <1>9, <1>10, <1>11 DEF McpKeyInv

\* A key is made.
LEMMA CreateKeeps ==
  ASSUME McpKeyInv, Endpoint!McpAssumption, NEW u \in Users, NEW fails \in BOOLEAN,
         Endpoint!mcpAPIKeysCreate(u, fails)
  PROVE  McpKeyInv'
<1>0. minted \in Nat
  BY DEF McpKeyInv, McpTypes
<1>1. PICK list \in SUBSET Descriptors : /\ list = Endpoint!loadMcpAPIKeys(fails) /\ Fits(list)
                                         /\ ~ fails => list = keyList
  BY ReadList DEF Fits
<1>2. PICK n \in Nat : n = minted + 1
  BY <1>0
<1>3. PICK d \in Descriptors : d = [id |-> n, key |-> n] /\ d.key = n
  BY RequestFacts
<1>4. /\ Endpoint!Begin(u, fails) /\ Endpoint!HasRoom(list) /\ minted' = n
      /\ mcp' = [mcp EXCEPT ![u] = [at |-> "write", list |-> list \cup {d}, adds |-> {n}, drops |-> {}]]
      /\ UNCHANGED <<keyList, valid, mcpNow>> /\ used' = Endpoint!Unused
  BY <1>1, <1>2, <1>3 DEF Endpoint!mcpAPIKeysCreate
<1>5. \A e \in list : e.key \in Nat /\ e.key < n
  BY <1>0, <1>1, <1>2 DEF Fits, Descriptors
<1>6. PICK l \in SUBSET Descriptors : l = list \cup {d}
  OBVIOUS
<1>7. IsFiniteSet(l) /\ Cardinality(l) <= MaxKeysKept
  <2>1. /\ IsFiniteSet(list) /\ Cardinality(list) < MaxKeysKept
        /\ Cardinality(list) \in Nat /\ MaxKeysKept \in Nat
    <3>1. IsFiniteSet(list) /\ Cardinality(list) < MaxKeysKept
      BY <1>1, <1>4, CountedAlike DEF Endpoint!HasRoom, Fits
    <3>2. Cardinality(list) \in Nat
      BY <3>1, FS_CardinalityType
    <3>3. MaxKeysKept \in Nat
      BY DEF Endpoint!McpAssumption
    <3> QED
      BY <3>1, <3>2, <3>3
  <2>2. IsFiniteSet(l) /\ Cardinality(l) = IF d \in list THEN Cardinality(list) ELSE Cardinality(list) + 1
    BY <1>6, <2>1, FS_AddElement
  <2> QED
    BY <2>1, <2>2
<1>8. Fits(l)'
  <2>1. \A e \in l : e.key <= n
    BY <1>3, <1>5, <1>6
  <2> QED
    BY <1>4, <1>7, <2>1 DEF Fits
<1>9. ASSUME ~ fails, Matches(keyList, valid)
      PROVE  Matches(l, (valid \cup {n}) \ {})
  <2>1. list = keyList /\ n \notin valid /\ IsFiniteSet(list)
    BY <1>1, <1>5, <1>9 DEF Matches, Endpoint!KeysOf, Fits
  <2>2. Matches(list \cup {d}, valid \cup {d.key})
    BY <1>3, <1>9, <2>1, OneMoreKey
  <2>3. (valid \cup {n}) \ {} = valid \cup {n}
    OBVIOUS
  <2> QED
    BY <1>3, <1>6, <2>2, <2>3
<1>10. minted' \in Nat /\ minted <= minted'
  BY <1>0, <1>2, <1>4
<1>11. PICK adds \in SUBSET Nat : adds = {n}
  OBVIOUS
<1>12. PICK drops \in SUBSET Nat : drops = {}
  OBVIOUS
<1>13. mcp' = [mcp EXCEPT ![u] = [at |-> "write", list |-> l, adds |-> adds, drops |-> drops]]
  BY <1>4, <1>6, <1>11, <1>12
<1>14. ~ fails /\ Matches(keyList, valid) => Matches(l, (valid \cup adds) \ drops)
  BY <1>9, <1>11, <1>12
<1>15. Endpoint!Begin(u, fails) /\ UNCHANGED <<keyList, valid, mcpNow>> /\ used' = Endpoint!Unused
  BY <1>4
<1> QED
  BY <1>8, <1>10, <1>13, <1>14, <1>15, BeginsWell

\* A key is deleted.
LEMMA DeleteKeeps ==
  ASSUME McpKeyInv, Endpoint!McpAssumption, NEW u \in Users, NEW fails \in BOOLEAN, NEW id,
         Endpoint!handleMcpKeyByID(u, id, fails)
  PROVE  McpKeyInv'
<1>0. minted \in Nat
  BY DEF McpKeyInv, McpTypes
<1>1. PICK list \in SUBSET Descriptors : /\ list = Endpoint!loadMcpAPIKeys(fails) /\ Fits(list)
                                         /\ ~ fails => list = keyList
  BY ReadList DEF Fits
<1>2. PICK l \in SUBSET Descriptors : l = {d \in list : d.id # id}
  OBVIOUS
<1>3. PICK drops \in SUBSET Nat : drops = {d.key : d \in {e \in list : e.id = id}}
  BY DEF Descriptors
<1>4. PICK adds \in SUBSET Nat : adds = {}
  OBVIOUS
<1>5. /\ Endpoint!Begin(u, fails) /\ minted' = minted
      /\ mcp' = [mcp EXCEPT ![u] = [at |-> "write", list |-> l, adds |-> adds, drops |-> drops]]
      /\ UNCHANGED <<keyList, valid, mcpNow>> /\ used' = Endpoint!Unused
  BY <1>1, <1>2, <1>3, <1>4 DEF Endpoint!handleMcpKeyByID, Endpoint!Without
<1>6. Fits(l)'
  <2>1. IsFiniteSet(list) /\ Cardinality(list) <= MaxKeysKept /\ MaxKeysKept \in Nat
    BY <1>1 DEF Fits, Endpoint!McpAssumption
  <2>2. l \in SUBSET list
    BY <1>2
  <2>3. IsFiniteSet(l) /\ Cardinality(l) <= Cardinality(list)
    BY <2>1, <2>2, FS_Subset
  <2>4. Cardinality(l) \in Nat /\ Cardinality(list) \in Nat
    BY <2>1, <2>3, FS_CardinalityType
  <2>5. Cardinality(l) <= MaxKeysKept
    BY <2>1, <2>3, <2>4
  <2> QED
    BY <1>1, <1>5, <2>2, <2>3, <2>5 DEF Fits
<1>7. ASSUME ~ fails, Matches(keyList, valid)
      PROVE  Matches(l, (valid \cup adds) \ drops)
  <2>1. Matches(list, valid)
    BY <1>1, <1>7
  <2>2. Endpoint!KeysOf(l) = valid \ drops
    BY <1>2, <1>3, <2>1 DEF Matches, Endpoint!KeysOf
  <2>3. \A d, e \in l : d.key = e.key => d = e
    BY <1>2, <2>1 DEF Matches
  <2>4. (valid \cup adds) \ drops = valid \ drops
    BY <1>4
  <2> QED
    BY <2>2, <2>3, <2>4 DEF Matches
<1>8. minted' \in Nat /\ minted <= minted'
  BY <1>0, <1>5
<1> QED
  BY <1>5, <1>6, <1>7, <1>8, BeginsWell

\* A list is written, or a start adds the key of the environment.
LEMMA WriteKeeps ==
  ASSUME McpKeyInv, NEW u \in Users, NEW fails \in BOOLEAN, Endpoint!Write(u, fails)
  PROVE  McpKeyInv'
<1>1. McpTypes /\ Capped /\ InTurnKeys
  BY DEF McpKeyInv
<1>2. /\ Endpoint!Writing(u) /\ keyList' = (IF fails THEN keyList ELSE mcp[u].list)
      /\ valid' = (valid \cup mcp[u].adds) \ mcp[u].drops
      /\ crossed' = (crossed \/ fails)
      /\ mcp' = [mcp EXCEPT ![u] = Endpoint!Idle] /\ minted' = minted
      /\ used' = Endpoint!Unused /\ UNCHANGED mcpNow
  BY DEF Endpoint!Write, Endpoint!saveMcpAPIKeys
<1>3. /\ mcp' \in [Users -> Requests] /\ mcp'[u] = Endpoint!Idle
      /\ \A v \in Users : v # u => mcp'[v] = mcp[v]
  BY <1>1, <1>2, RequestFacts, RequestReplaced
<1>4. crossed' \in BOOLEAN /\ (~ crossed' => ~ crossed /\ ~ fails)
  BY <1>1, <1>2 DEF McpTypes
<1>5. \A v \in Users : Endpoint!Writing(v)' => v # u /\ Endpoint!Writing(v)
  BY <1>3, RequestFacts DEF Endpoint!Writing
<1>6. McpTypes'
  BY <1>1, <1>2, <1>3, <1>4, RequestFacts DEF McpTypes
<1>7. Capped'
  <2>1. Fits(keyList)'
    <3>1. Fits(keyList) /\ Fits(mcp[u].list)
      BY <1>1, <1>2 DEF Capped
    <3> QED
      BY <1>2, <3>1 DEF Fits
  <2>2. \A v \in Users : Endpoint!Writing(v)' => Fits(mcp[v].list)'
    <3> SUFFICES ASSUME NEW v \in Users, Endpoint!Writing(v)' PROVE Fits(mcp[v].list)'
      OBVIOUS
    <3>1. mcp'[v] = mcp[v] /\ Fits(mcp[v].list)
      BY <1>1, <1>3, <1>5 DEF Capped
    <3> QED
      BY <1>2, <3>1 DEF Fits
  <2> QED
    BY <2>1, <2>2 DEF Capped
<1>8. InTurnKeys'
  <2> SUFFICES ASSUME ~ crossed'
               PROVE  /\ Matches(keyList, valid)'
                      /\ \A v \in Users : ~ Endpoint!Writing(v)'
    BY DEF InTurnKeys
  <2>1. /\ Matches(mcp[u].list, (valid \cup mcp[u].adds) \ mcp[u].drops)
        /\ \A v \in Users : Endpoint!Writing(v) => v = u
    BY <1>1, <1>2, <1>4 DEF InTurnKeys
  <2>2. keyList' = mcp[u].list
    BY <1>2, <1>4
  <2>3. Matches(keyList, valid)'
    BY <1>2, <2>1, <2>2 DEF Matches, Endpoint!KeysOf
  <2> QED
    BY <1>5, <2>1, <2>3
<1>9. UsedWell'
  BY <1>2, RequestFacts DEF UsedWell
<1> QED
  BY <1>6, <1>7, <1>8, <1>9 DEF McpKeyInv

\* A start, which adds the key of the environment if there is room.
LEMMA SeedKeeps ==
  ASSUME McpKeyInv, Endpoint!McpAssumption, NEW fails \in BOOLEAN, NEW gone \in BOOLEAN,
         Endpoint!seedMcpAPIKeyFromEnv(fails, gone)
  PROVE  McpKeyInv'
<1>0. McpTypes /\ Capped /\ InTurnKeys /\ minted \in Nat /\ Fits(keyList)
  BY DEF McpKeyInv, McpTypes, Capped
<1>1. PICK list \in SUBSET Descriptors : /\ list = Endpoint!loadMcpAPIKeys(fails) /\ Fits(list)
                                         /\ ~ fails => list = keyList
  BY ReadList DEF Fits
<1>2. PICK d \in Descriptors : d = [id |-> minted + 1, key |-> 0] /\ d.key = 0
  <2>1. minted + 1 \in Nat
    BY <1>0
  <2> QED
    BY <2>1, RequestFacts
<1>3. PICK new : new = Endpoint!seeded(list, minted + 1)
  OBVIOUS
<1>4. /\ crossed' = (crossed \/ fails \/ gone)
      /\ mcp' = [v \in Users |-> Endpoint!Idle] /\ used' = Endpoint!Unused /\ UNCHANGED mcpNow
      /\ IF new = list THEN UNCHANGED <<keyList, minted, valid>>
         ELSE /\ keyList' = (IF gone THEN keyList ELSE new) /\ minted' = minted + 1
              /\ valid' = valid \cup {0}
  BY <1>1, <1>3 DEF Endpoint!seedMcpAPIKeyFromEnv, Endpoint!saveMcpAPIKeys, Endpoint!EnvKey
<1>5. new # list => /\ 0 \notin Endpoint!KeysOf(list) /\ Endpoint!HasRoom(list)
                    /\ new = list \cup {d}
  BY <1>2, <1>3 DEF Endpoint!seeded, Endpoint!EnvKey
<1>6. crossed' \in BOOLEAN /\ (~ crossed' => ~ crossed /\ ~ fails /\ ~ gone)
  BY <1>0, <1>4 DEF McpTypes
<1>7. mcp' \in [Users -> Requests] /\ \A v \in Users : ~ Endpoint!Writing(v)'
  BY <1>4, RequestFacts DEF Endpoint!Writing
<1>8. McpTypes'
  BY <1>0, <1>4, <1>6, <1>7, RequestFacts DEF McpTypes
<1>9. Fits(keyList)'
  <2>1. CASE keyList' = keyList
    <3>1. \A e \in keyList : e.key \in Nat
      BY <1>0 DEF Fits, Descriptors
    <3> QED
      BY <1>0, <1>4, <2>1, <3>1 DEF Fits
  <2>2. CASE new # list /\ keyList' = new
    <3>1. IsFiniteSet(list) /\ Cardinality(list) < MaxKeysKept
      BY <1>1, <1>5, <2>2, CountedAlike DEF Fits, Endpoint!HasRoom
    <3>2. Cardinality(list) \in Nat
      BY <3>1, FS_CardinalityType
    <3>3. MaxKeysKept \in Nat
      BY DEF Endpoint!McpAssumption
    <3>4. new = list \cup {d}
      BY <1>5, <2>2
    <3>5. IsFiniteSet(new) /\ Cardinality(new) = IF d \in list THEN Cardinality(list) ELSE Cardinality(list) + 1
      BY <3>1, <3>4, FS_AddElement
    <3>6. Cardinality(new) <= MaxKeysKept
      BY <3>1, <3>2, <3>3, <3>5
    <3>7. \A e \in new : e.key <= minted + 1
      <4>1. \A e \in list : e.key \in Nat /\ e.key <= minted
        BY <1>1 DEF Fits, Descriptors
      <4>2. \A e \in list : e.key <= minted + 1
        BY <1>0, <4>1
      <4> QED
        BY <1>0, <1>2, <3>4, <4>2
    <3>8. new \subseteq Descriptors
      BY <1>1, <1>2, <3>4
    <3> QED
      BY <1>4, <2>2, <3>5, <3>6, <3>7, <3>8 DEF Fits
  <2> QED
    BY <1>4, <2>1, <2>2
<1>10. InTurnKeys'
  <2> SUFFICES ASSUME ~ crossed' PROVE Matches(keyList, valid)'
    BY <1>7 DEF InTurnKeys
  <2>1. Matches(keyList, valid) /\ list = keyList /\ ~ gone
    BY <1>0, <1>1, <1>6 DEF InTurnKeys
  <2>2. CASE new = list
    BY <1>4, <2>1, <2>2 DEF Matches, Endpoint!KeysOf
  <2>3. CASE new # list
    <3>1. d.key \notin valid /\ IsFiniteSet(list)
      BY <1>1, <1>2, <1>5, <2>1, <2>3 DEF Matches, Fits
    <3>2. Matches(list \cup {d}, valid \cup {d.key})
      BY <2>1, <3>1, OneMoreKey
    <3>3. keyList' = list \cup {d} /\ valid' = valid \cup {d.key}
      BY <1>2, <1>4, <1>5, <2>1, <2>3
    <3> QED
      BY <3>2, <3>3 DEF Matches, Endpoint!KeysOf
  <2> QED
    BY <2>2, <2>3
<1>11. UsedWell'
  BY <1>4, RequestFacts DEF UsedWell
<1>12. Capped'
  BY <1>7, <1>9 DEF Capped
<1> QED
  BY <1>8, <1>10, <1>11, <1>12 DEF McpKeyInv

\* A request arrives, is answered, or time passes: the lists stay.
LEMMA UseKeeps ==
  ASSUME McpKeyInv,
         \/ \E u \in Users, k \in Nat : Endpoint!Arrive(u, k)
         \/ \E u \in Users, fails \in BOOLEAN : Endpoint!handleMcpEndpointPost(u, fails)
         \/ Endpoint!Tick
         \/ UNCHANGED <<keyList, minted, mcp, mcpNow, valid, crossed, used>>
  PROVE  McpKeyInv'
<1>1. McpTypes /\ Capped /\ InTurnKeys /\ UsedWell
  BY DEF McpKeyInv
<1>2. ASSUME UNCHANGED <<keyList, minted, valid, crossed>>, mcpNow' \in Nat,
             mcp' \in [Users -> Requests],
             \A v \in Users : Endpoint!Writing(v)' => Endpoint!Writing(v) /\ mcp'[v] = mcp[v],
             used' \in Uses, used'.inTurn => used'.let = used'.ought
      PROVE  McpKeyInv'
  <2>1. McpTypes' /\ UsedWell'
    BY <1>1, <1>2 DEF McpTypes, UsedWell
  <2>2. Capped'
    BY <1>1, <1>2 DEF Capped, Fits
  <2>3. InTurnKeys'
    BY <1>1, <1>2 DEF InTurnKeys, Matches, Endpoint!KeysOf
  <2> QED
    BY <2>1, <2>2, <2>3 DEF McpKeyInv
<1>3. ASSUME NEW u \in Users, NEW k \in Nat, Endpoint!Arrive(u, k) PROVE McpKeyInv'
  <2>1. PICK r \in Requests : r.at = "limit" /\ mcp' = [mcp EXCEPT ![u] = r]
    BY <1>1, <1>3 DEF Endpoint!Arrive, Requests, McpTypes
  <2>2. /\ mcp' \in [Users -> Requests] /\ mcp'[u] = r
        /\ \A v \in Users : v # u => mcp'[v] = mcp[v]
    BY <1>1, <2>1, RequestReplaced
  <2>3. UNCHANGED <<keyList, minted, valid, crossed, mcpNow>> /\ used' = Endpoint!Unused
    BY <1>3 DEF Endpoint!Arrive
  <2>4. \A v \in Users : Endpoint!Writing(v)' => Endpoint!Writing(v) /\ mcp'[v] = mcp[v]
    BY <2>1, <2>2 DEF Endpoint!Writing
  <2> QED
    BY <1>1, <1>2, <2>2, <2>3, <2>4, RequestFacts DEF McpTypes
<1>4. ASSUME NEW u \in Users, NEW fails \in BOOLEAN, Endpoint!handleMcpEndpointPost(u, fails)
      PROVE  McpKeyInv'
  <2>1. PICK k : k = mcp[u].key
    OBVIOUS
  <2>2. PICK let \in BOOLEAN : let = (k \in Endpoint!KeysOf(Endpoint!loadMcpAPIKeys(fails)))
    <3>1. (k \in Endpoint!KeysOf(Endpoint!loadMcpAPIKeys(fails))) \in BOOLEAN
      OBVIOUS
    <3> QED
      BY <3>1, Zenon
  <2>3. PICK ought \in BOOLEAN : ought = (k \in valid)
    <3>1. (k \in valid) \in BOOLEAN
      OBVIOUS
    <3> QED
      BY <3>1, Zenon
  <2>4. PICK alone \in BOOLEAN : alone = ~ (crossed \/ fails \/ \E v \in Users : Endpoint!Writing(v))
    OBVIOUS
  <2>5. /\ UNCHANGED <<keyList, minted, valid, crossed, mcpNow>>
        /\ mcp' = [mcp EXCEPT ![u] = Endpoint!Idle]
        /\ \/ used' = Endpoint!Unused
           \/ used' = [let |-> let, ought |-> ought, inTurn |-> alone]
    BY <1>4, <2>1, <2>2, <2>3, <2>4 DEF Endpoint!handleMcpEndpointPost
  <2>6. alone => let = ought
    <3>1. ASSUME alone PROVE let = ought
      <4>1. ~ fails /\ ~ crossed
        BY <2>4, <3>1
      <4>2. Endpoint!loadMcpAPIKeys(fails) = keyList /\ Endpoint!KeysOf(keyList) = valid
        BY <1>1, <4>1 DEF Endpoint!loadMcpAPIKeys, InTurnKeys, Matches
      <4> QED
        BY <2>2, <2>3, <4>2
    <3> QED
      BY <3>1
  <2>7. used' \in Uses /\ (used'.inTurn => used'.let = used'.ought)
    BY <2>5, <2>6, RequestFacts DEF Uses
  <2>8. /\ mcp' \in [Users -> Requests] /\ mcp'[u] = Endpoint!Idle
        /\ \A v \in Users : v # u => mcp'[v] = mcp[v]
    BY <1>1, <2>5, RequestFacts, RequestReplaced
  <2>9. \A v \in Users : Endpoint!Writing(v)' => Endpoint!Writing(v) /\ mcp'[v] = mcp[v]
    BY <2>8, RequestFacts DEF Endpoint!Writing
  <2> QED
    BY <1>1, <1>2, <2>5, <2>7, <2>8, <2>9 DEF McpTypes
<1>5. ASSUME Endpoint!Tick PROVE McpKeyInv'
  BY <1>1, <1>2, <1>5, RequestFacts DEF Endpoint!Tick, McpTypes, Endpoint!Writing
<1>6. ASSUME UNCHANGED <<keyList, minted, mcp, mcpNow, valid, crossed, used>> PROVE McpKeyInv'
  BY <1>1, <1>2, <1>6 DEF McpTypes, UsedWell, Endpoint!Writing
<1> QED
  BY <1>3, <1>4, <1>5, <1>6

\* At the start the list holds the key of the environment.
LEMMA KeysBegin ==
  ASSUME Endpoint!McpAssumption, Endpoint!Init
  PROVE  McpKeyInv
<1>1. PICK d \in Descriptors : d = [id |-> 1, key |-> 0] /\ d.key = 0
  <2>1. 1 \in Nat
    OBVIOUS
  <2> QED
    BY <2>1, RequestFacts
<1>2. /\ keyList = {d} /\ valid = {0} /\ minted = 1 /\ mcp = [u \in Users |-> Endpoint!Idle]
      /\ mcpNow = 0 /\ crossed = FALSE /\ used = Endpoint!Unused
  BY <1>1 DEF Endpoint!Init, Endpoint!EnvKey
<1>3. McpTypes
  BY <1>2, RequestFacts DEF McpTypes
<1>4. \A u \in Users : ~ Endpoint!Writing(u)
  BY <1>2, RequestFacts DEF Endpoint!Writing
<1>5. Fits(keyList)
  <2>1. IsFiniteSet(keyList) /\ Cardinality(keyList) = 1
    BY <1>2, FS_Singleton
  <2> QED
    BY <1>1, <1>2, <2>1 DEF Fits, Endpoint!McpAssumption
<1>6. Matches(keyList, valid)
  BY <1>1, <1>2 DEF Matches, Endpoint!KeysOf
<1> QED
  BY <1>2, <1>3, <1>4, <1>5, <1>6 DEF McpKeyInv, Capped, InTurnKeys, UsedWell, Endpoint!Unused

\* A list that has each key in force once is as long as there are keys in force.
LEMMA KeyInvHolds ==
  ASSUME McpKeyInv
  PROVE  Endpoint!KeysInForce
<1>1. Fits(keyList) /\ InTurnKeys /\ UsedWell
  BY DEF McpKeyInv, Capped
<1>2. ASSUME ~ crossed
      PROVE  Endpoint!KeysOf(keyList) = valid /\ Cardinality(keyList) = Cardinality(valid)
  <2>1. Matches(keyList, valid) /\ IsFiniteSet(keyList)
    BY <1>1, <1>2 DEF InTurnKeys, Fits
  <2> DEFINE p == [d \in keyList |-> d.key]
  <2>2. p \in Surjection(keyList, valid)
    BY <2>1 DEF Matches, Endpoint!KeysOf, Surjection
  <2>3. p \in Injection(keyList, valid)
    BY <2>1, <2>2 DEF Matches, Injection, Surjection, IsInjective
  <2>4. ExistsBijection(keyList, valid)
    BY <2>2, <2>3 DEF Bijection, ExistsBijection
  <2>5. Cardinality(keyList) = Cardinality(valid)
    BY <2>1, <2>4, FS_Bijection
  <2> QED
    BY <2>1, <2>5 DEF Matches
<1> QED
  BY <1>1, <1>2, CountedAlike DEF Endpoint!KeysInForce, UsedWell, Fits

\* Every step keeps what the lists and requests are.
LEMMA KeyInvStays ==
  ASSUME Endpoint!McpAssumption
  PROVE  Endpoint!Spec => []McpKeyInv
<1>1. Endpoint!Init => McpKeyInv
  BY KeysBegin
<1>2. McpKeyInv /\ [Endpoint!Next]_Endpoint!vars => McpKeyInv'
  <2> SUFFICES ASSUME McpKeyInv, [Endpoint!Next]_Endpoint!vars PROVE McpKeyInv'
    OBVIOUS
  <2>1. ASSUME NEW u \in Users, NEW fails \in BOOLEAN, Endpoint!mcpAPIKeysCreate(u, fails)
        PROVE  McpKeyInv'
    BY <2>1, CreateKeeps
  <2>2. ASSUME NEW u \in Users, NEW fails \in BOOLEAN, NEW id \in 1..minted,
               Endpoint!handleMcpKeyByID(u, id, fails)
        PROVE  McpKeyInv'
    BY <2>2, DeleteKeeps
  <2>3. ASSUME NEW u \in Users, NEW fails \in BOOLEAN, Endpoint!Write(u, fails)
        PROVE  McpKeyInv'
    BY <2>3, WriteKeeps
  <2>4. ASSUME NEW fails \in BOOLEAN, NEW gone \in BOOLEAN,
               Endpoint!seedMcpAPIKeyFromEnv(fails, gone)
        PROVE  McpKeyInv'
    BY <2>4, SeedKeeps
  <2>5. ASSUME NEW u \in Users, NEW key \in {Endpoint!EnvKey} \cup 2..minted,
               Endpoint!Arrive(u, key)
        PROVE  McpKeyInv'
    <3>1. key \in Nat
      BY DEF McpKeyInv, McpTypes, Endpoint!EnvKey
    <3> QED
      BY <2>5, <3>1, UseKeeps
  <2>6. ASSUME NEW u \in Users, NEW fails \in BOOLEAN, Endpoint!handleMcpEndpointPost(u, fails)
        PROVE  McpKeyInv'
    BY <2>6, UseKeeps
  <2>7. CASE Endpoint!Tick
    BY <2>7, UseKeeps
  <2>8. CASE UNCHANGED Endpoint!vars
    BY <2>8, UseKeeps DEF Endpoint!vars
  <2> QED
    BY <2>1, <2>2, <2>3, <2>4, <2>5, <2>6, <2>7, <2>8 DEF Endpoint!Next
<1> QED
  BY <1>1, <1>2, PTL DEF Endpoint!Spec

\* As long as writers take turns and no statement fails, the stored list has each
\* key in force once and no other, whatever the number of users; the answer to a
\* use tells whether its key is in force, and the cap is kept in any case
\* (loadMcpAPIKeys, saveMcpAPIKeys, mcpAPIKeysCreate, handleMcpKeyByID,
\* seedMcpAPIKeyFromEnv, handleMcpEndpointPost).
THEOREM KeysStayInForce ==
  ASSUME Endpoint!McpAssumption
  PROVE  Endpoint!Spec => []Endpoint!KeysInForce
<1>1. McpKeyInv => Endpoint!KeysInForce
  BY KeyInvHolds
<1> QED
  BY <1>1, KeyInvStays, PTL

\* What a request whose time is up for the limiter is far from: admissions that it
\* does not keep, or that were forgotten before.
LEMMA ForgottenIsPast ==
  ASSUME McpRateInv, Endpoint!McpAssumption, NEW u \in Users, mcp[u].at = "limit",
         NEW i \in DOMAIN entered, i \notin Endpoint!Kept(mcp[u].clock)
  PROVE  mcpNow - entered[i] > Window - Delay
<1>1. /\ mcpNow \in Nat /\ mcp[u].clock \in Nat /\ mcp[u].clock <= mcpNow
      /\ entered[i] \in Nat /\ Window \in Nat /\ Delay \in Nat
  BY DEF McpRateInv, Clocks, Entries, Endpoint!McpAssumption
<1>2. CASE i \notin DOMAIN stamps
  BY <1>2 DEF McpRateInv, Stamped
<1>3. CASE i \in DOMAIN stamps
  <2>1. stamps[i] \in Nat /\ entered[i] <= stamps[i] + Delay
    BY <1>3 DEF McpRateInv, Stamped
  <2>2. ~ (stamps[i] >= mcp[u].clock - Window)
    BY <1>3 DEF Endpoint!Kept
  <2> QED
    BY <1>1, <2>1, <2>2
<1> QED
  BY <1>2, <1>3

\* Of as many admissions in a row as the limit, the limiter keeps not every one if
\* it lets a request in.
LEMMA RoomForOne ==
  ASSUME NEW K, NEW a \in Nat, NEW b \in Nat, NEW m \in Nat, b = a + m,
         K \subseteq 1..b, Cardinality(K) < m
  PROVE  \E j \in (a + 1)..b : j \notin K
<1> SUFFICES ASSUME (a + 1)..b \subseteq K PROVE FALSE
  OBVIOUS
<1>1. IsFiniteSet(1..b)
  BY FS_Interval
<1>2. IsFiniteSet(K)
  BY <1>1, FS_Subset
<1>3. Cardinality((a + 1)..b) <= Cardinality(K)
  BY <1>2, FS_Subset
<1>4. Cardinality((a + 1)..b) = m
  <2>1. Cardinality((a + 1)..b) = IF a + 1 > b THEN 0 ELSE b - (a + 1) + 1
    BY FS_Interval
  <2> QED
    BY <2>1
<1>5. Cardinality(K) \in Nat
  BY <1>2, FS_CardinalityType
<1> QED
  BY <1>3, <1>4, <1>5

\* A request passes the limiter, or is turned away: either way what the limiter
\* keeps is true, and one that enters is far from the one Limit before it.
LEMMA PostKeepsRate ==
  ASSUME McpTypes, McpRateInv, Endpoint!McpAssumption, NEW u \in Users, NEW fails \in BOOLEAN,
         Endpoint!handleMcpEndpointPost(u, fails)
  PROVE  McpRateInv'
<1>1. PICK c, K : c = mcp[u].clock /\ K = Endpoint!Kept(c)
  OBVIOUS
<1>2. PICK n : n = Len(entered) + 1
  OBVIOUS
<1>3. PICK more \in BOOLEAN : more = (Cardinality(K) < Limit)
  <2>1. (Cardinality(K) < Limit) \in BOOLEAN
    OBVIOUS
  <2> QED
    BY <2>1, Zenon
<1>4. /\ mcp[u].at = "limit" /\ mcpNow' = mcpNow
      /\ stamps' = [i \in K \cup (IF more THEN {n} ELSE {}) |-> IF i = n THEN c ELSE stamps[i]]
      /\ entered' = IF more THEN Append(entered, mcpNow) ELSE entered
      /\ mcp' = [mcp EXCEPT ![u] = Endpoint!Idle]
  BY <1>1, <1>2, <1>3, CountedAlike DEF Endpoint!handleMcpEndpointPost
<1>5. /\ mcpNow \in Nat /\ c \in Nat /\ c <= mcpNow /\ mcpNow <= c + Delay
      /\ Window \in Nat /\ Delay \in Nat /\ Limit \in Nat
  BY <1>1, <1>4 DEF McpRateInv, Clocks, Endpoint!McpAssumption
<1>6. /\ entered \in Seq(Nat) /\ n \in Nat /\ DOMAIN entered = 1..(n - 1)
      /\ \A i, j \in DOMAIN entered : i <= j => entered[i] <= entered[j]
      /\ \A i \in DOMAIN entered : entered[i] \in Nat /\ entered[i] <= mcpNow
  BY <1>2 DEF McpRateInv, Entries
<1>7. /\ K \subseteq DOMAIN stamps /\ K \subseteq 1..(n - 1)
      /\ \A i \in K : stamps[i] \in Nat /\ entered[i] <= stamps[i] + Delay
  BY <1>1, <1>6 DEF McpRateInv, Stamped, Endpoint!Kept
<1>8. \A i \in 1..(n - 1) : i \notin K => mcpNow - entered[i] > Window - Delay
  BY <1>1, <1>4, <1>6, ForgottenIsPast
<1>9. Clocks'
  <2>1. /\ mcp'[u] = Endpoint!Idle
        /\ \A v \in Users : v # u => mcp'[v] = mcp[v]
    BY <1>4, RequestFacts, RequestReplaced
  <2> QED
    BY <1>4, <2>1, RequestFacts DEF McpRateInv, Clocks
<1>10. CASE ~ more
  <2>1. entered' = entered /\ DOMAIN stamps' = K /\ \A i \in K : stamps'[i] = stamps[i]
    BY <1>4, <1>6, <1>7, <1>10
  <2>2. Entries' /\ Endpoint!RateIsBounded'
    BY <1>4, <2>1 DEF McpRateInv, Entries, Endpoint!RateIsBounded
  <2>3. Stamped'
    BY <1>4, <1>6, <1>7, <1>8, <2>1 DEF Stamped
  <2> QED
    BY <1>9, <2>2, <2>3 DEF McpRateInv
<1>11. CASE more
  <2>1. /\ entered' = Append(entered, mcpNow) /\ entered' \in Seq(Nat) /\ DOMAIN entered' = 1..n
        /\ entered'[n] = mcpNow /\ \A i \in 1..(n - 1) : entered'[i] = entered[i]
    BY <1>2, <1>4, <1>5, <1>6, <1>11
  <2>2. /\ DOMAIN stamps' = K \cup {n} /\ stamps'[n] = c
        /\ \A i \in K : stamps'[i] = stamps[i]
    BY <1>4, <1>6, <1>7, <1>11
  <2>3. Entries'
    <3>1. ASSUME NEW i \in 1..n PROVE entered'[i] \in Nat /\ entered'[i] <= mcpNow
      <4>1. CASE i = n
        BY <1>5, <2>1, <4>1
      <4>2. CASE i # n
        <5>1. i \in 1..(n - 1)
          BY <1>6, <4>2
        <5> QED
          BY <1>6, <2>1, <5>1
      <4> QED
        BY <4>1, <4>2
    <3>2. ASSUME NEW i \in 1..n, NEW j \in 1..n, i <= j PROVE entered'[i] <= entered'[j]
      <4>1. CASE j = n
        BY <2>1, <3>1, <4>1
      <4>2. CASE j # n
        <5>1. i \in 1..(n - 1) /\ j \in 1..(n - 1)
          BY <1>6, <3>2, <4>2
        <5>2. entered[i] <= entered[j]
          BY <1>6, <3>2, <5>1
        <5> QED
          BY <2>1, <5>1, <5>2
      <4> QED
        BY <4>1, <4>2
    <3> QED
      BY <1>4, <2>1, <3>1, <3>2 DEF Entries
  <2>4. Stamped'
    <3>1. DOMAIN stamps' \subseteq DOMAIN entered'
      BY <1>6, <1>7, <2>1, <2>2
    <3>2. \A i \in DOMAIN stamps' : stamps'[i] \in Nat /\ entered'[i] <= stamps'[i] + Delay
      BY <1>5, <1>6, <1>7, <2>1, <2>2
    <3>3. \A i \in DOMAIN entered' \ DOMAIN stamps' : mcpNow - entered'[i] > Window - Delay
      BY <1>6, <1>8, <2>1, <2>2
    <3> QED
      BY <1>4, <3>1, <3>2, <3>3 DEF Stamped
  <2>5. Endpoint!RateIsBounded'
    <3> SUFFICES ASSUME NEW i \in 1..n, i + Limit \in 1..n
                 PROVE  entered'[i + Limit] - entered'[i] > Window - Delay
      BY <2>1 DEF Endpoint!RateIsBounded
    <3>1. CASE i + Limit = n
      <4>1. Cardinality(K) < Limit
        BY <1>3, <1>11
      <4>2. i # n
        <5>1. SUFFICES ASSUME i = n PROVE FALSE
          OBVIOUS
        <5>2. Limit = 0
          BY <1>5, <1>6, <3>1, <5>1
        <5>3. Cardinality(K) \in Nat
          <6>1. n - 1 \in Int /\ 1 \in Int
            BY <1>6
          <6>2. IsFiniteSet(1..(n - 1))
            BY <6>1, FS_Interval
          <6>3. IsFiniteSet(K)
            BY <1>7, <6>2, FS_Subset
          <6> QED
            BY <6>3, FS_CardinalityType
        <5> QED
          BY <4>1, <5>2, <5>3
      <4>3. \E j \in (i - 1 + 1)..(n - 1) : j \notin K
        <5>1. i - 1 \in Nat /\ n - 1 \in Nat /\ n - 1 = (i - 1) + Limit
          BY <1>5, <1>6, <3>1
        <5> QED
          BY <1>5, <1>7, <4>1, <5>1, RoomForOne
      <4>4. PICK j \in 1..(n - 1) : i <= j /\ j \notin K
        BY <1>6, <4>3
      <4>5. mcpNow - entered[j] > Window - Delay
        BY <1>8, <4>4
      <4>6. i \in 1..(n - 1) /\ entered[i] <= entered[j] /\ entered[i] \in Nat /\ entered[j] \in Nat
        <5>1. i \in 1..(n - 1)
          BY <1>6, <4>2
        <5>2. entered[i] <= entered[j]
          BY <1>6, <4>4, <5>1
        <5> QED
          BY <1>6, <4>4, <5>1, <5>2
      <4> QED
        <5>1. entered'[n] = mcpNow /\ entered'[i] = entered[i]
          BY <2>1, <4>6
        <5>2. mcpNow - entered[i] > Window - Delay
          BY <1>5, <4>5, <4>6
        <5> QED
          BY <3>1, <5>1, <5>2
    <3>2. CASE i + Limit # n
      <4>1. i \in 1..(n - 1) /\ i + Limit \in 1..(n - 1)
        BY <1>5, <1>6, <3>2
      <4> QED
        BY <1>6, <2>1, <4>1 DEF McpRateInv, Endpoint!RateIsBounded
    <3> QED
      BY <3>1, <3>2
  <2> QED
    BY <1>9, <2>3, <2>4, <2>5 DEF McpRateInv
<1> QED
  BY <1>3, <1>10, <1>11

\* Requests that arrive, that make or delete keys, that are lost at a start, and the
\* clock, leave the limiter's account true.
LEMMA OthersKeepRate ==
  ASSUME McpTypes, McpRateInv, Endpoint!McpAssumption,
         \/ \E u \in Users, fails \in BOOLEAN :
                \/ Endpoint!mcpAPIKeysCreate(u, fails)
                \/ \E id \in 1..minted : Endpoint!handleMcpKeyByID(u, id, fails)
                \/ Endpoint!Write(u, fails)
         \/ \E u \in Users, key \in {Endpoint!EnvKey} \cup 2..minted : Endpoint!Arrive(u, key)
         \/ \E fails, gone \in BOOLEAN : Endpoint!seedMcpAPIKeyFromEnv(fails, gone)
         \/ Endpoint!Tick
         \/ UNCHANGED Endpoint!vars
  PROVE  McpRateInv'
<1>1. Clocks /\ Entries /\ Stamped /\ Endpoint!RateIsBounded
  BY DEF McpRateInv
<1>2. Window \in Nat /\ Delay \in Nat
  BY DEF Endpoint!McpAssumption
<1>3. ASSUME UNCHANGED <<mcpNow, stamps, entered>>, NEW u \in Users, NEW r,
             mcp' = [mcp EXCEPT ![u] = r],
             r.at = "limit" => r.clock = mcpNow
      PROVE  McpRateInv'
  <2>1. mcp'[u] = r /\ \A v \in Users : v # u => mcp'[v] = mcp[v]
    BY <1>3 DEF McpTypes
  <2>2. Clocks'
    BY <1>1, <1>2, <1>3, <2>1 DEF Clocks
  <2> QED
    BY <1>1, <1>3, <2>2 DEF McpRateInv, Entries, Stamped, Endpoint!RateIsBounded
<1>4. ASSUME NEW u \in Users, NEW fails \in BOOLEAN, Endpoint!mcpAPIKeysCreate(u, fails)
      PROVE  McpRateInv'
  <2>1. PICK r : r.at = "write" /\ mcp' = [mcp EXCEPT ![u] = r]
    BY <1>4 DEF Endpoint!mcpAPIKeysCreate
  <2>2. UNCHANGED <<mcpNow, stamps, entered>>
    BY <1>4 DEF Endpoint!mcpAPIKeysCreate
  <2> QED
    BY <1>3, <2>1, <2>2
<1>5. ASSUME NEW u \in Users, NEW fails \in BOOLEAN, NEW id, Endpoint!handleMcpKeyByID(u, id, fails)
      PROVE  McpRateInv'
  <2>1. PICK r : r.at = "write" /\ mcp' = [mcp EXCEPT ![u] = r]
    BY <1>5 DEF Endpoint!handleMcpKeyByID
  <2>2. UNCHANGED <<mcpNow, stamps, entered>>
    BY <1>5 DEF Endpoint!handleMcpKeyByID
  <2> QED
    BY <1>3, <2>1, <2>2
<1>6. ASSUME NEW u \in Users, NEW fails \in BOOLEAN, Endpoint!Write(u, fails)
      PROVE  McpRateInv'
  BY <1>3, <1>6, RequestFacts DEF Endpoint!Write
<1>7. ASSUME NEW u \in Users, NEW key, Endpoint!Arrive(u, key) PROVE McpRateInv'
  <2>1. PICK r : r.at = "limit" /\ r.clock = mcpNow /\ mcp' = [mcp EXCEPT ![u] = r]
    BY <1>7 DEF Endpoint!Arrive
  <2>2. UNCHANGED <<mcpNow, stamps, entered>>
    BY <1>7 DEF Endpoint!Arrive
  <2> QED
    BY <1>3, <2>1, <2>2
<1>8. ASSUME NEW fails \in BOOLEAN, NEW gone \in BOOLEAN, Endpoint!seedMcpAPIKeyFromEnv(fails, gone)
      PROVE  McpRateInv'
  <2>1. /\ mcp' = [u \in Users |-> Endpoint!Idle] /\ stamps' = Endpoint!NoStamps /\ entered' = <<>>
        /\ mcpNow' = mcpNow
    BY <1>8 DEF Endpoint!seedMcpAPIKeyFromEnv
  <2>2. DOMAIN stamps' = {} /\ DOMAIN entered' = {} /\ entered' \in Seq(Nat)
    BY <2>1 DEF Endpoint!NoStamps
  <2> QED
    BY <1>1, <2>1, <2>2, RequestFacts
       DEF McpRateInv, Clocks, Entries, Stamped, Endpoint!RateIsBounded
<1>9. ASSUME Endpoint!Tick PROVE McpRateInv'
  <2>1. /\ mcpNow \in Nat /\ mcpNow' = mcpNow + 1 /\ UNCHANGED <<mcp, stamps, entered>>
        /\ \A u \in Users : mcp[u].at = "limit" => mcpNow - mcp[u].clock < Delay
    BY <1>1, <1>9 DEF Endpoint!Tick, Clocks
  <2>2. Clocks'
    BY <1>1, <1>2, <2>1 DEF Clocks
  <2>3. \A i \in DOMAIN entered : entered[i] \in Nat
    BY <1>1 DEF Entries
  <2>4. Entries'
    BY <1>1, <2>1, <2>3 DEF Entries
  <2>5. Stamped'
    BY <1>1, <1>2, <2>1, <2>3 DEF Stamped
  <2> QED
    BY <1>1, <2>1, <2>2, <2>4, <2>5 DEF McpRateInv, Endpoint!RateIsBounded
<1>10. ASSUME UNCHANGED Endpoint!vars PROVE McpRateInv'
  BY <1>1, <1>10
     DEF Endpoint!vars, McpRateInv, Clocks, Entries, Stamped, Endpoint!RateIsBounded
<1> QED
  BY <1>4, <1>5, <1>6, <1>7, <1>8, <1>9, <1>10

\* Any Limit + 1 requests that the limiter lets in one after the other lie further
\* apart than the window, less the time a request may wait between reading the
\* clock and taking the lock, for any limit, window and number of users
\* (allow of mcp_ratelimit.go).
THEOREM RateStaysBounded ==
  ASSUME Endpoint!McpAssumption
  PROVE  Endpoint!Spec => []Endpoint!RateIsBounded
<1>1. Endpoint!Init => McpRateInv
  BY RequestFacts
     DEF Endpoint!Init, Endpoint!NoStamps, McpRateInv, Clocks, Entries, Stamped, Endpoint!RateIsBounded
<1>2. McpKeyInv /\ McpRateInv /\ [Endpoint!Next]_Endpoint!vars => McpRateInv'
  BY PostKeepsRate, OthersKeepRate DEF Endpoint!Next, McpKeyInv
<1>3. McpRateInv => Endpoint!RateIsBounded
  BY DEF McpRateInv
<1> QED
  BY <1>1, <1>2, <1>3, KeyInvStays, PTL DEF Endpoint!Spec

-----------------------------------------------------------------------------
(* The AI helper.                                                          *)

\* What a turn, its verdict and a memory are.
Verdicts == [verdict : {"", "SAFE", "UNSAFE"}, category : {"", "S8", "S9"}]
TurnSet ==
    [at : {"idle", "refused", "guard", "blocked", "ask", "answer", "error", "reconcile", "save",
           "done", "dead"},
     page : Helper!Pages \cup {Helper!NoPage}, question : Questions \cup {"plain"},
     said : Verdicts, round : 0..(MaxRounds + 1), answered : BOOLEAN, left : Nat,
     drops : SUBSET Nat, strays : SUBSET Nat, covers : SUBSET Nat]
MemorySet == [live : BOOLEAN, covers : SUBSET Nat]
HelperTypes ==
    /\ turn \in [Turns -> TurnSet] /\ memory \in Seq(MemorySet)
    /\ today \in 0..MaxToday /\ aiFaults \in 0..MaxAiFaults
\* The guard let a question pass with that verdict.
Passed(c) ==
    /\ c.question # "injection" /\ c.said.verdict # ""
    /\ c.said.verdict = "UNSAFE" => c.said.category # "S9"
\* A turn before its guard has asked in no round, one in its rounds passed the
\* guard and has a round left, one that saves a memory has one left to save.
Guarded ==
    \A t \in Turns :
        /\ turn[t].at \in {"idle", "guard"} => turn[t].round = 0
        /\ turn[t].at = "ask" => turn[t].round <= MaxRounds /\ Passed(turn[t])
        /\ turn[t].at = "save" => turn[t].left > 0
\* What a token offers is made, and unless it asks for a confirmation it is on the
\* turn's page and needs none.
Offers(k, c) ==
    /\ \E a \in Actions : a.id = k.id /\ a.implemented
    /\ ~ k.confirm => \E a \in Actions : a.id = k.id /\ a.page = c.page /\ ~ a.confirm
Given ==
    \A k \in tokens :
        /\ k.turn \in Turns /\ turn[k.turn].at \notin {"idle", "guard"}
        /\ Passed(turn[k.turn]) /\ Offers(k, turn[k.turn])
\* An execution had a token that was still good, was confirmed if that asks for it,
\* and is in the log, unless that insert failed.
Done ==
    \A e \in executed :
        /\ e \in [token : tokens, confirmed : BOOLEAN, on : 0..MaxToday, logged : BOOLEAN]
        /\ e.on < e.token.exp /\ (e.token.confirm => e.confirmed)
        /\ e.logged =>
               [event |-> "tool.executed", turn |-> e.token.turn, id |-> e.token.id] \in toolLog
\* What a turn is about to drop is a memory, and unless it strays what the turn
\* saves for that covers all that this one covered.
Covered(c) ==
    c.at = "save" =>
        \A i \in c.drops \ c.strays : i \in c.covers /\ memory[i].covers \subseteq c.covers
Replacing ==
    \A t \in Turns :
        /\ turn[t].drops \subseteq DOMAIN memory
        /\ Covered(turn[t])
HelperInv ==
    /\ HelperTypes /\ Guarded /\ Given /\ Done
    /\ Replacing /\ Helper!NothingForgotten

\* The verdicts of the guard model are of three kinds, and nothing else is one.
LEMMA VerdictTypes ==
  ASSUME NEW first, NEW again
  PROVE  Helper!guardCallLLM(first, again) \in Verdicts
<1>1. Helper!NoReply \in Verdicts
  BY DEF Verdicts, Helper!NoReply
<1>2. \A text : Helper!parseGuardReply(text) \in Verdicts
  BY <1>1 DEF Verdicts, Helper!parseGuardReply
<1> QED
  BY <1>1, <1>2 DEF Helper!guardCallLLM

\* What the guard lets pass is no injection, and has a verdict, of no other category
\* of harm than the noisy ones.
LEMMA GuardLetsPass ==
  ASSUME NEW c, Helper!aiHelperGuardCheck(c.question, c.said)
  PROVE  Passed(c)
BY DEF Passed, Helper!aiHelperGuardCheck, Helper!heuristicGuardCheck, Helper!Benign,
       Helper!aiGuardNoisyCategories

\* A proposal that is supported is of an action that is made; unless it asks for a
\* confirmation the action is one of the page and needs none.
LEMMA ProposalIsOffered ==
  ASSUME NEW call, NEW page, NEW k,
         k = Helper!normalizeGenericUIActionToolCall(call, page), k.supported
  PROVE  /\ \E a \in Actions : a.id = k.id /\ a.implemented
         /\ ~ k.confirm => \E a \in Actions : a.id = k.id /\ a.page = page /\ ~ a.confirm
<1>1. PICK target : target = (IF call.target # Helper!NoPage THEN call.target ELSE page)
  OBVIOUS
<1>2. PICK here : here = Helper!helperActionManifestForPage(page, call.id)
  OBVIOUS
<1>3. PICK meta : meta = IF here # {} THEN here
                         ELSE Helper!helperActionManifestForPage(target, call.id)
  OBVIOUS
<1>4. PICK made : made = (\E a \in meta : a.implemented)
  OBVIOUS
<1>5. PICK ask : ask = (target # page \/ \E a \in meta : a.confirm)
  OBVIOUS
<1>6. \/ k.supported = FALSE
      \/ \E p : k = [id |-> call.id, page |-> p, supported |-> made, confirm |-> ask]
  BY <1>1, <1>2, <1>3, <1>4, <1>5 DEF Helper!normalizeGenericUIActionToolCall
<1>7. k.id = call.id /\ made /\ k.confirm = ask
  BY <1>6
<1>8. \A a \in here : a \in Actions /\ a.id = call.id /\ a.page = page
  BY <1>2 DEF Helper!helperActionManifestForPage
<1>9. \A a \in meta : a \in Actions /\ a.id = call.id
  BY <1>3, <1>8 DEF Helper!helperActionManifestForPage
<1>10. ASSUME ~ ask PROVE \E a \in Actions : a.id = call.id /\ a.page = page /\ ~ a.confirm
  <2>1. target = page /\ \A a \in meta : ~ a.confirm
    BY <1>5, <1>10
  <2>2. meta = here
    BY <1>2, <1>3, <2>1
  <2> QED
    BY <1>4, <1>7, <1>8, <2>1, <2>2
<1> QED
  BY <1>4, <1>7, <1>9, <1>10

\* So the tokens of a round offer what they say, to the turn they are of.
LEMMA TokensOffer ==
  ASSUME NEW t, NEW stream, NEW chart, NEW page, NEW props,
         props = Helper!Proposed(stream, chart, page),
         NEW k \in Helper!attachAiActionToken(t, props)
  PROVE  /\ k.turn = t
         /\ \E a \in Actions : a.id = k.id /\ a.implemented
         /\ ~ k.confirm => \E a \in Actions : a.id = k.id /\ a.page = page /\ ~ a.confirm
<1>1. PICK p \in props : /\ p.supported
                         /\ k = [turn |-> t, id |-> p.id, page |-> p.page, confirm |-> p.confirm,
                                 exp |-> today + Lifetime]
  BY DEF Helper!attachAiActionToken
<1>2. \E call : p = Helper!normalizeGenericUIActionToolCall(call, page)
  BY <1>1 DEF Helper!Proposed, Helper!suggestChartDashboardPivotTool
<1> QED
  BY <1>1, <1>2, ProposalIsOffered

\* A turn is replaced.
LEMMA TurnReplaced ==
  ASSUME HelperTypes, NEW t \in Turns, NEW c \in TurnSet, turn' = [turn EXCEPT ![t] = c]
  PROVE  /\ turn' \in [Turns -> TurnSet] /\ turn'[t] = c
         /\ \A u \in Turns : u # t => turn'[u] = turn[u]
BY DEF HelperTypes

\* A turn that goes on keeps what it passed and gives the tokens that go with it.
LEMMA TurnSanctioned ==
  ASSUME HelperTypes, Guarded, Given, Done, NEW t \in Turns, NEW c \in TurnSet,
         turn' = [turn EXCEPT ![t] = c],
         c.at \in {"idle", "guard"} => c.round = 0,
         c.at = "ask" => c.round <= MaxRounds /\ Passed(c),
         c.at = "save" => c.left > 0,
         turn[t].at \notin {"idle", "guard"} =>
             /\ c.page = turn[t].page /\ c.question = turn[t].question /\ c.said = turn[t].said
             /\ c.at \notin {"idle", "guard"},
         NEW new, tokens' = tokens \cup new,
         \A k \in new : k.turn = t /\ c.at \notin {"idle", "guard"} /\ Passed(c) /\ Offers(k, c),
         executed' = executed, toolLog \subseteq toolLog'
  PROVE  Guarded' /\ Given' /\ Done'
<1>1. /\ turn' \in [Turns -> TurnSet] /\ turn'[t] = c
      /\ \A u \in Turns : u # t => turn'[u] = turn[u]
  BY TurnReplaced
<1>2. Guarded'
  BY <1>1 DEF Guarded, Passed
<1>3. ASSUME NEW k \in tokens
      PROVE  /\ k.turn \in Turns /\ turn'[k.turn].at \notin {"idle", "guard"}
             /\ Passed(turn'[k.turn]) /\ Offers(k, turn'[k.turn])
  <2>1. /\ k.turn \in Turns /\ turn[k.turn].at \notin {"idle", "guard"}
        /\ Passed(turn[k.turn]) /\ Offers(k, turn[k.turn])
    BY DEF Given
  <2>2. CASE k.turn = t
    <3>1. /\ c.page = turn[t].page /\ c.question = turn[t].question /\ c.said = turn[t].said
          /\ c.at \notin {"idle", "guard"}
      BY <2>1, <2>2
    <3>2. Passed(turn[t]) /\ Offers(k, turn[t])
      BY <2>1, <2>2
    <3>3. Passed(c)
      BY <3>1, <3>2 DEF Passed
    <3>4. Offers(k, c)
      BY <3>1, <3>2 DEF Offers
    <3> QED
      BY <1>1, <2>2, <3>1, <3>3, <3>4
  <2>3. CASE k.turn # t
    BY <1>1, <2>1, <2>3
  <2> QED
    BY <2>2, <2>3
<1>4. ASSUME NEW k \in new
      PROVE  /\ k.turn \in Turns /\ turn'[k.turn].at \notin {"idle", "guard"}
             /\ Passed(turn'[k.turn]) /\ Offers(k, turn'[k.turn])
  BY <1>1
<1>5. Given'
  BY <1>3, <1>4 DEF Given, Passed, Offers
<1>6. Done'
  BY DEF Done
<1> QED
  BY <1>2, <1>5, <1>6

\* A turn that goes on and leaves the memories forgets none.
LEMMA TurnRemembers ==
  ASSUME HelperTypes, Replacing, Helper!NothingForgotten, NEW t \in Turns, NEW c \in TurnSet,
         turn' = [turn EXCEPT ![t] = c], UNCHANGED <<memory, forgotten>>,
         c.drops \subseteq DOMAIN memory, Covered(c),
         turn[t].at = "save" => c.at = "save" /\ c.covers = turn[t].covers
  PROVE  Replacing' /\ Helper!NothingForgotten'
<1>1. /\ turn' \in [Turns -> TurnSet] /\ turn'[t] = c
      /\ \A u \in Turns : u # t => turn'[u] = turn[u]
  BY TurnReplaced
<1>2. Replacing'
  BY <1>1 DEF Replacing, Covered
<1>3. Helper!Live' = Helper!Live
  BY DEF Helper!Live
<1>4. ASSUME NEW u \in Turns, turn[u].at = "save", NEW i \in turn[u].covers
      PROVE  turn'[u].at = "save" /\ i \in turn'[u].covers
  BY <1>1, <1>4
<1> QED
  BY <1>2, <1>3, <1>4 DEF Helper!NothingForgotten

\* A turn that goes on, and leaves the memories and the clock, keeps all of it.
LEMMA TurnGoesOn ==
  ASSUME HelperInv, NEW t \in Turns, NEW c \in TurnSet,
         turn' = [turn EXCEPT ![t] = c],
         c.at \in {"idle", "guard"} => c.round = 0,
         c.at = "ask" => c.round <= MaxRounds /\ Passed(c),
         c.at = "save" => c.left > 0,
         turn[t].at \notin {"idle", "guard"} =>
             /\ c.page = turn[t].page /\ c.question = turn[t].question /\ c.said = turn[t].said
             /\ c.at \notin {"idle", "guard"},
         c.drops \subseteq DOMAIN memory, Covered(c),
         turn[t].at = "save" => c.at = "save" /\ c.covers = turn[t].covers,
         UNCHANGED <<memory, tokens, executed, toolLog, today, aiFaults, forgotten>>
  PROVE  HelperInv'
<1>1. HelperTypes /\ Guarded /\ Given /\ Done /\ Replacing /\ Helper!NothingForgotten
  BY DEF HelperInv
<1>2. PICK new : new = {}
  OBVIOUS
<1>3. Guarded' /\ Given' /\ Done'
  <2>1. \A k \in new : k.turn = t /\ c.at \notin {"idle", "guard"} /\ Passed(c) /\ Offers(k, c)
    BY <1>2
  <2>2. tokens' = tokens \cup new /\ toolLog \subseteq toolLog' /\ executed' = executed
    BY <1>2
  <2> QED
    BY <1>1, <2>1, <2>2, TurnSanctioned
<1>4. Replacing' /\ Helper!NothingForgotten'
  BY <1>1, TurnRemembers
<1>5. HelperTypes'
  BY <1>1, TurnReplaced DEF HelperTypes
<1> QED
  BY <1>3, <1>4, <1>5 DEF HelperInv

\* A question arrives, and the guard model looks at it.
LEMMA GuardSteps ==
  ASSUME HelperInv, NEW t \in Turns, Helper!Start(t) \/ Helper!Guard(t)
  PROVE  HelperInv'
<1>1. HelperTypes /\ Guarded /\ turn[t] \in TurnSet /\ Replacing
  BY DEF HelperInv, HelperTypes
<1>2. CASE Helper!Start(t)
  <2>1. PICK page \in Helper!Pages, q \in Questions, configured \in BOOLEAN :
            turn' = [turn EXCEPT ![t] = [Helper!IdleTurn EXCEPT
                        !.at = IF configured THEN "guard" ELSE "refused",
                        !.page = page, !.question = q]]
    BY <1>2 DEF Helper!Start
  <2>2. PICK c : c = [Helper!IdleTurn EXCEPT !.at = IF configured THEN "guard" ELSE "refused",
                          !.page = page, !.question = q]
    OBVIOUS
  <2>3. c = [at |-> IF configured THEN "guard" ELSE "refused", page |-> page, question |-> q,
             said |-> [verdict |-> "", category |-> ""], round |-> 0, answered |-> FALSE,
             left |-> 0, drops |-> {}, strays |-> {}, covers |-> {}]
    BY <2>2 DEF Helper!IdleTurn, Helper!NoReply
  <2>4. 0 \in 0..(MaxRounds + 1)
    BY PartsAssumption DEF Helper!HelperAssumption
  <2>5. /\ c \in TurnSet /\ c.at \in {"guard", "refused"} /\ c.round = 0 /\ c.drops = {}
    BY <2>3, <2>4 DEF TurnSet, Verdicts
  <2>8. Covered(c)
    BY <2>5 DEF Covered
  <2>6. /\ turn[t].at = "idle"
        /\ UNCHANGED <<memory, tokens, executed, toolLog, today, aiFaults, forgotten>>
    BY <1>2 DEF Helper!Start
  <2>7. turn' = [turn EXCEPT ![t] = c]
    BY <2>1, <2>2
  <2> QED
    BY <2>5, <2>6, <2>7, <2>8, TurnGoesOn
<1>3. CASE Helper!Guard(t)
  <2>1. PICK reply \in Verdicts :
            turn' = [turn EXCEPT ![t].said = reply,
                        ![t].at = IF Helper!aiHelperGuardCheck(turn[t].question, reply)
                                  THEN "ask" ELSE "blocked"]
    BY <1>3, VerdictTypes DEF Helper!Guard
  <2>2. PICK lets \in BOOLEAN : lets = Helper!aiHelperGuardCheck(turn[t].question, reply)
    BY DEF Helper!aiHelperGuardCheck, Helper!heuristicGuardCheck, Helper!Benign
  <2>3. PICK c : c = [turn[t] EXCEPT !.said = reply, !.at = IF lets THEN "ask" ELSE "blocked"]
    OBVIOUS
  <2>4. /\ c \in TurnSet /\ c.at = (IF lets THEN "ask" ELSE "blocked") /\ c.said = reply
        /\ c.question = turn[t].question /\ c.round = turn[t].round /\ c.drops = turn[t].drops
    BY <1>1, <2>3 DEF TurnSet
  <2>5. turn' = [turn EXCEPT ![t] = c]
    BY <1>1, <2>1, <2>2, <2>3 DEF HelperTypes
  <2>6. /\ turn[t].at = "guard"
        /\ UNCHANGED <<memory, tokens, executed, toolLog, today, aiFaults, forgotten>>
    BY <1>3 DEF Helper!Guard
  <2>7. c.round = 0 /\ c.drops \subseteq DOMAIN memory /\ 0 <= MaxRounds
    BY <1>1, <2>4, <2>6, PartsAssumption DEF Guarded, Replacing, Helper!HelperAssumption
  <2>8. c.at = "ask" => Passed(c)
    BY <2>2, <2>4, GuardLetsPass
  <2>9. Covered(c)
    BY <2>4 DEF Covered
  <2> QED
    BY <2>4, <2>5, <2>6, <2>7, <2>8, <2>9, TurnGoesOn
<1> QED
  BY <1>2, <1>3

\* The events of a step are written, or the insert fails.
LEMMA EventsWritten ==
  ASSUME HelperTypes, NEW events, Helper!Emit(events)
  PROVE  /\ toolLog \subseteq toolLog' /\ aiFaults' \in 0..MaxAiFaults
         /\ aiFaults' = aiFaults => events \subseteq toolLog'
<1>1. aiFaults \in 0..MaxAiFaults /\ MaxAiFaults \in Nat
  BY PartsAssumption DEF HelperTypes, Helper!HelperAssumption
<1> QED
  BY <1>1 DEF Helper!Emit, Helper!NoFault, Helper!Fail

\* A round of the main model gives tokens for what it proposes.
LEMMA RoundStep ==
  ASSUME HelperInv, NEW t \in Turns, Helper!AskModel(t)
  PROVE  HelperInv'
<1>1. /\ HelperTypes /\ Guarded /\ Given /\ Done /\ Replacing /\ Helper!NothingForgotten
      /\ turn[t] \in TurnSet
  BY DEF HelperInv, HelperTypes
<1>2. PICK props, answered, more :
          /\ answered \in BOOLEAN /\ more \in BOOLEAN
          /\ \E stream, chart : props = Helper!Proposed(stream, chart, turn[t].page)
          /\ more = ~ Helper!LoopEnds(props, turn[t].round)
          /\ turn' = [turn EXCEPT ![t].answered = answered, ![t].round = @ + 1,
                          ![t].at = IF more THEN "ask" ELSE IF answered THEN "answer" ELSE "error"]
          /\ tokens' = tokens \cup Helper!attachAiActionToken(t, props)
          /\ \E events : Helper!Emit(events)
  <2>1. PICK stream \in Streams \cup {<<>>}, chart \in BOOLEAN :
            /\ turn' = [turn EXCEPT
                   ![t].answered = turn[t].answered \/ Helper!streamLLMEndpoint(stream).text,
                   ![t].round = @ + 1,
                   ![t].at = IF ~ Helper!LoopEnds(Helper!Proposed(stream, chart, turn[t].page),
                                                  turn[t].round)
                             THEN "ask"
                             ELSE IF turn[t].answered \/ Helper!streamLLMEndpoint(stream).text
                                  THEN "answer" ELSE "error"]
            /\ tokens' = tokens \cup Helper!attachAiActionToken(
                             t, Helper!Proposed(stream, chart, turn[t].page))
            /\ Helper!Emit({[event |-> "tool.proposed", turn |-> t, id |-> p.id] :
                               p \in Helper!Proposed(stream, chart, turn[t].page)})
    BY DEF Helper!AskModel
  <2>2. PICK props : props = Helper!Proposed(stream, chart, turn[t].page)
    OBVIOUS
  <2>3. PICK answered : answered = (turn[t].answered \/ Helper!streamLLMEndpoint(stream).text)
    OBVIOUS
  <2>4. PICK more : more = ~ Helper!LoopEnds(props, turn[t].round)
    OBVIOUS
  <2>5. answered \in BOOLEAN /\ more \in BOOLEAN
    <3>1. (turn[t].answered \/ Helper!streamLLMEndpoint(stream).text) \in BOOLEAN
      OBVIOUS
    <3>2. (~ Helper!LoopEnds(props, turn[t].round)) \in BOOLEAN
      OBVIOUS
    <3> QED
      BY <2>3, <2>4, <3>1, <3>2, Zenon
  <2>6. PICK events : /\ events = {[event |-> "tool.proposed", turn |-> t, id |-> p.id] :
                                      p \in Helper!Proposed(stream, chart, turn[t].page)}
                      /\ Helper!Emit(events)
    BY <2>1
  <2>7. /\ turn' = [turn EXCEPT ![t].answered = answered, ![t].round = @ + 1,
                         ![t].at = IF more THEN "ask" ELSE IF answered THEN "answer" ELSE "error"]
        /\ tokens' = tokens \cup Helper!attachAiActionToken(t, props)
    BY <2>1, <2>2, <2>3, <2>4
  <2> QED
    BY <2>2, <2>4, <2>5, <2>6, <2>7
<1>3. /\ turn[t].at = "ask" /\ turn[t].round \in Nat /\ turn[t].round <= MaxRounds
      /\ Passed(turn[t]) /\ MaxRounds \in Nat
  BY <1>1, PartsAssumption DEF Helper!AskModel, Guarded, Helper!HelperAssumption, TurnSet
<1>4. more => turn[t].round + 1 <= MaxRounds
  <2>1. more = ~ Helper!LoopEnds(props, turn[t].round)
    BY <1>2
  <2>2. turn[t].round >= MaxRounds => Helper!LoopEnds(props, turn[t].round)
    BY DEF Helper!LoopEnds
  <2>3. turn[t].round >= MaxRounds => ~ more
    BY <2>1, <2>2, Zenon
  <2> QED
    BY <1>3, <2>3
<1>5. PICK c : c = [turn[t] EXCEPT !.answered = answered, !.round = turn[t].round + 1,
                        !.at = IF more THEN "ask" ELSE IF answered THEN "answer" ELSE "error"]
  OBVIOUS
<1>6. /\ c \in TurnSet /\ c.at \in {"ask", "answer", "error"} /\ (c.at = "ask" => more)
      /\ c.round = turn[t].round + 1 /\ c.page = turn[t].page
      /\ c.question = turn[t].question /\ c.said = turn[t].said /\ c.drops = turn[t].drops
  <2>1. turn[t].round + 1 \in 0..(MaxRounds + 1)
    BY <1>3
  <2>2. PICK at : at = IF more THEN "ask" ELSE IF answered THEN "answer" ELSE "error"
    OBVIOUS
  <2>3. at \in {"ask", "answer", "error"} /\ (at = "ask" => more)
    BY <1>2, <2>2
  <2>4. c = [turn[t] EXCEPT !.answered = answered, !.round = turn[t].round + 1, !.at = at]
    BY <1>5, <2>2
  <2>5. answered \in BOOLEAN
    BY <1>2
  <2> QED
    BY <1>1, <2>1, <2>3, <2>4, <2>5 DEF TurnSet
<1>7. turn' = [turn EXCEPT ![t] = c]
  BY <1>1, <1>2, <1>5 DEF HelperTypes
<1>8. Passed(c) /\ (c.at = "ask" => c.round <= MaxRounds)
  BY <1>3, <1>4, <1>6 DEF Passed
<1>9. \A k \in Helper!attachAiActionToken(t, props) :
          k.turn = t /\ c.at \notin {"idle", "guard"} /\ Passed(c) /\ Offers(k, c)
  BY <1>2, <1>6, <1>8, TokensOffer DEF Offers
<1>10. toolLog \subseteq toolLog' /\ aiFaults' \in 0..MaxAiFaults
  BY <1>1, <1>2, EventsWritten
<1>11. UNCHANGED <<memory, executed, today, forgotten>>
  BY DEF Helper!AskModel
<1>12. Guarded' /\ Given' /\ Done'
  BY <1>1, <1>2, <1>3, <1>6, <1>7, <1>8, <1>9, <1>10, <1>11, TurnSanctioned
<1>13. Replacing' /\ Helper!NothingForgotten'
  <2>1. c.drops \subseteq DOMAIN memory /\ Covered(c)
    BY <1>1, <1>6 DEF Replacing, Covered
  <2> QED
    BY <1>1, <1>3, <1>6, <1>7, <1>11, <2>1, TurnRemembers
<1>14. HelperTypes'
  BY <1>1, <1>6, <1>7, <1>10, <1>11, TurnReplaced DEF HelperTypes
<1> QED
  BY <1>12, <1>13, <1>14 DEF HelperInv

\* The memories an answer suggests are taken up one by one, and the turn ends.
LEMMA AnswerSteps ==
  ASSUME HelperInv, NEW t \in Turns,
         Helper!Answer(t) \/ Helper!NextCandidate(t) \/ Helper!Complete(t)
  PROVE  HelperInv'
<1>1. HelperTypes /\ Replacing /\ turn[t] \in TurnSet
  BY DEF HelperInv, HelperTypes
<1>2. /\ turn[t].at \in {"answer", "reconcile"}
      /\ UNCHANGED <<memory, tokens, executed, toolLog, today, aiFaults, forgotten>>
  BY DEF Helper!Answer, Helper!NextCandidate, Helper!Complete
<1>3. ASSUME NEW c \in TurnSet, turn' = [turn EXCEPT ![t] = c],
             c.at \in {"reconcile", "save", "done"}, c.page = turn[t].page,
             c.question = turn[t].question, c.said = turn[t].said,
             c.drops \subseteq DOMAIN memory, c.at = "save" => c.left > 0, Covered(c)
      PROVE  HelperInv'
  BY <1>2, <1>3, TurnGoesOn
<1>4. turn[t].drops \subseteq DOMAIN memory
  BY <1>1 DEF Replacing
<1>5. ASSUME NEW at \in {"reconcile", "done"}, NEW left \in Nat,
             turn' = [turn EXCEPT ![t].at = at, ![t].left = left]
      PROVE  HelperInv'
  <2>1. PICK c : c = [turn[t] EXCEPT !.at = at, !.left = left]
    OBVIOUS
  <2>2. /\ c \in TurnSet /\ c.at = at /\ c.page = turn[t].page
        /\ c.question = turn[t].question /\ c.said = turn[t].said /\ c.drops = turn[t].drops
    BY <1>1, <2>1 DEF TurnSet
  <2>3. turn' = [turn EXCEPT ![t] = c]
    BY <1>1, <1>5, <2>1 DEF HelperTypes
  <2>4. Covered(c)
    BY <2>2 DEF Covered
  <2> QED
    BY <1>3, <1>4, <2>2, <2>3, <2>4
<1>6. CASE Helper!Answer(t)
  <2>1. PICK n \in 0..MaxCandidates : turn' = [turn EXCEPT ![t].at = "reconcile", ![t].left = n]
    BY <1>6 DEF Helper!Answer, Helper!extractMemoryCandidates
  <2>2. n \in Nat
    BY PartsAssumption DEF Helper!HelperAssumption
  <2> QED
    BY <1>5, <2>1, <2>2
<1>7. CASE Helper!Complete(t)
  <2>1. turn' = [turn EXCEPT ![t].at = "done"]
    BY <1>7 DEF Helper!Complete
  <2>2. turn' = [turn EXCEPT ![t].at = "done", ![t].left = turn[t].left] /\ turn[t].left \in Nat
    BY <1>1, <2>1 DEF HelperTypes, TurnSet
  <2> QED
    BY <1>5, <2>2
<1>8. CASE Helper!NextCandidate(t)
  <2>1. turn[t].at = "reconcile" /\ turn[t].left > 0 /\ turn[t].left \in Nat
    BY <1>1, <1>8 DEF Helper!NextCandidate, TurnSet
  <2>2. CASE turn' = [turn EXCEPT ![t].left = @ - 1]
    <3>1. turn' = [turn EXCEPT ![t].at = "reconcile", ![t].left = turn[t].left - 1]
      BY <1>1, <2>1, <2>2 DEF HelperTypes, TurnSet
    <3>2. turn[t].left - 1 \in Nat
      BY <2>1
    <3> QED
      BY <1>5, <3>1, <3>2
  <2>3. CASE turn' # [turn EXCEPT ![t].left = @ - 1]
    <3>1. PICK related \in Helper!semanticMemoryMatches, drop \in SUBSET DOMAIN memory :
                  LET shown == drop \intersect related
                  IN turn' = [turn EXCEPT ![t].at = "save", ![t].drops = drop,
                                 ![t].strays = drop \ related,
                                 ![t].covers = shown \union UNION {memory[i].covers : i \in shown}]
      BY <1>8, <2>3 DEF Helper!NextCandidate
    <3> DEFINE shown == drop \intersect related
               strays == drop \ related
               covers == shown \union UNION {memory[i].covers : i \in shown}
    <3>2. turn' = [turn EXCEPT ![t].at = "save", ![t].drops = drop, ![t].strays = strays,
                               ![t].covers = covers]
      BY <3>1
    <3>3. /\ covers \in SUBSET Nat /\ drop \in SUBSET Nat /\ strays \in SUBSET Nat
      <4>1. \A i \in DOMAIN memory : i \in Nat /\ memory[i].covers \subseteq Nat
        <5>1. memory \in Seq(MemorySet)
          BY <1>1 DEF HelperTypes
        <5>2. \A i \in DOMAIN memory : i \in Nat /\ memory[i] \in MemorySet
          BY <5>1
        <5> QED
          BY <5>2 DEF MemorySet
      <4> QED
        BY <4>1
    <3>4. \A i \in drop \ strays : i \in covers /\ memory[i].covers \subseteq covers
      OBVIOUS
    <3> HIDE DEF shown, strays, covers
    <3>5. PICK c : c = [turn[t] EXCEPT !.at = "save", !.drops = drop, !.strays = strays,
                                       !.covers = covers]
      OBVIOUS
    <3>6. /\ c \in TurnSet /\ c.at = "save" /\ c.page = turn[t].page
          /\ c.question = turn[t].question /\ c.said = turn[t].said
          /\ c.drops = drop /\ c.strays = strays /\ c.covers = covers /\ c.left = turn[t].left
      BY <1>1, <3>3, <3>5 DEF TurnSet
    <3>7. turn' = [turn EXCEPT ![t] = c]
      BY <1>1, <3>2, <3>5 DEF HelperTypes
    <3>8. Covered(c)
      BY <3>6, <3>4 DEF Covered
    <3> QED
      BY <1>3, <2>1, <3>6, <3>7, <3>8
  <2> QED
    BY <2>2, <2>3
<1> QED
  BY <1>6, <1>7, <1>8

\* A memory goes: what stands in for it is about to be saved.
LEMMA DropStep ==
  ASSUME HelperInv, NEW t \in Turns, Helper!DropMemory(t)
  PROVE  HelperInv'
<1>1. /\ HelperTypes /\ Guarded /\ Given /\ Done /\ Replacing /\ Helper!NothingForgotten
      /\ turn[t] \in TurnSet /\ memory \in Seq(MemorySet)
  BY DEF HelperInv, HelperTypes
<1>2. PICK d \in turn[t].drops :
          /\ turn' = [turn EXCEPT ![t].drops = @ \ {d}]
          /\ \/ memory' = [memory EXCEPT ![d].live = FALSE] /\ Helper!NoFault
             \/ Helper!Fail /\ memory' = memory
          /\ \/ memory' = memory /\ forgotten' = forgotten
             \/ d \in turn[t].strays /\ forgotten' = forgotten \union {d} \union memory[d].covers
             \/ d \notin turn[t].strays /\ forgotten' = forgotten
  BY DEF Helper!DropMemory
<1>3. turn[t].at = "save" /\ UNCHANGED <<tokens, executed, toolLog, today>>
  BY DEF Helper!DropMemory
<1>4. PICK c : c = [turn[t] EXCEPT !.drops = turn[t].drops \ {d}]
  OBVIOUS
<1>5. /\ c \in TurnSet /\ c.at = "save" /\ c.page = turn[t].page
      /\ c.question = turn[t].question /\ c.said = turn[t].said
      /\ c.drops = turn[t].drops \ {d} /\ c.covers = turn[t].covers /\ c.left > 0
      /\ c.strays = turn[t].strays
  BY <1>1, <1>3, <1>4 DEF TurnSet, Guarded
<1>6. turn' = [turn EXCEPT ![t] = c]
  BY <1>1, <1>2, <1>4 DEF HelperTypes
<1>7. /\ turn' \in [Turns -> TurnSet] /\ turn'[t] = c
      /\ \A u \in Turns : u # t => turn'[u] = turn[u]
  BY <1>1, <1>5, <1>6, TurnReplaced
<1>8. /\ d \in DOMAIN memory /\ forgotten \subseteq forgotten'
      /\ \/ memory' = memory
         \/ \A i \in {d} \cup memory[d].covers : i \in turn[t].covers \/ i \in forgotten'
  BY <1>1, <1>2, <1>3 DEF Replacing, Covered
<1>9. /\ memory' \in Seq(MemorySet) /\ DOMAIN memory' = DOMAIN memory
      /\ \A i \in DOMAIN memory : /\ memory'[i].covers = memory[i].covers
                                  /\ i # d => memory'[i] = memory[i]
  <2>1. CASE memory' = memory
    BY <1>1, <2>1
  <2>2. CASE memory' = [memory EXCEPT ![d].live = FALSE]
    <3>1. memory[d] \in MemorySet
      BY <1>1, <1>8
    <3>2. PICK m : m = [memory[d] EXCEPT !.live = FALSE]
      OBVIOUS
    <3>3. m \in MemorySet /\ m.covers = memory[d].covers
      BY <3>1, <3>2 DEF MemorySet
    <3>4. memory' = [memory EXCEPT ![d] = m]
      BY <1>1, <2>2, <3>2
    <3> QED
      BY <1>1, <1>8, <3>3, <3>4
  <2> QED
    BY <1>2, <2>1, <2>2
<1>10. aiFaults' \in 0..MaxAiFaults
  BY <1>1, <1>2, PartsAssumption
     DEF HelperTypes, Helper!Fail, Helper!NoFault, Helper!HelperAssumption
<1>11. HelperTypes'
  BY <1>1, <1>3, <1>7, <1>9, <1>10 DEF HelperTypes
<1>12. Guarded' /\ Given' /\ Done'
  <2>1. PICK new : new = {}
    OBVIOUS
  <2>2. tokens' = tokens \cup new /\ toolLog \subseteq toolLog' /\ executed' = executed
    BY <1>3, <2>1
  <2>3. \A k \in new : k.turn = t /\ c.at \notin {"idle", "guard"} /\ Passed(c) /\ Offers(k, c)
    BY <2>1
  <2> QED
    BY <1>1, <1>5, <1>6, <2>2, <2>3, TurnSanctioned
<1>13. Replacing'
  <2>1. \A i \in turn[t].drops : i \in DOMAIN memory
    BY <1>1 DEF Replacing
  <2> QED
    BY <1>1, <1>3, <1>5, <1>7, <1>9, <2>1 DEF Replacing, Covered
<1>14. Helper!NothingForgotten'
  <2>1. ASSUME NEW i \in DOMAIN memory
        PROVE  \/ i \in DOMAIN memory' /\ memory'[i].live
               \/ i \in forgotten'
               \/ \E j \in DOMAIN memory' : memory'[j].live /\ i \in memory'[j].covers
               \/ \E u \in Turns : turn'[u].at = "save" /\ i \in turn'[u].covers
    <3>1. CASE i = d /\ memory' # memory
      BY <1>5, <1>7, <1>8, <3>1
    <3>2. CASE (i # d \/ memory' = memory) /\ memory[i].live
      BY <1>9, <3>2
    <3>3. CASE i \in forgotten
      BY <1>8, <3>3
    <3>4. CASE \E j \in DOMAIN memory : memory[j].live /\ i \in memory[j].covers
      <4>1. PICK j \in DOMAIN memory : memory[j].live /\ i \in memory[j].covers
        BY <3>4
      <4>2. CASE j = d /\ memory' # memory
        BY <1>5, <1>7, <1>8, <4>1, <4>2
      <4>3. CASE j # d \/ memory' = memory
        BY <1>9, <4>1, <4>3
      <4> QED
        BY <4>2, <4>3
    <3>5. CASE \E u \in Turns : turn[u].at = "save" /\ i \in turn[u].covers
      <4>1. PICK u \in Turns : turn[u].at = "save" /\ i \in turn[u].covers
        BY <3>5
      <4>2. turn'[u].at = "save" /\ i \in turn'[u].covers
        BY <1>5, <1>7, <4>1
      <4> QED
        BY <4>2
    <3> QED
      BY <1>1, <3>1, <3>2, <3>3, <3>4, <3>5 DEF Helper!NothingForgotten, Helper!Live
  <2> QED
    BY <1>3, <1>9, <2>1 DEF Helper!NothingForgotten, Helper!Live
<1> QED
  BY <1>11, <1>12, <1>13, <1>14 DEF HelperInv

\* The new memory is saved, and stands in for what its turn dropped.
LEMMA SaveStep ==
  ASSUME HelperInv, NEW t \in Turns, Helper!SaveMemory(t)
  PROVE  HelperInv'
<1>1. /\ HelperTypes /\ Guarded /\ Given /\ Done /\ Replacing /\ Helper!NothingForgotten
      /\ turn[t] \in TurnSet /\ memory \in Seq(MemorySet)
  BY DEF HelperInv, HelperTypes
<1>2. /\ turn[t].at = "save" /\ turn[t].drops = {}
      /\ turn' = [turn EXCEPT ![t].at = "reconcile", ![t].left = @ - 1,
                           ![t].strays = {}, ![t].covers = {}]
      /\ UNCHANGED <<tokens, executed, toolLog, today>>
  BY DEF Helper!SaveMemory
<1>3. PICK c : c = [turn[t] EXCEPT !.at = "reconcile", !.left = turn[t].left - 1,
                               !.strays = {}, !.covers = {}]
  OBVIOUS
<1>4. /\ c \in TurnSet /\ c.at = "reconcile" /\ c.page = turn[t].page
      /\ c.question = turn[t].question /\ c.said = turn[t].said /\ c.drops = {}
  <2>1. turn[t].left \in Nat /\ turn[t].left > 0
    BY <1>1, <1>2 DEF TurnSet, Guarded
  <2>2. turn[t].left - 1 \in Nat
    BY <2>1
  <2> QED
    BY <1>1, <1>2, <1>3, <2>2 DEF TurnSet
<1>5. turn' = [turn EXCEPT ![t] = c]
  BY <1>1, <1>2, <1>3 DEF HelperTypes
<1>6. /\ turn' \in [Turns -> TurnSet] /\ turn'[t] = c
      /\ \A u \in Turns : u # t => turn'[u] = turn[u]
  BY <1>1, <1>4, <1>5, TurnReplaced
<1>7. PICK new : new = [live |-> TRUE, covers |-> turn[t].covers]
  OBVIOUS
<1>8. new \in MemorySet /\ new.live /\ new.covers = turn[t].covers
  BY <1>1, <1>7 DEF MemorySet, TurnSet
<1>9. \/ /\ memory' = Append(memory, new) /\ Helper!NoFault /\ forgotten' = forgotten
      \/ /\ Helper!Fail /\ memory' = memory /\ forgotten' = forgotten \cup turn[t].covers
  BY <1>7 DEF Helper!SaveMemory
<1>10. /\ memory' \in Seq(MemorySet) /\ DOMAIN memory \subseteq DOMAIN memory'
       /\ \A i \in DOMAIN memory : memory'[i] = memory[i]
  BY <1>1, <1>8, <1>9
<1>11. aiFaults' \in 0..MaxAiFaults
  BY <1>1, <1>9, PartsAssumption
     DEF HelperTypes, Helper!Fail, Helper!NoFault, Helper!HelperAssumption
<1>12. HelperTypes'
  BY <1>1, <1>2, <1>6, <1>10, <1>11 DEF HelperTypes
<1>13. Guarded' /\ Given' /\ Done'
  <2>1. PICK none : none = {}
    OBVIOUS
  <2>2. tokens' = tokens \cup none /\ toolLog \subseteq toolLog' /\ executed' = executed
    BY <1>2, <2>1
  <2>3. \A k \in none : k.turn = t /\ c.at \notin {"idle", "guard"} /\ Passed(c) /\ Offers(k, c)
    BY <2>1
  <2> QED
    BY <1>1, <1>4, <1>5, <2>2, <2>3, TurnSanctioned
<1>14. Replacing'
  <2>1. \A u \in Turns : \A i \in turn[u].drops : i \in DOMAIN memory
    BY <1>1 DEF Replacing
  <2> QED
    BY <1>1, <1>4, <1>6, <1>10, <2>1 DEF Replacing, Covered
<1>15. Helper!NothingForgotten'
  <2>1. ASSUME NEW i \in DOMAIN memory
        PROVE  \/ memory'[i].live
               \/ i \in forgotten'
               \/ \E j \in DOMAIN memory' : memory'[j].live /\ i \in memory'[j].covers
               \/ \E u \in Turns : turn'[u].at = "save" /\ i \in turn'[u].covers
    <3>1. CASE memory[i].live
      BY <1>10, <3>1
    <3>2. CASE i \in forgotten
      BY <1>9, <3>2
    <3>3. CASE \E j \in DOMAIN memory : memory[j].live /\ i \in memory[j].covers
      BY <1>10, <3>3
    <3>4. CASE i \in turn[t].covers
      <4>1. CASE memory' = Append(memory, new)
        <5>1. Len(memory) + 1 \in DOMAIN memory' /\ memory'[Len(memory) + 1] = new
          BY <1>1, <4>1
        <5> QED
          BY <1>8, <3>4, <5>1
      <4>2. CASE forgotten' = forgotten \cup turn[t].covers
        BY <3>4, <4>2
      <4> QED
        BY <1>9, <4>1, <4>2
    <3>5. CASE \E u \in Turns : u # t /\ turn[u].at = "save" /\ i \in turn[u].covers
      BY <1>6, <3>5
    <3> QED
      BY <1>1, <3>1, <3>2, <3>3, <3>4, <3>5 DEF Helper!NothingForgotten, Helper!Live
  <2>2. ASSUME NEW i \in DOMAIN memory', i \notin DOMAIN memory
        PROVE  memory'[i].live
    <3>1. memory' = Append(memory, new)
      BY <1>9, <2>2
    <3>2. i = Len(memory) + 1
      BY <1>1, <2>2, <3>1
    <3> QED
      BY <1>1, <1>8, <3>1, <3>2
  <2> QED
    BY <1>10, <2>1, <2>2 DEF Helper!NothingForgotten, Helper!Live
<1> QED
  BY <1>12, <1>13, <1>14, <1>15 DEF HelperInv

\* A token that is good and confirmed is used.
LEMMA ExecuteStep ==
  ASSUME HelperInv, NEW k \in tokens, NEW confirmed \in BOOLEAN, Helper!Execute(k, confirmed)
  PROVE  HelperInv'
<1>1. HelperTypes /\ Guarded /\ Given /\ Done /\ Replacing /\ Helper!NothingForgotten
  BY DEF HelperInv
<1>2. PICK events, e :
          /\ events = {[event |-> "tool.executed", turn |-> k.turn, id |-> k.id]}
          /\ Helper!Emit(events)
          /\ e = [token |-> k, confirmed |-> confirmed, on |-> today,
                  logged |-> aiFaults' = aiFaults]
          /\ executed' = executed \cup {e}
  BY DEF Helper!Execute
<1>3. /\ k.exp > today /\ (k.confirm => confirmed)
      /\ UNCHANGED <<turn, memory, tokens, today, forgotten>>
  BY DEF Helper!Execute
<1>4. /\ toolLog \subseteq toolLog' /\ aiFaults' \in 0..MaxAiFaults
      /\ aiFaults' = aiFaults => events \subseteq toolLog'
  BY <1>1, <1>2, EventsWritten
<1>5. HelperTypes'
  BY <1>1, <1>3, <1>4 DEF HelperTypes
<1>6. Guarded' /\ Given'
  BY <1>1, <1>3 DEF Guarded, Given, Passed, Offers
<1>7. Done'
  <2>1. ASSUME NEW d \in executed
        PROVE  /\ d \in [token : tokens, confirmed : BOOLEAN, on : 0..MaxToday, logged : BOOLEAN]
               /\ d.on < d.token.exp /\ (d.token.confirm => d.confirmed)
               /\ d.logged =>
                      [event |-> "tool.executed", turn |-> d.token.turn, id |-> d.token.id]
                          \in toolLog'
    BY <1>1, <1>4 DEF Done
  <2>2. PICK logged \in BOOLEAN : logged = (aiFaults' = aiFaults)
    <3>1. (aiFaults' = aiFaults) \in BOOLEAN
      OBVIOUS
    <3> QED
      BY <3>1, Zenon
  <2>3. e = [token |-> k, confirmed |-> confirmed, on |-> today, logged |-> logged]
    BY <1>2, <2>2
  <2>4. /\ e.token = k /\ e.confirmed = confirmed /\ e.on = today /\ e.logged = logged
        /\ e \in [token : tokens, confirmed : BOOLEAN, on : 0..MaxToday, logged : BOOLEAN]
    BY <1>1, <2>3 DEF HelperTypes
  <2>5. e.on < k.exp
    BY <1>3, <2>4
  <2>6. e.logged => [event |-> "tool.executed", turn |-> k.turn, id |-> k.id] \in toolLog'
    BY <1>2, <1>4, <2>2, <2>4
  <2> QED
    BY <1>2, <1>3, <2>1, <2>4, <2>5, <2>6 DEF Done
<1>8. Replacing'
  BY <1>1, <1>3 DEF Replacing, Covered
<1>9. Helper!NothingForgotten'
  BY <1>1, <1>3 DEF Helper!NothingForgotten, Helper!Live
<1> QED
  BY <1>5, <1>6, <1>7, <1>8, <1>9 DEF HelperInv

\* Time passes.
LEMMA DayStep ==
  ASSUME HelperInv, Helper!Tick
  PROVE  HelperInv'
<1>1. HelperTypes /\ Guarded /\ Given /\ Done /\ Replacing /\ Helper!NothingForgotten
  BY DEF HelperInv
<1>2. /\ today < MaxToday /\ today' = today + 1
      /\ UNCHANGED <<turn, memory, tokens, executed, toolLog, aiFaults, forgotten>>
  BY DEF Helper!Tick
<1>3. HelperTypes'
  BY <1>1, <1>2, PartsAssumption DEF HelperTypes, Helper!HelperAssumption
<1>4. Guarded' /\ Given' /\ Done' /\ Replacing'
  BY <1>1, <1>2 DEF Guarded, Given, Done, Replacing, Covered, Passed, Offers
<1>5. Helper!NothingForgotten'
  BY <1>1, <1>2 DEF Helper!NothingForgotten, Helper!Live
<1> QED
  BY <1>3, <1>4, <1>5 DEF HelperInv

\* The process dies, and with it the memories that were about to be saved.
LEMMA DeathStep ==
  ASSUME HelperInv, Helper!Die
  PROVE  HelperInv'
<1>1. HelperTypes /\ Guarded /\ Given /\ Done /\ Replacing /\ Helper!NothingForgotten
  BY DEF HelperInv
<1>2. /\ Helper!Fail /\ UNCHANGED <<memory, tokens, executed, toolLog, today>>
      /\ turn' = [t \in Turns |-> [turn[t] EXCEPT !.at =
             IF @ \in {"guard", "ask", "answer", "reconcile", "save"} THEN "dead" ELSE @]]
      /\ forgotten' = forgotten \cup
             UNION {turn[t].covers : t \in {u \in Turns : turn[u].at = "save"}}
  BY DEF Helper!Die
<1>3. ASSUME NEW t \in Turns
      PROVE  /\ turn'[t] \in TurnSet
             /\ turn'[t].at \in {"idle", "refused", "blocked", "error", "done", "dead"}
             /\ turn'[t].at = "idle" => turn[t].at = "idle"
             /\ turn'[t].page = turn[t].page /\ turn'[t].question = turn[t].question
             /\ turn'[t].said = turn[t].said /\ turn'[t].round = turn[t].round
             /\ turn'[t].drops = turn[t].drops
  <2>1. turn[t] \in TurnSet
    BY <1>1 DEF HelperTypes
  <2>2. turn'[t] = [turn[t] EXCEPT !.at =
            IF @ \in {"guard", "ask", "answer", "reconcile", "save"} THEN "dead" ELSE @]
    BY <1>2
  <2> QED
    BY <2>1, <2>2 DEF TurnSet
<1>4. HelperTypes'
  <2>1. aiFaults' \in 0..MaxAiFaults
    BY <1>1, <1>2, PartsAssumption DEF HelperTypes, Helper!Fail, Helper!HelperAssumption
  <2>2. turn' \in [Turns -> TurnSet]
    BY <1>2, <1>3
  <2> QED
    BY <1>1, <1>2, <2>1, <2>2 DEF HelperTypes
<1>5. Guarded'
  BY <1>1, <1>3 DEF Guarded
<1>6. Given'
  <2>1. ASSUME NEW k \in tokens
        PROVE  /\ k.turn \in Turns /\ turn'[k.turn].at \notin {"idle", "guard"}
               /\ Passed(turn'[k.turn]) /\ Offers(k, turn'[k.turn])
    <3>1. /\ k.turn \in Turns /\ turn[k.turn].at \notin {"idle", "guard"}
          /\ Passed(turn[k.turn]) /\ Offers(k, turn[k.turn])
      BY <1>1 DEF Given
    <3>2. turn'[k.turn].at \notin {"idle", "guard"}
      BY <1>3, <3>1
    <3>3. Passed(turn'[k.turn])
      BY <1>3, <3>1 DEF Passed
    <3>4. Offers(k, turn'[k.turn])
      BY <1>3, <3>1 DEF Offers
    <3> QED
      BY <3>1, <3>2, <3>3, <3>4
  <2> QED
    BY <1>2, <2>1 DEF Given, Passed, Offers
<1>7. Done'
  BY <1>1, <1>2 DEF Done
<1>8. Replacing'
  BY <1>1, <1>2, <1>3 DEF Replacing, Covered
<1>9. Helper!NothingForgotten'
  <2>1. ASSUME NEW t \in Turns, turn[t].at = "save", NEW i \in turn[t].covers
        PROVE  i \in forgotten'
    BY <1>2, <2>1
  <2>2. Helper!Live' = Helper!Live /\ forgotten \subseteq forgotten'
    BY <1>2 DEF Helper!Live
  <2> QED
    BY <1>1, <1>2, <2>1, <2>2 DEF Helper!NothingForgotten
<1> QED
  BY <1>4, <1>5, <1>6, <1>7, <1>8, <1>9 DEF HelperInv

\* The invariant holds at first and is kept by every step.
THEOREM HelperKeepsFaith == ASSUME Helper!HelperAssumption PROVE Helper!Spec => []HelperInv
<1>1. Helper!Init => HelperInv
  <2> SUFFICES ASSUME Helper!Init PROVE HelperInv
    OBVIOUS
  <2> USE DEF Helper!Init
  <2>1. Helper!IdleTurn \in TurnSet
    <3>1. 0 \in 0..(MaxRounds + 1)
      BY DEF Helper!HelperAssumption
    <3>2. Helper!NoReply \in Verdicts
      BY DEF Verdicts, Helper!NoReply
    <3> QED
      BY <3>1, <3>2 DEF TurnSet, Helper!IdleTurn
  <2>2. HelperTypes
    BY <2>1 DEF HelperTypes, Helper!HelperAssumption
  <2>3. \A t \in Turns : turn[t].at = "idle" /\ turn[t].round = 0 /\ turn[t].drops = {}
    BY DEF Helper!IdleTurn
  <2>4. Guarded /\ Given /\ Done /\ Replacing
    BY <2>3 DEF Guarded, Given, Done, Replacing, Covered
  <2>5. Helper!NothingForgotten
    BY DEF Helper!NothingForgotten
  <2> QED
    BY <2>2, <2>4, <2>5 DEF HelperInv
<1>2. HelperInv /\ [Helper!Next]_Helper!vars => HelperInv'
  <2> SUFFICES ASSUME HelperInv, [Helper!Next]_Helper!vars PROVE HelperInv'
    OBVIOUS
  <2>1. CASE \E t \in Turns :
                 \/ Helper!Start(t) \/ Helper!Guard(t) \/ Helper!AskModel(t) \/ Helper!Answer(t)
                 \/ Helper!NextCandidate(t) \/ Helper!DropMemory(t) \/ Helper!SaveMemory(t)
                 \/ Helper!Complete(t)
    BY <2>1, GuardSteps, RoundStep, AnswerSteps, DropStep, SaveStep
  <2>2. CASE \E k \in tokens, confirmed \in BOOLEAN : Helper!Execute(k, confirmed)
    BY <2>2, ExecuteStep
  <2>3. CASE Helper!Tick \/ Helper!Die
    BY <2>3, DayStep, DeathStep
  <2>4. CASE UNCHANGED Helper!vars
    <3>1. UNCHANGED <<turn, memory, tokens, executed, toolLog, today, aiFaults, forgotten>>
      BY <2>4 DEF Helper!vars
    <3>2. HelperTypes /\ Guarded /\ Given /\ Done /\ Replacing /\ Helper!NothingForgotten
      BY DEF HelperInv
    <3>3. (Guarded /\ Given /\ Done /\ Replacing)'
      BY <3>1, <3>2 DEF Guarded, Given, Done, Replacing, Covered, Passed, Offers
    <3>4. (HelperTypes /\ Helper!NothingForgotten)'
      BY <3>1, <3>2 DEF HelperTypes, Helper!NothingForgotten, Helper!Live
    <3> QED
      BY <3>3, <3>4 DEF HelperInv
  <2> QED
    BY <2>1, <2>2, <2>3, <2>4 DEF Helper!Next
<1> QED
  BY <1>1, <1>2, PTL DEF Helper!Spec

\* It gives the types, and that executions are sanctioned.
LEMMA FaithIsEnough ==
  ASSUME HelperInv
  PROVE  Helper!TypeOK /\ Helper!SanctionedActions
<1>1. HelperTypes /\ Guarded /\ Given /\ Done /\ Replacing
  BY DEF HelperInv
<1>2. Helper!TypeOK
  <2>1. \A t \in Turns : turn[t].round \in 0..(MaxRounds + 1)
    BY <1>1 DEF HelperTypes, TurnSet
  <2> QED
    BY <1>1, <2>1 DEF Helper!TypeOK, HelperTypes, Replacing, Done
<1>3. ASSUME NEW e \in executed, NEW k, k = e.token, NEW c, c = turn[k.turn]
      PROVE  /\ e.on < k.exp
             /\ c.question # "injection" /\ c.said.verdict # ""
             /\ c.said.verdict = "UNSAFE" => c.said.category # "S9"
             /\ \E a \in Actions : a.id = k.id /\ a.implemented
             /\ ~e.confirmed => \E a \in Actions : a.id = k.id /\ a.page = c.page /\ ~a.confirm
             /\ e.logged => Helper!loadChatToolHistory(k.turn)[k.id] = "executed"
  <2>1. e.on < k.exp /\ (k.confirm => e.confirmed) /\ k \in tokens
    BY <1>1, <1>3 DEF Done
  <2>2. Passed(c) /\ Offers(k, c)
    BY <1>1, <1>3, <2>1 DEF Given
  <2>3. ASSUME e.logged PROVE Helper!loadChatToolHistory(k.turn)[k.id] = "executed"
    <3>1. PICK d : d = [event |-> "tool.executed", turn |-> k.turn, id |-> k.id]
      OBVIOUS
    <3>2. d \in toolLog /\ d.event = "tool.executed" /\ d.turn = k.turn /\ d.id = k.id
      BY <1>1, <1>3, <2>3, <3>1 DEF Done
    <3>3. PICK mine : mine = {x \in toolLog : x.turn = k.turn}
      OBVIOUS
    <3>4. d \in mine /\ k.id \in {x.id : x \in mine}
      BY <3>2, <3>3
    <3>5. Helper!loadChatToolHistory(k.turn) =
              [id \in {x.id : x \in mine} |->
                  IF \E x \in mine : x.id = id /\ x.event = "tool.executed"
                  THEN "executed" ELSE "proposed"]
      BY <3>3 DEF Helper!loadChatToolHistory
    <3> QED
      BY <3>2, <3>4, <3>5
  <2> QED
    BY <2>1, <2>2, <2>3 DEF Passed, Offers
<1>4. Helper!SanctionedActions
  BY <1>3 DEF Helper!SanctionedActions
<1> QED
  BY <1>2, <1>4

-----------------------------------------------------------------------------
(* What was proved of a part holds of it here.                             *)

\* The parts' behaviours are those of their modules.
LEMMA PartsAlone ==
  /\ AgentInit /\ part = "agents" => Init
  /\ AgentInit /\ part = "notify" => Notify!Init
  /\ AgentInit /\ part = "helper" => Helper!Init
  /\ AgentInit /\ part = "mcp" => Endpoint!Init
  /\ [AgentNext]_everything /\ part = "agents" => [Next]_vars
  /\ [AgentNext]_everything /\ part = "notify" => [Notify!Next]_Notify!vars
  /\ [AgentNext]_everything /\ part = "helper" => [Helper!Next]_Helper!vars
  /\ [AgentNext]_everything /\ part = "mcp" => [Endpoint!Next]_Endpoint!vars
<1>1. ASSUME AgentInit
      PROVE  /\ part = "agents" => Init
             /\ part = "notify" => Notify!Init
             /\ part = "helper" => Helper!Init
             /\ part = "mcp" => Endpoint!Init
  BY <1>1 DEF AgentInit
<1>2. ASSUME AgentNext
      PROVE  /\ part = "agents" => Next
             /\ part = "notify" => Notify!Next
             /\ part = "helper" => Helper!Next
             /\ part = "mcp" => Endpoint!Next
  BY <1>2 DEF AgentNext
<1>3. ASSUME UNCHANGED everything
      PROVE  /\ UNCHANGED vars /\ UNCHANGED Notify!vars
             /\ UNCHANGED Helper!vars /\ UNCHANGED Endpoint!vars
  BY <1>3 DEF everything, notifyVars, helperVars, mcpVars, Notify!vars, Notify!history,
       Helper!vars, Endpoint!vars
<1> QED
  BY <1>1, <1>2, <1>3

\* A part stays at work, or stays away.
LEMMA PartStays ==
  [AgentNext]_everything => part' = part
BY DEF AgentNext, everything

\* Neither ceiling is passed by runs in turn whose work items were stored.
THEOREM RunsKeepCaps == AgentSpec => []CapsHold
<1>1. AgentInit /\ part = "agents" => Init
  BY PartsAlone
<1>2. [AgentNext]_everything /\ part = "agents" => [Next]_vars
  BY PartsAlone
<1>3. [AgentNext]_everything /\ part = "agents" => (part = "agents")'
  BY PartStays
<1>4. [AgentNext]_everything /\ ~ (part = "agents") => ~ (part = "agents")'
  BY PartStays
<1>5. (part = "agents" => HourlyCap /\ ActiveCap) => CapsHold
  BY DEF CapsHold
<1> QED
  BY <1>1, <1>2, <1>3, <1>4, <1>5, RunsInTurnKeepCaps, PTL DEF Spec, AgentSpec

\* A run that ends shows its outcome and what it opened its work item, unless the
\* insert of that row failed.
THEOREM RunsAreKeptRecorded == AgentSpec => []RunsAreRecorded
<1>1. AgentInit /\ part = "agents" => Init
  BY PartsAlone
<1>2. [AgentNext]_everything /\ part = "agents" => [Next]_vars
  BY PartsAlone
<1>3. [AgentNext]_everything /\ part = "agents" => (part = "agents")'
  BY PartStays
<1>4. [AgentNext]_everything /\ ~ (part = "agents") => ~ (part = "agents")'
  BY PartStays
<1>5. (part = "agents" => TypeOK /\ OutcomeIsRecorded /\ IssuesAreTracked) => RunsAreRecorded
  BY DEF RunsAreRecorded
<1> QED
  BY <1>1, <1>2, <1>3, <1>4, <1>5, RunsStayRecorded, PTL DEF Spec, AgentSpec

\* A step of the check keeps the rules.
THEOREM ChecksAreFaithful == AgentSpec => ChecksKeepRules
<1>1. Notify!NotificationAssumption
  BY PartsAssumption
<1>2. AgentInit /\ part = "notify" => Notify!Init
  BY PartsAlone
<1>3. [AgentNext]_everything /\ part = "notify" => [Notify!Next]_Notify!vars
  BY PartsAlone
<1>4. [AgentNext]_everything /\ part = "notify" => (part = "notify")'
  BY PartStays
<1>5. [AgentNext]_everything /\ ~ (part = "notify") => ~ (part = "notify")'
  BY PartStays
<1>6. Notify!Spec => [][Notify!KeepsRules /\ Notify!QuietWhenOff]_Notify!vars
  BY <1>1, ChecksKeepTheRules DEF Notify!ChecksKeepRules
<1>7. [AgentNext]_everything /\ [Notify!KeepsRules /\ Notify!QuietWhenOff]_Notify!vars
      => [part = "notify" => Notify!KeepsRules /\ Notify!QuietWhenOff]_everything
  <2> SUFFICES ASSUME AgentNext, part = "notify", ~ UNCHANGED everything,
                      [Notify!KeepsRules /\ Notify!QuietWhenOff]_Notify!vars
               PROVE  Notify!KeepsRules /\ Notify!QuietWhenOff
    OBVIOUS
  <2>1. ~ UNCHANGED Notify!vars
    BY DEF AgentNext, everything, notifyVars, Notify!vars, Notify!history
  <2> QED
    BY <2>1
<1> QED
  BY <1>2, <1>3, <1>4, <1>5, <1>6, <1>7, PTL DEF Notify!Spec, AgentSpec, ChecksKeepRules

\* Checks in turn keep the cooldown.
THEOREM CooldownsAreKept == AgentSpec => CooldownInTurn
<1>1. Notify!NotificationAssumption
  BY PartsAssumption
<1>2. AgentInit /\ part = "notify" => Notify!Init
  BY PartsAlone
<1>3. [AgentNext]_everything /\ part = "notify" => [Notify!Next]_Notify!vars
  BY PartsAlone
<1>4. [AgentNext]_everything /\ part = "notify" => (part = "notify")'
  BY PartStays
<1>5. [AgentNext]_everything /\ ~ (part = "notify") => ~ (part = "notify")'
  BY PartStays
<1>6. Notify!Spec => [][Notify!RestsInTurn]_Notify!vars
  BY <1>1, CooldownKeeps DEF Notify!CooldownInTurn
<1>7. [AgentNext]_everything /\ [Notify!RestsInTurn]_Notify!vars
      => [part = "notify" => Notify!RestsInTurn]_everything
  <2> SUFFICES ASSUME AgentNext, part = "notify", ~ UNCHANGED everything,
                      [Notify!RestsInTurn]_Notify!vars
               PROVE  Notify!RestsInTurn
    OBVIOUS
  <2>1. ~ UNCHANGED Notify!vars
    BY DEF AgentNext, everything, notifyVars, Notify!vars, Notify!history
  <2> QED
    BY <2>1
<1> QED
  BY <1>2, <1>3, <1>4, <1>5, <1>6, <1>7, PTL DEF Notify!Spec, AgentSpec, CooldownInTurn

\* What is executed was proposed by a turn the guard let pass, not too long ago, and
\* without a confirmation only what the page of its question offers unconfirmed; how
\* often it is executed is not bounded.  What comes by MCP has a key in force and
\* keeps to the rate.
THEOREM ActionsAreSanctioned == AgentSpec => []SanctionedActions
<1>1. /\ AgentInit /\ part = "helper" => Helper!Init
      /\ AgentInit /\ part = "mcp" => Endpoint!Init
  BY PartsAlone
<1>2. /\ [AgentNext]_everything /\ part = "helper" => [Helper!Next]_Helper!vars
      /\ [AgentNext]_everything /\ part = "mcp" => [Endpoint!Next]_Endpoint!vars
  BY PartsAlone
<1>3. /\ [AgentNext]_everything /\ part = "helper" => (part = "helper")'
      /\ [AgentNext]_everything /\ part = "mcp" => (part = "mcp")'
  BY PartStays
<1>4. /\ [AgentNext]_everything /\ ~ (part = "helper") => ~ (part = "helper")'
      /\ [AgentNext]_everything /\ ~ (part = "mcp") => ~ (part = "mcp")'
  BY PartStays
<1>5. Helper!Spec => []HelperInv
  BY PartsAssumption, HelperKeepsFaith
<1>6. Endpoint!Spec => []Endpoint!KeysInForce
  BY PartsAssumption, KeysStayInForce
<1>7. Endpoint!Spec => []Endpoint!RateIsBounded
  BY PartsAssumption, RateStaysBounded
<1>8. /\ part = "helper" => HelperInv
      /\ part = "mcp" => Endpoint!KeysInForce /\ Endpoint!RateIsBounded
      => SanctionedActions
  BY FaithIsEnough DEF SanctionedActions
<1> QED
  BY <1>1, <1>2, <1>3, <1>4, <1>5, <1>6, <1>7, <1>8, PTL
     DEF Helper!Spec, Endpoint!Spec, AgentSpec

\* A memory that goes is covered, but for a lost write, a death, or a reply that
\* names it unseen.
THEOREM NothingIsForgotten == AgentSpec => []NothingForgotten
<1>1. AgentInit /\ part = "helper" => Helper!Init
  BY PartsAlone
<1>2. [AgentNext]_everything /\ part = "helper" => [Helper!Next]_Helper!vars
  BY PartsAlone
<1>3. [AgentNext]_everything /\ part = "helper" => (part = "helper")'
  BY PartStays
<1>4. [AgentNext]_everything /\ ~ (part = "helper") => ~ (part = "helper")'
  BY PartStays
<1>5. Helper!Spec => []HelperInv
  BY PartsAssumption, HelperKeepsFaith
<1>6. (part = "helper" => HelperInv) => NothingForgotten
  BY DEF HelperInv, NothingForgotten
<1> QED
  BY <1>1, <1>2, <1>3, <1>4, <1>5, <1>6, PTL DEF Helper!Spec, AgentSpec
=============================================================================
