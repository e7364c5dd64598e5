------------------------------ MODULE Suggestions -------------------------------
(* Rules and charts made from what was seen: metric rules                      *)
(* (metric_candidates.go), tag rules (tag_candidates.go), notification rules   *)
(* (handlers_mutations2.go) and the charts of rules (fix_pages_obs.go), with   *)
(* the forms that create them (handlers_pages.go).                             *)
(*                                                                             *)
(* Each form reads what is there already, proposes the rest and inserts it:    *)
(* requests overlap between the two, and a read that fails counts as empty.    *)
EXTENDS Integers, FiniteSets, FiniteSetsExt

CONSTANTS
    Requests,   \* requests, each of one form
    Forms,      \* [table, type, fp]: what is made; metric rules of a type, by
                \* attribute fingerprint or not
    Series,     \* [signal, service, fp, q, buckets]: quantiles of a derived
                \* signal, and those of its hours of the day or days of the week
    Records,    \* [type, value, env]: what tag rules are proposed from
    LtHints,    \* signals that are better high (autoRuleLTHints)
    CreateMax,  \* the most that one request creates
    MaxDeletions, MaxReadFaults \* bounds

\* A series is what its signal, service and fingerprint tell: its statement groups
\* by them (metricCandidateScope).
Quantiles == [q05 : Int, q20 : Int, q50 : Int, q80 : Int, q95 : Int]
SuggestionsAssumption ==
    /\ IsFiniteSet(Series) /\ IsFiniteSet(Records) /\ CreateMax \in Nat
    /\ \A s \in Series : s.q \in Quantiles /\ \A k \in DOMAIN s.buckets : s.buckets[k] \in Quantiles
    /\ \A s, u \in Series :
        s.signal = u.signal /\ s.service = u.service /\ s.fp = u.fp => s = u
    /\ \A f \in Forms : f.table \in {"metrics", "tags", "notifications", "charts"}

VARIABLES
    tables,     \* [metrics, tags, notifications, charts -> sets of rows]
    request,    \* [Requests -> where it is]
    rowNo,      \* rows inserted so far
    deletions, readFaults

vars == <<tables, request, rowNo, deletions, readFaults>>
Tables == {"metrics", "tags", "notifications", "charts"}
Init ==
    /\ tables = [t \in Tables |-> {}] /\ request = [r \in Requests |-> [at |-> "idle"]]
    /\ rowNo = 0 /\ deletions = 0 /\ readFaults = 0

-----------------------------------------------------------------------------
(* Metric rules.                                                              *)

\* A row is what was made, and how: its number, the request that inserted it,
\* the rows this had read, and, of a chart, its place.
Nos(rows) == {x.no : x \in rows}
Keys(rows) == {x.made.key : x \in rows}

inferAutoRuleComparator(signal) == IF signal \in LtHints THEN "lt" ELSE "gt"
\* A tenth more or less where the quantiles do not differ.  Quantiles are in
\* tenths, thresholds in hundredths.
Least(a, b) == IF a < b THEN a ELSE b
Most(a, b) == IF a > b THEN a ELSE b
\* Faulty form: what the quantiles are.
thresholdsAsRead(lt, q) ==
    IF lt THEN [warning |-> 10 * q.q20, critical |-> 10 * q.q05]
    ELSE [warning |-> 10 * q.q80, critical |-> 10 * q.q95]
autoRuleThresholds(lt, q) ==
    LET warning == IF lt THEN q.q20 ELSE q.q80
        beyond == IF lt THEN IF q.q05 > warning THEN Least(warning, q.q50) ELSE q.q05
                  ELSE IF q.q95 < warning THEN Most(warning, q.q50) ELSE q.q95
        apart == CASE warning = 0 -> IF lt THEN -10 ELSE 10
                   [] warning # 0 /\ lt -> 9 * warning
                   [] OTHER -> 11 * warning
    IN [warning |-> 10 * warning, critical |-> IF beyond = warning THEN apart ELSE 10 * beyond]
InOrder(lt, t) == IF lt THEN t.critical <= t.warning ELSE t.critical >= t.warning

\* One series per fingerprint, or all of a service's together.
SeriesKey(s, fp) == <<s.signal, s.service, IF fp THEN s.fp ELSE "">>
\* Faulty form: a rule stands for all series of its service.
existingSeriesOfService(type, rules) ==
    {<<x.made.key[1], x.made.key[2], "">> : x \in {y \in rules : y.made.type = type}}
existingSeries(type, rules) == {x.made.key : x \in {y \in rules : y.made.type = type}}
MetricRule(form, s) ==
    LET lt == inferAutoRuleComparator(s.signal) = "lt"
        t == autoRuleThresholds(lt, s.q)
    IN [key |-> SeriesKey(s, form.fp), type |-> form.type, lt |-> lt,
        warning |-> t.warning, critical |-> t.critical,
        buckets |-> IF form.type = "seasonal"
                    THEN [k \in DOMAIN s.buckets |-> autoRuleThresholds(lt, s.buckets[k])] ELSE <<>>]
buildMetricRuleCandidates(form, existing) ==
    {c \in {MetricRule(form, s) : s \in {x \in Series : (x.fp = "") = ~form.fp}} :
        c.key \notin existingSeries(form.type, existing) /\ InOrder(c.lt, c)}

-----------------------------------------------------------------------------
(* Tag rules: an environment that a service's name tells, or else the service. *)

TagRule(r) ==
    [key |-> IF r.env # "" THEN <<r.type, "contains", r.value, "env", r.env>>
             ELSE <<r.type, "eq", r.value, r.type, r.value>>]
buildAutoTagRuleCandidates(existing) ==
    {c \in {TagRule(r) : r \in {x \in Records : x.value # ""}} : c.key \notin Keys(existing)}

(* Notification rules: of each metric rule whose signal none is about.        *)

coveredSignalKeys(existing) == Keys(existing)
NotificationRule(m) ==
    LET rule == m.made
    IN [key |-> rule.key[1], of |-> m.no,
        severity |-> IF rule.critical > 0 THEN "critical" ELSE "warning",
        threshold |-> IF rule.critical > 0 THEN rule.critical
                      ELSE IF rule.warning > 0 THEN rule.warning ELSE 0]
notificationAutoCandidates(existing) ==
    {NotificationRule(m) : m \in {x \in tables.metrics : x.made.key[1] \notin coveredSignalKeys(existing)}}

(* Charts: one per metric rule, numbered where rules have one name, which says *)
(* nothing of their type.                                                      *)

buildAutoDashboardChartCandidates ==
    UNION {{[key |-> <<k, i>>] : i \in 1 .. Cardinality({x \in tables.metrics : x.made.key = k})}
           : k \in Keys(tables.metrics)}

-----------------------------------------------------------------------------
(* The forms.                                                                 *)

Candidates(form, existing) ==
    CASE form.table = "metrics" -> buildMetricRuleCandidates(form, existing)
      [] form.table = "tags" -> buildAutoTagRuleCandidates(existing)
      [] form.table = "notifications" -> notificationAutoCandidates(existing)
      [] form.table = "charts" -> buildAutoDashboardChartCandidates
Go(r, to) == request' = [request EXCEPT ![r] = to]
Capped(S) == {P \in SUBSET S : Cardinality(P) = Least(CreateMax, Cardinality(S))}

Propose(r, form) ==
    /\ request[r].at = "idle" /\ UNCHANGED <<tables, rowNo, deletions>>
    /\ \E ok \in IF readFaults < MaxReadFaults /\ form.table # "charts" THEN BOOLEAN ELSE {TRUE} :
        LET existing == IF ok THEN tables[form.table] ELSE {}
        IN /\ readFaults' = IF ok THEN readFaults ELSE readFaults + 1
           /\ \E P \in Capped(Candidates(form, existing)) :
                Go(r, [at |-> IF form.table \in {"notifications", "charts"} THEN "look" ELSE "insert",
                       table |-> form.table, todo |-> P, seen |-> Nos(existing), taken |-> {}, from |-> 0])
\* Notification rules and charts are looked up again before they are written:
\* the signals covered by now, and the titles and places that are taken.
LookAgain(r) ==
    /\ request[r].at = "look" /\ UNCHANGED <<tables, rowNo, deletions>>
    /\ LET rows == tables[request[r].table]
       IN \E ok \in IF readFaults < MaxReadFaults /\ request[r].table # "charts" THEN BOOLEAN ELSE {TRUE} :
            /\ readFaults' = IF ok THEN readFaults ELSE readFaults + 1
            /\ Go(r, [request[r] EXCEPT !.at = "insert",
                    !.seen = IF ok THEN Nos(rows) ELSE @,
                    !.taken = IF ok THEN Keys(rows) ELSE {},
                    !.from = IF rows = {} THEN 0 ELSE 1 + Max({x.position : x \in rows})])

\* In one order or another (which shows in the charts).  A candidate that is there
\* by now leaves its place empty.
Orders(S) ==
    {f \in [S -> 1 .. Cardinality(S)] : \A c, d \in S : f[c] = f[d] => c = d}
Write(r, S) ==
    \E place \in IF request[r].table = "charts" THEN Orders(S) ELSE {CHOOSE f \in Orders(S) : TRUE} :
        /\ rowNo' = rowNo + Cardinality(S)
        /\ tables' = [tables EXCEPT ![request[r].table] = @ \cup
             {[made |-> c, no |-> rowNo + place[c], batch |-> r, seen |-> request[r].seen,
               position |-> request[r].from + place[c] - 1]
              : c \in {d \in S : d.key \notin request[r].taken}}]
\* Faulty form: whatever the signal.
OneOfEachUnchecked(S) == {S}
\* Of the candidates of one signal a notification rule is made of one.
OneOfEach(S) == {P \in SUBSET S : {c.key : c \in P} = {c.key : c \in S}
                                  /\ \A c, d \in P : c.key = d.key => c = d}
\* Notification rules are inserted one by one until one fails, the others together.
Create(r) ==
    /\ request[r].at = "insert" /\ Go(r, [at |-> "done"]) /\ UNCHANGED deletions
    /\ \E P \in OneOfEach(request[r].todo) :
        \/ Write(r, P) /\ UNCHANGED readFaults
        \/ /\ readFaults < MaxReadFaults /\ readFaults' = readFaults + 1
           /\ IF request[r].table = "notifications" THEN \E Q \in SUBSET P \ {P} : Write(r, Q)
              ELSE UNCHANGED <<tables, rowNo>>
\* A preview ends here.
Preview(r) ==
    /\ request[r].at = "insert" /\ Go(r, [at |-> "done"])
    /\ UNCHANGED <<tables, rowNo, deletions, readFaults>>
Delete ==
    /\ deletions < MaxDeletions /\ deletions' = deletions + 1
    /\ \E t \in Tables : \E x \in tables[t] : tables' = [tables EXCEPT ![t] = @ \ {x}]
    /\ UNCHANGED <<request, rowNo, readFaults>>

Next ==
    \/ \E r \in Requests : \/ \E form \in Forms : Propose(r, form)
                           \/ LookAgain(r) \/ Create(r) \/ Preview(r)
    \/ Delete
Spec == Init /\ [][Next]_vars

-----------------------------------------------------------------------------
(* Properties.                                                                *)

\* Nothing is made twice: of one series and type there is one metric rule, of
\* one signal one notification rule, of one condition one tag rule and of one
\* title one chart, by however many requests - unless one of them had read
\* before the other wrote, or its read had failed (metric_candidates.go:125,
\* handlers_mutations2.go:575).  Charts do not share a place then.
MadeOnce ==
    \A t \in Tables : \A x, y \in tables[t] :
        LET same == x.made.key = y.made.key /\ (t = "metrics" => x.made.type = y.made.type)
        IN x # y /\ (same \/ (t = "charts" /\ x.position = y.position))
            => x.batch # y.batch /\ x.no \notin y.seen /\ y.no \notin x.seen

\* A rule alarms beyond its warning, never before it, whatever its series looks
\* like; the thresholds of an hour or a day do so too, but for a series that
\* does not change and is below zero there, which only the whole series is
\* screened for (metric_candidates.go:135, :196).
AlarmsBeyondWarnings ==
    \A x \in tables.metrics :
        LET rule == x.made
            Beyond(t) == IF rule.lt THEN t.critical < t.warning ELSE t.critical > t.warning
        IN /\ Beyond(rule)
           /\ \A k \in DOMAIN rule.buckets : Beyond(rule.buckets[k]) \/ rule.buckets[k].warning < 0
===============================================================================
