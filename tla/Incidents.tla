------------------------------ MODULE Incidents ------------------------------
(* The incident page: from a reference to an error, a trace or a session of  *)
(* a browser to the service and the time it is about, and from there to the  *)
(* evidence (handleViewIncident and handlers_incident.go).                   *)
(*                                                                           *)
(* Each statement of the page is a step, and rows arrive and are pruned      *)
(* between them.  Whatever cannot be read is left out without a word.  Time  *)
(* is in minutes.                                                            *)
EXTENDS Integers, Sequences, FiniteSets

CONSTANTS
    Evidence,   \* rows that may be stored: [kind, id, time, service, trace, session]
    Points,     \* metric points: [time, service, pod, namespace, pinned]
    References, \* what may be asked for: [error, trace, session, minutes, from, to, bad]
    Links,      \* work items of references: [ref, at, url]
    ScanLimit,  \* how many of the newest errors are looked through
    MaxRelated, \* incidentMaxRelatedErrors
    MaxRows     \* bound on the rows that arrive

\* A bound on what is shown.
IncidentAssumption == MaxRelated \in Nat

VARIABLES
    stored,     \* the rows in otel_logs, otel_traces and hyperdx_sessions
    came,       \* how many have arrived
    page        \* the request

vars == <<stored, came, page>>

None == "none"
NoTime == -1
NoMetrics == [mode |-> "none", source |-> "none"]
Least(S) == CHOOSE n \in S : \A k \in S : n <= k

Init == stored = {} /\ came = 0 /\ page = [at |-> "idle"]

Of(kind) == {e \in stored : e.kind = kind}
\* The n newest, whichever of those of one time.
Newest(S, n) ==
    {P \in SUBSET S : /\ Cardinality(P) = Least({n, Cardinality(S)})
                      /\ \A e \in P, d \in S \ P : e.time >= d.time}

Arrive ==
    /\ came < MaxRows
    /\ \E e \in Evidence \ stored : stored' = stored \cup {e}
    /\ came' = came + 1
    /\ UNCHANGED page

\* A prune, or a table's time to live, takes the oldest rows.
Prune ==
    /\ \E e \in stored :
        /\ \A d \in stored : e.time <= d.time
        /\ stored' = {d \in stored : d.time > e.time}
    /\ UNCHANGED <<came, page>>

-----------------------------------------------------------------------------
(* What the page is about.                                                 *)

NoReference(r) == r.error = None /\ r.trace = None /\ r.session = None

\* GET /incident: without a reference the page is empty.
Ask ==
    /\ page.at \in {"idle", "shown"}
    /\ \E r \in References :
        page' = IF NoReference(r) THEN [at |-> "idle"] ELSE [at |-> "error", ref |-> r]
    /\ UNCHANGED <<stored, came>>

\* The error is looked for among the newest.
PrimaryError ==
    /\ page.at = "error"
    /\ \E scanned \in IF page.ref.error = None THEN {{}}
                      ELSE Newest(Of("error"), ScanLimit) \cup {{}} :
        page' = [at |-> "trace", ref |-> page.ref,
                 error |-> {e \in scanned : e.id = page.ref.error}]
    /\ UNCHANGED <<stored, came>>

\* The spans of the trace: it begins with the earliest and has one of their
\* services, the first by name.
PrimaryTrace ==
    /\ page.at = "trace"
    /\ LET spans == {e \in Of("span") : e.trace = page.ref.trace /\ e.trace # None}
           root == {e \in spans : \A d \in spans : e.time <= d.time}
       IN \E found \in {{}} \cup {{[e EXCEPT !.service = d.service]} : e \in root, d \in spans} :
            page' = [at |-> "rum", ref |-> page.ref, error |-> page.error, span |-> found]
    /\ UNCHANGED <<stored, came>>

\* The session's last event.
PrimaryRum ==
    /\ page.at = "rum"
    /\ LET events == {e \in Of("rum") : e.session = page.ref.session /\ e.session # None}
       IN \E event \in Newest(events, 1) \cup {{}} :
            LET primary == IF page.error # {} THEN page.error
                           ELSE IF page.span # {} THEN page.span ELSE event
            IN page' = [at |-> "errors", ref |-> page.ref, primary |-> primary,
                        service |-> IF primary = {} THEN None
                                    ELSE (CHOOSE e \in primary : TRUE).service,
                        time |-> IF primary = {} THEN NoTime
                                 ELSE (CHOOSE e \in primary : TRUE).time,
                        errors |-> {}, truncated |-> FALSE, logs |-> 0, spans |-> 0, events |-> {},
                        metrics |-> NoMetrics, issue |-> None]
    /\ UNCHANGED <<stored, came>>

\* Unless the request gives both ends, or one that is none: half of the minutes,
\* rounded down, on either side of the event.
Expanded(p) == p.time # NoTime /\ (p.ref.from = NoTime \/ p.ref.to = NoTime) /\ ~p.ref.bad
From(p) == IF Expanded(p) THEN p.time - (p.ref.minutes \div 2) ELSE p.ref.from
To(p) == IF Expanded(p) THEN p.time + (p.ref.minutes \div 2) ELSE p.ref.to
\* timeWindowConditions: the end is not in it, and an end that is missing is open.
Inside(p, t) == (From(p) = NoTime \/ From(p) <= t) /\ (To(p) = NoTime \/ t < To(p))

-----------------------------------------------------------------------------
(* The evidence.                                                           *)

\* Faulty form: the window is not asked for once there is a trace.
RelatedByTraceOrWindow(p, kind) ==
    {e \in Of(kind) : IF p.ref.trace # None THEN e.trace = p.ref.trace
                      ELSE p.service \in {None, e.service} /\ Inside(p, e.time)}

\* Of the trace if the request names one, else of the service - and if there is
\* neither, of the window alone.
Related(p, kind) ==
    {e \in Of(kind) : /\ IF p.ref.trace # None THEN e.trace = p.ref.trace
                         ELSE p.service \in {None, e.service}
                      /\ Inside(p, e.time)}
\* One more than is shown is read, to know whether there are more.
RelatedErrors ==
    /\ page.at = "errors"
    /\ \E read \in Newest(Related(page, "error"), MaxRelated + 1) \cup {{}} :
       \E kept \in Newest(read, MaxRelated) :
        page' = [page EXCEPT !.at = "counts",
                    !.errors = {e \in kept : ~\E x \in page.primary : x.kind = "error" /\ x.id = e.id},
                    !.truncated = Cardinality(read) > MaxRelated]
    /\ UNCHANGED <<stored, came>>

\* Logs by trace or service, spans by the service even if a trace is named, and
\* the events of browsers.
CountEvidence ==
    /\ page.at = "counts"
    /\ LET spans == IF page.service = None THEN {}
                    ELSE {e \in Of("span") : e.service = page.service /\ Inside(page, e.time)}
       IN \E logs \in {0, Cardinality(Related(page, "log"))} :
          \E events \in {{}, Related(page, "rum")} :
            page' = [page EXCEPT !.at = "metrics", !.logs = logs, !.spans = Cardinality(spans),
                                 !.events = events]
    /\ UNCHANGED <<stored, came>>

\* fetchTraceMetricContext: the first of these that matches a point in the
\* window, which ends with its last instant.
Attempts(p) ==
    (IF p.service = None THEN <<>>
     ELSE <<[mode |-> "service_exact", points |-> {x \in Points : x.service = p.service}],
            [mode |-> "service_family", points |-> {x \in Points : x.family = p.service}]>>)
    \o <<[mode |-> "time_window_only", points |-> Points]>>
fetchTraceMetricContext(p) ==
    LET InWindow(i) == {x \in Attempts(p)[i].points : From(p) <= x.time /\ x.time <= To(p)}
        hits == {i \in DOMAIN Attempts(p) : InWindow(i) # {}}
        first == Least(hits)
        pinned == {x.pinned : x \in InWindow(first)}
    IN IF From(p) = NoTime \/ To(p) = NoTime \/ hits = {} THEN NoMetrics
       ELSE [mode |-> Attempts(p)[first].mode,
             source |-> IF pinned = {FALSE} THEN "raw" ELSE IF pinned = {TRUE} THEN "pinned" ELSE "mixed"]
MetricContext ==
    /\ page.at = "metrics"
    /\ page' = [page EXCEPT !.at = "links", !.metrics = fetchTraceMetricContext(page)]
    /\ UNCHANGED <<stored, came>>

\* loadWorkItemLinksForRefIDs: the newest work item with an issue of each
\* reference, and of these the first in the order error, trace, session.
Issue(ref) ==
    LET items == {l \in Links : l.ref = ref /\ l.url # ""}
    IN IF items = {} THEN None ELSE (CHOOSE l \in items : \A k \in items : k.at <= l.at).url
WorkItems ==
    /\ page.at = "links"
    /\ LET refs == SelectSeq(<<page.ref.error, page.ref.trace, page.ref.session>>,
                             LAMBDA r : r # None /\ Issue(r) # None)
       IN page' = [page EXCEPT !.at = "shown", !.issue = IF refs = <<>> THEN None ELSE Issue(refs[1])]
    /\ UNCHANGED <<stored, came>>

Next == Arrive \/ Prune \/ Ask \/ PrimaryError \/ PrimaryTrace \/ PrimaryRum
        \/ RelatedErrors \/ CountEvidence \/ MetricContext \/ WorkItems

Spec == Init /\ [][Next]_vars

-----------------------------------------------------------------------------
\* What is shown as related is: each error is in the window of the incident and
\* of its trace, or of its service where no trace was named and the incident has
\* one, and it is not the incident itself; no more are shown than the page has room
\* for, and the events of browsers are of the same trace or service.
EvidenceBelongs ==
    page.at = "shown" =>
        /\ \A e \in page.errors :
            /\ Inside(page, e.time)
            /\ page.ref.trace # None => e.trace = page.ref.trace
            /\ (page.ref.trace = None /\ page.service # None) => e.service = page.service
            /\ \A x \in page.primary : x.kind = "error" => x.id # e.id
        /\ Cardinality(page.errors) <= MaxRelated
        /\ (page.service # None /\ page.ref.trace = None) =>
            \A e \in page.events : e.service = page.service

\* What the comment in handleViewIncident says: the window is expanded around the
\* event if the caller gave none.
WindowHoldsEvent ==
    (page.at = "shown" /\ Expanded(page)) => Inside(page, page.time)
=============================================================================
