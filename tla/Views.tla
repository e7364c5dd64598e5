-------------------------------- MODULE Views --------------------------------
(* The pages that list what is stored, one screenful at a time: /logs,       *)
(* /traces, /errors (as single errors or in groups), /metrics and /ai (as    *)
(* calls or by trace), of handlers_pages.go.                                 *)
(*                                                                           *)
(* A browser walks through the screens of one of them while rows arrive and  *)
(* are pruned, and it resolves errors.  Each page counts, reads its screen   *)
(* and completes it in statements of their own.  None of their orders breaks *)
(* ties, so that rows of one time come in any order, anew in each statement. *)
EXTENDS Integers, Sequences, FiniteSets, FiniteSetsExt

CONSTANTS
    Entries,    \* what may be stored: [id, time, service, group]
    Requests,   \* first screens that are asked for: [kind, sort, dir, resolved,
                \* service, bad]
    PageLimit,  \* limit
    MinProbe,   \* 2000 and
    MaxProbe,   \* 10000: how many of the newest errors are grouped
    ResolvedBefore, \* the errors with a row in sobs_error_resolutions
    MaxEntries, \* bound on the rows that arrive
    MaxViewFaults \* bound on failing statements

\* Ids are of one row each; a filter that says nothing is "".
ViewsAssumption ==
    /\ IsFiniteSet(Entries) /\ \A e \in Entries : e.time \in Int
    /\ \A d, e \in Entries : d.id = e.id => d = e
    /\ Requests \subseteq [kind : STRING, sort : STRING, dir : STRING, resolved : {"", "0", "1"},
                           service : STRING, bad : BOOLEAN]
    /\ PageLimit \in Nat \ {0} /\ MinProbe \in Nat \ {0} /\ MaxProbe \in Nat \ {0}

VARIABLES
    stored,     \* the rows
    came,       \* how many have arrived
    resolutions,\* sobs_error_resolutions
    answered,   \* history: the errors whose resolution was answered with ok
    view,       \* the page: what was asked for, where it is, what it has read
    walk,       \* history: what the walk over the screens has shown and met
    viewFaults

env == <<stored, came, resolutions, answered>>
vars == <<env, view, walk, viewFaults>>

\* The kinds are logs, traces, errors, groups, metrics, ai and aitraces.
\* These list groups of rows, and these say what went wrong.
Grouping == {"groups", "metrics", "aitraces"}
Outspoken == {"logs", "metrics", "ai", "aitraces"}
Errors == {"errors", "groups"}

Init ==
    /\ stored = {} /\ came = 0 /\ resolutions = ResolvedBefore /\ answered = {}
    /\ view = [at |-> "idle"]
    /\ walk = [began |-> {}, seen |-> {}, moved |-> {}, broken |-> FALSE]
    /\ viewFaults = 0

-----------------------------------------------------------------------------
(* The statements.                                                         *)

\* The WHERE of the page; that of the errors asks for the resolution.
WhereIgnoresResolution(v, e) == v.service \in {"", e.service}
Where(v, e) ==
    /\ v.service \in {"", e.service}
    /\ v.kind \in Errors =>
        CASE v.resolved = "0" -> e.id \notin resolutions
          [] v.resolved = "1" -> e.id \in resolutions
          [] OTHER -> TRUE
Matching(v) == {e \in stored : Where(v, e)}

probeLimit == Max({MinProbe, Min({MaxProbe, PageLimit * 100})})
Newest(S, n) ==
    {P \in SUBSET S : /\ Cardinality(P) = Min({n, Cardinality(S)})
                      /\ \A e \in P, d \in S \ P : e.time >= d.time}

\* How the page names what it lists.
Key(v, e) == IF v.kind \in Grouping THEN e.group ELSE e.id
One(e) == [key |-> e.id, time |-> e.time, service |-> e.service, ids |-> {e.id}]
LastOf(S) == CHOOSE e \in S : \A d \in S : e.time >= d.time
Group(g, S) ==
    LET last == LastOf({e \in S : e.group = g})
    IN [key |-> g, time |-> last.time, service |-> last.service, ids |-> {last.id}]
\* What the page lists; grouped errors are those of the newest rows.
Listing(v) ==
    IF v.kind \notin Grouping THEN {{One(e) : e \in Matching(v)}}
    ELSE LET rows == IF v.kind = "groups" THEN Newest(Matching(v), probeLimit) ELSE {Matching(v)}
         IN {{Group(g, S) : g \in {e.group : e \in S}} : S \in rows}

\* The AI page's traces are ordered by their last span whatever was asked for.
SortsByTime(v) == v.sort = "time" \/ v.kind = "aitraces"
InOrder(v, s) ==
    ~SortsByTime(v) \/ \A i \in 1..(Len(s) - 1) :
        IF v.dir = "desc" THEN s[i].time >= s[i + 1].time ELSE s[i].time <= s[i + 1].time
Orders(v, items) == {s \in Bijection(1 .. Cardinality(items), items) : InOrder(v, s)}
\* Faulty form: the screen begins one row after the offset.
ScreenAfterOffset(v, s) ==
    SubSeq(s, v.offset + IF v.offset = 0 THEN 1 ELSE 2, Min({v.offset + PageLimit, Len(s)}))
Screen(v, s) == SubSeq(s, v.offset + 1, Min({v.offset + PageLimit, Len(s)}))
ReadScreen(v) == UNION {{Screen(v, s) : s \in Orders(v, items)} : items \in Listing(v)}

Fails == viewFaults < MaxViewFaults /\ viewFaults' = viewFaults + 1
Works == UNCHANGED viewFaults
Shown(v, msg, rows) ==
    [v EXCEPT !.at = "shown", !.msg = msg, !.rows = rows,
              !.total = IF v.kind = "metrics" THEN @ ELSE 0]

-----------------------------------------------------------------------------
(* The handlers.                                                           *)

\* The first screen.  A time window or a pattern that cannot be read ends the
\* page on /logs, /metrics and /ai; /traces and /errors go on without it.  The
\* page of all errors reads first which are resolved.
Ask ==
    /\ view.at = "idle"
    /\ \E r \in Requests :
        LET asked == [kind |-> r.kind, sort |-> r.sort, dir |-> r.dir, resolved |-> r.resolved,
                      service |-> r.service, bad |-> r.bad, at |-> "count", offset |-> 0,
                      msg |-> IF r.bad THEN "filter" ELSE "", rows |-> <<>>, total |-> 0, known |-> {}]
        IN /\ view' = IF r.bad /\ r.kind \in Outspoken THEN [asked EXCEPT !.at = "shown"]
                      ELSE [asked EXCEPT !.known = IF r.resolved = "" THEN resolutions ELSE {}]
           /\ walk' = [began |-> UNION Listing(asked), seen |-> {}, moved |-> {}, broken |-> r.bad]
    /\ UNCHANGED <<env, viewFaults>>

\* The next, while there may be one.
AskNext ==
    /\ view.at = "shown" /\ view.msg \in {"", "filter"} /\ Len(view.rows) = PageLimit
    /\ view' = [view EXCEPT !.at = "count", !.offset = @ + PageLimit, !.rows = <<>>,
                    !.known = IF view.resolved = "" THEN resolutions ELSE {}]
    /\ UNCHANGED <<env, walk, viewFaults>>

\* COUNT(*), or of all rows the sum over the parts, which does not fail.
Count ==
    /\ view.at = "count"
    /\ \/ /\ \E items \in Listing(view) :
               view' = [view EXCEPT !.at = "rows", !.total = Cardinality(items)]
          /\ Works
       \/ /\ ~(view.kind \in {"logs", "traces"} /\ view.service = "")
          /\ view' = IF view.kind \in Outspoken THEN Shown(view, "query", <<>>)
                     ELSE [view EXCEPT !.at = "rows"]
          /\ Fails
    /\ walk' = [walk EXCEPT !.broken = @ \/ viewFaults' # viewFaults]
    /\ UNCHANGED env

\* The screen.  The pages of errors and traces show nothing when it fails.
ReadRows ==
    /\ view.at = "rows"
    /\ \/ \E rows \in ReadScreen(view) : view' = [view EXCEPT !.at = "details", !.rows = rows] /\ Works
       \/ /\ view' = IF view.kind \in Outspoken THEN Shown(view, "query", <<>>)
                     ELSE [view EXCEPT !.at = "details"]
          /\ Fails
    /\ walk' = [walk EXCEPT !.broken = @ \/ viewFaults' # viewFaults]
    /\ UNCHANGED env

\* Statistics and tags of logs, the spans of the AI page's traces, the details of
\* errors and the traces of groups: what is no longer there is shown without
\* them, but a trace of the AI page without spans is left out, and the AI and
\* log pages take what they showed back when the statement fails.
ReadDetails ==
    /\ view.at = "details"
    /\ LET There(item) == \E e \in stored : e.group = item.key
           rows == IF view.kind = "aitraces" THEN SelectSeq(view.rows, There) ELSE view.rows
       IN \/ view' = [view EXCEPT !.at = "shown", !.rows = rows] /\ Works
          \/ /\ view.kind \in {"logs", "aitraces"}
             /\ view' = Shown(view, "query", <<>>)
             /\ Fails
    /\ walk' = [walk EXCEPT !.seen = @ \cup Range(view'.rows),
                            !.broken = @ \/ viewFaults' # viewFaults \/ view'.rows # view.rows]
    /\ UNCHANGED env

\* How the page marks an error: by the filter, or by what was resolved when the
\* request began.
Marked(v, item) ==
    CASE v.resolved = "0" -> FALSE
      [] v.resolved = "1" -> TRUE
      [] OTHER -> item.ids \subseteq v.known

-----------------------------------------------------------------------------
(* What happens meanwhile.                                                 *)

Moved(changed) == walk' = [walk EXCEPT !.moved = @ \cup changed]

Arrive ==
    /\ came < MaxEntries
    /\ \E e \in Entries \ stored :
        /\ stored' = stored \cup {e}
        /\ Moved({e.group, e.id})
    /\ came' = came + 1
    /\ UNCHANGED <<resolutions, answered, view, viewFaults>>

\* The oldest rows go.
Prune ==
    /\ \E e \in stored :
        /\ \A d \in stored : e.time <= d.time
        /\ stored' = {d \in stored : d.time > e.time}
        /\ Moved({d.id : d \in stored \ stored'} \cup {d.group : d \in stored \ stored'})
    /\ UNCHANGED <<came, resolutions, answered, view, viewFaults>>

\* POST /errors/<id>/resolve is answered with ok and writes nothing.
handleErrorSub ==
    /\ \E e \in stored :
        /\ e.id \notin answered
        /\ answered' = answered \cup {e.id}
    /\ UNCHANGED <<stored, came, resolutions, view, walk, viewFaults>>

Next == Ask \/ AskNext \/ Count \/ ReadRows \/ ReadDetails \/ Arrive \/ Prune \/ handleErrorSub

Spec == Init /\ [][Next]_vars

-----------------------------------------------------------------------------
Ended == view.at = "shown" /\ view.msg = "" /\ Len(view.rows) < PageLimit

\* A walk from the newest to the oldest misses nothing, while rows arrive at any
\* place and old ones go: whatever was listed when it began, has not changed and
\* shares its time with no other row has been on a screen when the walk ends -
\* unless a statement failed on the way.
WalkMissesNothing ==
    (Ended /\ ~walk.broken /\ view.dir = "desc" /\ SortsByTime(view)) =>
        \A item \in walk.began :
            \/ \E s \in walk.seen : s.key = item.key
            \/ item.key \in walk.moved
            \/ \A s \in UNION Listing(view) : s.key # item.key
            \/ \E e \in Entries : e.time = item.time /\ Key(view, e) # item.key

\* An error that is resolved is never shown as open, whether the page filters by
\* it, reads the details afterwards or marks the rows itself.
ResolvedStaysResolved ==
    (view.at = "shown" /\ view.kind \in Errors) =>
        \A i \in DOMAIN view.rows :
            view.rows[i].ids \subseteq resolutions => Marked(view, view.rows[i])

\* What the comment of handleErrorSub and the README promise: the error is
\* resolved once the request is answered.  No code writes a row.
OneClickResolves == answered \subseteq resolutions
=============================================================================
