----------------------------- MODULE TraceDetail -----------------------------
(* The page of one trace: its spans as a tree in pages, and its time line of *)
(* active stretches and gaps (handlers_pages_traces_detail.go).              *)
(*                                                                           *)
(* The page is put together from statements that follow one another while    *)
(* spans go on arriving.  Times are small integers; a percentage of the time *)
(* line is the instant it stands for.                                        *)
EXTENDS Integers, Sequences, FiniteSets, SequencesExt

CONSTANTS
    Spans,      \* spans of the trace that may arrive: [id, parent, ts, dur]
    Activity,   \* instants of errors and logs of the trace
    Windows,    \* preserved raw windows: [from, to, copied]
    Pages,      \* pages a browser asks for: [offset, limit]
    HardCap,    \* traceDetailHardCap
    MaxSpans    \* bound on the spans that arrive

VARIABLES
    arrived,    \* the trace's rows in otel_traces
    detail      \* the request: where it is and what it has read

vars == <<arrived, detail>>

NoParent == 0
Idle == [at |-> "idle"]
Least(S) == CHOOSE n \in S : \A k \in S : n <= k
Greatest(S) == CHOOSE n \in S : \A k \in S : n >= k

Init == arrived = <<>> /\ detail = Idle

-----------------------------------------------------------------------------
(* The tree.                                                               *)

Ids(spans) == {spans[i].id : i \in DOMAIN spans}
HasParent(spans, i) == spans[i].parent # NoParent /\ spans[i].parent \in Ids(spans)

\* In order of their time, and of arrival in the statement where it is equal.
Sorted(spans, indices) ==
    SortSeq(SetToSortSeq(indices, LAMBDA i, j : i < j),
            LAMBDA i, j : spans[i].ts < spans[j].ts \/ (spans[i].ts = spans[j].ts /\ i < j))
Roots(spans) == Sorted(spans, {i \in DOMAIN spans : ~HasParent(spans, i)})
Children(spans, id) ==
    Sorted(spans, {i \in DOMAIN spans : HasParent(spans, i) /\ spans[i].parent = id})

\* Rows below a row, by the id: rows that share one share their children.
Below(spans, ids) ==
    ids \cup {spans[i].id : i \in {k \in DOMAIN spans : HasParent(spans, k) /\ spans[k].parent \in ids}}
RECURSIVE Descendants(_, _)
Descendants(spans, ids) ==
    IF Below(spans, ids) = ids THEN ids ELSE Descendants(spans, Below(spans, ids))
Kids(spans, id) == {spans[i].id : i \in Range(Children(spans, id))}
\* The walk comes round to where it was, and does not end.
WalkEnds(spans) ==
    \A id \in Descendants(spans, {spans[i].id : i \in Range(Roots(spans))}) :
        id \notin Descendants(spans, Kids(spans, id))

\* Children under their parent, depth first.
RECURSIVE Walk(_, _, _)
Walk(spans, nodes, depth) ==
    FlattenSeq([k \in DOMAIN nodes |->
        <<[span |-> nodes[k], id |-> spans[nodes[k]].id, parent |-> spans[nodes[k]].parent,
           depth |-> depth]>> \o Walk(spans, Children(spans, spans[nodes[k]].id), depth + 1)])
\* Faulty form: a span whose parent is missing is no root.
BuildFromRoots(spans) ==
    LET roots == {i \in DOMAIN spans : spans[i].parent = NoParent}
    IN Walk(spans, Sorted(spans, roots), 0)
buildSpanTree(spans) == Walk(spans, Roots(spans), 0)

\* The rows of the page and, above them, their ancestors - up to one that is in
\* already.
RECURSIVE WithAncestors(_, _)
WithAncestors(tree, ids) ==
    LET above == {tree[i].parent : i \in {k \in DOMAIN tree : tree[k].id \in ids}}
        known == {tree[i].id : i \in DOMAIN tree}
    IN IF above \cap known \subseteq ids THEN ids ELSE WithAncestors(tree, ids \cup (above \cap known))
sliceSpanTreeWithAncestors(tree, offset, limit) ==
    LET end == Least({offset + limit, Len(tree)})
        page == {tree[i].id : i \in (offset + 1)..end}
        included == WithAncestors(tree, page)
    IN [rows |-> SelectSeq(tree, LAMBDA r : r.id \in included), end |-> end]

-----------------------------------------------------------------------------
(* The time line.                                                          *)

Start(spans) == Least({spans[i].ts : i \in DOMAIN spans})
End(spans) == Greatest({spans[i].ts + spans[i].dur : i \in DOMAIN spans})

\* Faulty form: an interval ends the one it lies in.
mergeToTheLastEnd(spans) ==
    LET add(iv, merged) ==
            IF merged = <<>> \/ iv[1] > Last(merged)[2] THEN Append(merged, iv)
            ELSE [merged EXCEPT ![Len(merged)][2] = iv[2]]
    IN FoldLeft(LAMBDA merged, i : add(<<spans[i].ts, spans[i].ts + spans[i].dur>>, merged),
                <<>>, Sorted(spans, DOMAIN spans))
\* Intervals that touch are one.
mergeSpanIntervals(spans) ==
    LET add(iv, merged) ==
            IF merged = <<>> \/ iv[1] > Last(merged)[2] THEN Append(merged, iv)
            ELSE [merged EXCEPT ![Len(merged)][2] = Greatest({@, iv[2]})]
        ordered == Sorted(spans, DOMAIN spans)
    IN FoldLeft(LAMBDA merged, i : add(<<spans[i].ts, spans[i].ts + spans[i].dur>>, merged),
                <<>>, ordered)

computeActiveTimelineMs(spans) ==
    FoldLeft(LAMBDA sum, iv : sum + iv[2] - iv[1], 0, mergeSpanIntervals(spans))

\* A gap is potential if something happened in it or at one of its ends.
buildTraceTimelineSegments(spans, activity) ==
    LET gap(from, to) ==
            IF to > from THEN <<[kind |-> "gap", from |-> from, to |-> to,
                                 potential |-> \E t \in activity : from <= t /\ t <= to]>> ELSE <<>>
        active(from, to) ==
            IF to > from THEN <<[kind |-> "active", from |-> from, to |-> to, potential |-> FALSE]>>
            ELSE <<>>
        merged == mergeSpanIntervals(spans)
        Before(k) == IF k = 1 THEN Start(spans) ELSE merged[k - 1][2]
    IN FlattenSeq([k \in DOMAIN merged |->
           gap(Before(k), merged[k][1]) \o active(merged[k][1], merged[k][2])])

\* The part of each window that lies in the trace.
buildTraceWindowOverlaySegments(spans, windows) ==
    LET Inside(w) == [from |-> Greatest({w.from, Start(spans)}), to |-> Least({w.to, End(spans)}),
                      copied |-> w.copied]
    IN {Inside(w) : w \in {v \in windows : Inside(v).from < Inside(v).to}}

-----------------------------------------------------------------------------
(* buildTraceDetail.                                                       *)

ArriveSpan ==
    /\ Len(arrived) < MaxSpans
    /\ \E s \in Spans : arrived' = Append(arrived, s)
    /\ UNCHANGED detail

\* The number of spans is the limit of the next statement; if it cannot be read
\* there are none, and no detail.
CountSpans ==
    /\ detail.at \in {"idle", "shown"}
    /\ \E page \in Pages, total \in {0, Len(arrived)} :
        detail' = [at |-> "fetch", page |-> page, total |-> total]
    /\ UNCHANGED arrived

\* The earliest spans, as many as were counted and at most the cap.
FetchSpans ==
    /\ detail.at = "fetch"
    /\ LET ordered == SortSeq(arrived, LAMBDA s, t : s.ts < t.ts \/ (s.ts = t.ts /\ s.id < t.id))
           spans == SubSeq(ordered, 1, Least({detail.total, HardCap, Len(ordered)}))
       IN detail' = IF spans = <<>> THEN [at |-> "shown", spans |-> <<>>]
                    ELSE [at |-> "evidence", page |-> detail.page, total |-> detail.total,
                          spans |-> spans]
    /\ UNCHANGED arrived

\* The errors, of which there are at most 50, and the instants of the logs; what
\* cannot be read is left out.
ReadActivity ==
    /\ detail.at = "evidence"
    /\ \E activity \in SUBSET Activity : \E windows \in SUBSET Windows :
        detail' = [at |-> "draw", page |-> detail.page, total |-> detail.total,
                   spans |-> detail.spans, activity |-> activity, windows |-> windows]
    /\ UNCHANGED arrived

\* An offset past the end is that of the last page.  A walk that does not end
\* leaves the request where it is.
Draw ==
    /\ detail.at = "draw" /\ WalkEnds(detail.spans)
    /\ LET tree == buildSpanTree(detail.spans)
           limit == detail.page.limit
           offset == IF detail.page.offset >= Len(tree) /\ tree # <<>>
                     THEN ((Len(tree) - 1) \div limit) * limit ELSE detail.page.offset
       IN detail' = [at |-> "shown", spans |-> detail.spans, tree |-> tree, offset |-> offset,
                     limit |-> limit, slice |-> sliceSpanTreeWithAncestors(tree, offset, limit),
                     activity |-> detail.activity, active |-> computeActiveTimelineMs(detail.spans),
                     segments |-> buildTraceTimelineSegments(detail.spans, detail.activity),
                     overlays |-> buildTraceWindowOverlaySegments(detail.spans, detail.windows)]
    /\ UNCHANGED arrived

Next == ArriveSpan \/ CountSpans \/ FetchSpans \/ ReadActivity \/ Draw

Spec == Init /\ [][Next]_vars

-----------------------------------------------------------------------------
Shown == detail.at = "shown" /\ detail.spans # <<>>
Distinct(spans) == Cardinality(Ids(spans)) = Len(spans)
Acyclic(spans) == \A id \in Ids(spans) : id \notin Descendants(spans, Kids(spans, id))

\* The tree holds each span once, below its parent if that is there, whatever
\* the order in which they arrived and whichever parents are missing - as long
\* as no id came twice and no span is its own ancestor; and the page shows its
\* rows and all their ancestors that are there, each above what hangs on it.
TreeHoldsEachSpan ==
    (Shown /\ Distinct(detail.spans) /\ Acyclic(detail.spans)) =>
        LET tree == detail.tree
            rows == detail.slice.rows
            Place(r) == CHOOSE i \in DOMAIN rows : rows[i] = r
        IN /\ Len(tree) = Len(detail.spans)
           /\ {tree[i].span : i \in DOMAIN tree} = DOMAIN detail.spans
           /\ \A i \in (detail.offset + 1)..detail.slice.end :
                tree[i] \in Range(rows)
           /\ \A i \in DOMAIN rows : HasParent(detail.spans, rows[i].span) =>
                \E k \in 1..(i - 1) : rows[k].id = rows[i].parent /\ rows[k].depth = rows[i].depth - 1

\* The time line leaves nothing out and counts nothing twice: its segments join
\* one to the next from the first instant of the trace to the last, the active
\* ones add up to the active time, and every error and log of that stretch is in
\* one that is active or flagged.
SegmentsTile ==
    Shown =>
        LET seg == detail.segments
            from == Start(detail.spans)
            to == End(detail.spans)
        IN /\ from < to => /\ seg # <<>> /\ seg[1].from = from /\ Last(seg).to = to
           /\ \A k \in 1..(Len(seg) - 1) : seg[k].to = seg[k + 1].from
           /\ detail.active = FoldLeft(LAMBDA n, g : n + IF g.kind = "active" THEN g.to - g.from ELSE 0, 0, seg)
           /\ \A t \in detail.activity : (from < to /\ from <= t /\ t <= to) =>
                \E k \in DOMAIN seg : /\ seg[k].from <= t /\ t <= seg[k].to
                                      /\ seg[k].kind = "active" \/ seg[k].potential
=============================================================================
