------------------------------ MODULE MCPages ------------------------------
(* Small instances of what serves pages, forms and browsers: the parts of    *)
(* Pages, and those that have recursive operators.                           *)
EXTENDS Pages, Integers, Sequences, FiniteSets, SequencesExt, TLC

VARIABLES
    \* the template engine, the trace page, the likeness of names
    task, result, arrived, detail, listed, typed

-----------------------------------------------------------------------------
(* What Render is given: every expression of two operators out of each      *)
(* level of precedence, and templates with the tags those of src/templates  *)
(* use, rendered with lists, mappings, text and nothing.                    *)
NameOf(p) == [op |-> "name", path |-> p]
None == [op |-> "none"]
x == NameOf(<<"x">>)
y == NameOf(<<"y">>)
data == NameOf(<<"data">>)

\* Expressions.

Binary(o, S) == {[op |-> o, a |-> l, b |-> r] : l \in S, r \in S}
Many(o, S) ==
    {[op |-> o, args |-> <<l, r>>] : l \in {t \in S : t.op # o}, r \in {t \in S : t.op # o}}
Over(S) ==
    UNION {Binary(o, S) : o \in {"==", "not in", "is", "+", "-", "//", "*"}}
    \cup UNION {Many(o, S) : o \in {"or", "and", "~"}}
    \cup {[op |-> "not", a |-> l] : l \in S}
    \cup {[op |-> "filter", a |-> l, f |-> "first", args |-> <<>>] : l \in S}
    \cup {[op |-> "if", a |-> l, b |-> r, c |-> e] : l \in S, r \in S, e \in {x, None}}
MCTrees == Over({x} \cup Over({x}))

\* Templates.

Written(w) == [tag |-> "text", words |-> <<[word |-> w, data |-> FALSE, escaped |-> 0]>>]
Out(e) == [tag |-> "out", e |-> e]
Operator(o) == [op |-> "op", v |-> o]
Piped(f, args) == [op |-> "filter", f |-> f, args |-> args]
Called(name, args) == [op |-> "call", name |-> name, args |-> args, kw |-> [k \in {} |-> x]]
Tag(t) == [tag |-> t]
Named(t, n) == [tag |-> t, name |-> n]
Binds(t, v, e) == [tag |-> t, var |-> v, e |-> e]
Given(e) == [tag |-> "if", e |-> e]
Param(n) == [name |-> n, default |-> None]
Is(kind) == <<data, Operator("is"), NameOf(<<kind>>)>>

MCTemplates ==
  "base" :> <<Written("<html>"),
              Named("block", "head"), Written("title"), Out(<<data>>), Tag("endblock"),
              Named("block", "body"), Tag("endblock"), Written("</html>")>>
  @@ "macros" :>
     <<[tag |-> "macro", name |-> "box", params |-> <<Param("x"), [name |-> "y", default |-> x]>>],
         Written("<div>"), Out(<<x, Operator("~"), y>>), Out(<<y, Piped("default", <<x>>)>>),
         Given(<<NameOf(<<"caller">>), Operator("is"), NameOf(<<"defined">>)>>),
           Out(<<Called("caller", <<x>>)>>), Tag("endif"), Written("</div>"), Tag("endmacro"),
       [tag |-> "macro", name |-> "twice", params |-> <<Param("x")>>],
         Out(<<Called("box", <<x>>)>>), Out(<<Called("box", <<x>>)>>), Tag("endmacro")>>
  @@ "part" :>
     <<Given(Is("string")), Out(<<data>>),
       [tag |-> "elif", e |-> Is("mapping")], Out(<<data, Piped("tojson", <<>>)>>), Tag("endif")>>
  @@ "page" :>
     <<Named("extends", "base"), [tag |-> "from", name |-> "macros", names |-> {"box", "twice"}],
       Named("block", "head"), Out(<<[op |-> "super"]>>), Written("more"), Tag("endblock"),
       Named("block", "body"),
         Binds("for", "x", <<data>>), Out(<<x, Operator("~"), data>>),
           Out(<<NameOf(<<"loop", "index">>), Operator("+"), x>>),
         Tag("else"), Written("none"), Tag("endfor"),
         [tag |-> "capture", var |-> "z"], Out(<<data, Piped("upper", <<>>)>>), Tag("endset"),
         Out(<<NameOf(<<"z">>)>>),
         Binds("set", "w", <<NameOf(<<"z">>), Operator("+"), data>>), Out(<<NameOf(<<"w">>)>>),
         Binds("with", "v", <<data, Piped("join", <<>>)>>), Out(<<NameOf(<<"v">>)>>), Tag("endwith"),
         [tag |-> "call", params |-> <<"c">>, e |-> <<Called("box", <<data>>)>>],
           Out(<<NameOf(<<"c">>), Piped("first", <<>>)>>), Tag("endcall"),
         Out(<<Called("twice", <<data>>), Operator("if"), data, Operator("else"), data>>),
         Named("include", "part"),
       Tag("endblock")>>
MCRendered == {"page", "base"}

InText(w) == [t |-> "text", v |-> <<[word |-> w, data |-> TRUE, escaped |-> 0]>>, safe |-> FALSE]
With(d) == "data" :> d
MCContexts ==
    <<With(InText("a")), With([t |-> "list", v |-> <<InText("a"), InText("b")>>]),
      With([t |-> "map", v |-> [k |-> InText("a")]]), With([t |-> "nil"]),
      With([t |-> "list", v |-> <<>>])>>

-----------------------------------------------------------------------------
(* What the other parts are given.                                         *)

\* The scan for vulnerabilities, twice, over one release and two libraries.
MCLibraries == {1, 2}
MCScanned == {"r1"}
MCLockedLib == [r \in MCScanned |-> 1]
MCScans == {"s1", "s2"}

\* Two verdicts on one version.
MCVersions == {1}
MCVerdicts == {"d1", "d2"}

\* A chart of two samples under up to three rules of different kinds; its specs
\* are built, typed and broken ones.
MCSpec == [template |-> "derived_signal_overlay", mode |-> "builder",
    source |-> "v_derived_signals_anomaly", hours |-> 6, limit |-> 1000, service |-> "",
    signal |-> "latency", override |-> "", columns |-> 12, named |-> <<>>, roles |-> <<>>,
    order |-> <<"value", "mean", "lower", "upper">>, custom |-> "fine", zoom |-> <<90, 20>>]
MCSpecs == {MCSpec, [MCSpec EXCEPT !.signal = ""],
    [MCSpec EXCEPT !.mode = "raw", !.override = "SELECT",
        !.order = <<"mean", "value", "lower", "upper">>,
        !.roles = <<<<"value", "value">>, <<"mean", "mean">>>>],
    [MCSpec EXCEPT !.mode = "raw", !.template = "anomaly_overlay", !.override = "SELECT", !.columns = 6],
    [MCSpec EXCEPT !.mode = "none"],
    [MCSpec EXCEPT !.template = "custom_echarts", !.mode = "raw", !.override = "denied keyword"]}
MCAnomalyRules ==
    {[type |-> "threshold", signal |-> "latency", cmp |-> "gt", warn |-> 1, crit |-> 2, min |-> 1],
     [type |-> "seasonal", signal |-> "latency", cmp |-> "gt", warn |-> 1, crit |-> 3, min |-> 1,
        buckets |-> <<[kind |-> "half", warn |-> 2], [kind |-> "full", warn |-> 2, crit |-> 4]>>],
     [type |-> "composite", signal |-> "latency", cmp |-> "gt", warn |-> 1, crit |-> 3, min |-> 1,
        second |-> "errors", cmp2 |-> "gt", warn2 |-> 1, crit2 |-> 2]}
Sample(s, v, st) ==
    [signal |-> s, value |-> v, mean |-> 1, lower |-> 0, upper |-> 2, count |-> 1, state |-> st]
MCSamples == {Sample("latency", 1, "warning"), Sample("latency", 3, "normal"), Sample("errors", 2, "normal")}

\* Requests at once, two of each kind, are alike, and so are two browsers.
MCSymmetry == Permutations(Importers) \cup Permutations(Browsers)

\* Requests that import or delete, over two ids and two names.
MCReportIds == {"r1", "r2"}
MCReportNames == {"", "a", "b"}
MCImports == {<<"a", "a">>, <<"b", "", "a">>}

\* Two requests on one dashboard of up to three charts.
MCBoards == {"b1"}
MCChartIds == {"c1", "c2", "c3"}

Rendering == INSTANCE Render WITH
    Trees <- MCTrees, Templates <- MCTemplates, Pages <- MCRendered, Contexts <- MCContexts
renderVars == <<task, result>>

\* A trace of up to three spans: ids that come twice, parents that are unknown,
\* themselves, or each other's.
Span(i, p, t, d) == [id |-> i, parent |-> p, ts |-> t, dur |-> d]
MCSpans == {Span(1, 0, 0, 4), Span(1, 3, 3, 1), Span(2, 1, 1, 1), Span(2, 1, 2, 0),
            Span(2, 9, 7, 2), Span(3, 2, 1, 2), Span(3, 1, 5, 0), Span(3, 3, 0, 1)}
MCSpanPages == [offset : {0, 2}, limit : {1, 2}]
MCWindows == {[from |-> 1, to |-> 2, copied |-> 1]}
MCActivity == {2, 4}
Trace == INSTANCE TraceDetail WITH
    Spans <- MCSpans, Activity <- MCActivity, Windows <- MCWindows, Pages <- MCSpanPages,
    HardCap <- 3, MaxSpans <- 3
traceVars == <<arrived, detail>>

\* An incident page over up to four rows, asked for by error, trace, session, window.
Row(k, i, t, s, tr, se) == [kind |-> k, id |-> i, time |-> t, service |-> s, trace |-> tr, session |-> se]
MCEvidence ==
    {Row("error", "e1", 3, "a", "t1", "none"), Row("error", "e2", 3, "a", "t1", "none"),
     Row("error", "e3", 6, "b", "t1", "none"), Row("error", "e4", 3, "b", "none", "none"),
     Row("span", "x1", 3, "b", "t1", "none"), Row("log", "l1", 3, "a", "none", "none"),
     Row("rum", "r1", 2, "a", "none", "u1")}
Asks(e, t, s, m, f) == [bad |-> FALSE, error |-> e, trace |-> t, session |-> s, minutes |-> m, from |-> f, to |-> -1]
MCReferences ==
    {Asks("none", "none", "none", 2, -1), Asks("e1", "none", "none", 2, -1), Asks("e1", "t1", "none", 2, -1),
     Asks("none", "t1", "u1", 2, 1), Asks("none", "none", "u1", 4, -1),
     [Asks("e1", "none", "none", 2, -1) EXCEPT !.bad = TRUE]}
MCPoints == {[time |-> 3, service |-> "a", family |-> "a", pinned |-> TRUE],
             [time |-> 4, service |-> "b-1", family |-> "b", pinned |-> FALSE]}
MCLinks == {[ref |-> "e1", at |-> 1, url |-> "u1"], [ref |-> "t1", at |-> 2, url |-> ""]}

\* Screens of one row over up to three, as lists of most kinds ask for them.
Entry(i, t, s, g) == [id |-> i, time |-> t, service |-> s, group |-> g]
MCEntries == {Entry("i1", 1, "a", "x"), Entry("i2", 2, "a", "y"), Entry("i3", 2, "b", "x")}
ScreenOf(k, d, r, v, bad) == [kind |-> k, sort |-> "time", dir |-> d, resolved |-> r, service |-> v, bad |-> bad]
MCScreens == {ScreenOf("logs", "desc", "", "a", FALSE), ScreenOf("aitraces", "desc", "", "", FALSE),
              ScreenOf("errors", "desc", "", "", FALSE), ScreenOf("groups", "desc", "0", "a", FALSE),
              ScreenOf("metrics", "desc", "", "", TRUE), ScreenOf("traces", "asc", "", "", TRUE)}
MCResolved == {"i1"}

\* Two requests, and starts with a seed, on apps and releases of one slug.
MCAppIds == {"a1", "a2"}
MCReleaseIds == {"r1", "r2"}
MCSlugs == {"s1"}
MCSeed == [id |-> "", slug |-> "s1", release |-> ""]

\* Statements that are good, cut off, not allowed, failing, and no reads.
Good == [leader |-> "select", ddl |-> FALSE, refs |-> {[db |-> "", name |-> "otel_logs"]}, aliases |-> {},
         cut |-> "", plans |-> TRUE, runs |-> TRUE]
MCStatements == {Good, [Good EXCEPT !.leader = "with", !.aliases = {"c"}, !.cut = "list"],
                 [Good EXCEPT !.refs = {[db |-> "", name |-> "sobs_apps"]}], [Good EXCEPT !.runs = FALSE],
                 [Good EXCEPT !.leader = "with", !.ddl = TRUE]}
MCAllowed == {"otel_logs"}

\* Names of up to four letters, of two.
MCLetters == {"x", "y"}
Match == INSTANCE CloseMatches WITH
    a <- listed, b <- typed, Letters <- MCLetters, MaxName <- 4
matchVars == <<listed, typed>>

\* Up to five spans of three turns of the AI, which end, fail and are blocked.
Says(role, c) == [role |-> role, form |-> "text", content |-> c, parts |-> <<>>, calls |-> <<>>]
Listed(role, form, c, calls) == [role |-> role, form |-> form, content |-> c, parts |-> <<>>, calls |-> calls]
AiSpan(i, trace, turn_, ts, ev, model, tok, in, out, act) ==
    [id |-> i, trace |-> trace, turn |-> turn_, ts |-> ts, event |-> ev, model |-> model, tokens |-> tok,
     system |-> <<"s">>, input |-> in, output |-> out, action |-> act]
MCAiSpans ==
    {AiSpan(1, "t1", "u1", 1, "turn.start", "", 0, <<Says("system", <<"s">>), Says("user", <<"q">>)>>, <<>>, ""),
     AiSpan(2, "t1", "u1", 2, "turn.error", "", 0, <<>>, <<>>, ""),
     AiSpan(3, "t1", "u1", 2, "turn.complete", "m", 3, <<>>, <<Says("assistant", <<"a">>)>>, ""),
     AiSpan(4, "t1", "u1", 2, "tool.proposed", "", 1, <<>>, <<>>, "x"),
     AiSpan(5, "t1", "u1", 3, "tool.proposed", "", 0, <<>>, <<>>, "x"),
     AiSpan(6, "t1", "u2", 2, "turn.blocked", "m", 2, <<Listed("user", "list", <<"", "q">>, <<>>)>>,
            <<Listed("assistant", "text", <<>>, <<"c">>)>>, ""),
     AiSpan(7, "t2", "u1", 1, "turn.cancelled", "", 0, <<>>, <<>>, ""),
     AiSpan(8, "", "u1", 1, "turn.cancelled", "", 0, <<>>, <<>>, "")}
AiAsk(w, t, from, to, len) == [where |-> w, rowType |-> t, window |-> [from |-> from, to |-> to, len |-> len]]
Term(w, q) == [word |-> w, quoted |-> q]
MCAiRequests ==
    {AiAsk(<<>>, "", 0, 0, 0), AiAsk(<<>>, "llm", 0, 0, 0), AiAsk(<<>>, "system", 2, 0, 1), AiAsk(<<>>, "", 2, 2, 0),
     AiAsk(<<Term("model", FALSE), Term("m", TRUE)>>, "", 0, 0, 0), AiAsk(<<Term("drop", FALSE)>>, "", 0, 0, 0)}

\* Two browsers of one app on different sites, over a cache of one session.
MCOriginOf == [b \in Browsers |-> b]
MCAppOf == [b \in Browsers |-> "app"]
MCContextsOf == {"c1", "c2"}
MCKinds == {"error"}

\* Up to four events of two sessions whose ids differ in a space, of a blank id
\* and of nobody's, from three places and from none.
RumEvent(i, s, t, at, ip, b) == [id |-> i, session |-> s, type |-> t, at |-> at, ip |-> ip, browser |-> b]
MCRumEvents ==
    {RumEvent("i1", "s1", "error", 1, 3, "b"), RumEvent("i2", "s1", "pageview", 2, 5, "b"),
     RumEvent("i3", "s1", "poor", 3, 4, ""), RumEvent("i4", "s1 ", "needs-improvement", 3, -2, "b"),
     RumEvent("i5", "s1 ", "error", 3, 9, "b"), RumEvent("i6", "", "pageview", 1, -1, ""),
     RumEvent("i7", " ", "error", 2, 1, "b")}
MCTrimmed == [s \in {"", " ", "s1", "s1 "} |-> IF s \in {"s1", "s1 "} THEN "s1" ELSE ""]
RumQuery(v, t, l, o) == [view |-> v, type |-> t, limit |-> l, offset |-> o]
MCRumQueries == {RumQuery("sessions", "", 2, 0), RumQuery("sessions", "error", 1, 1),
                 RumQuery("events", "", 2, 0), RumQuery("traffic", "", 1, 0)}
MCRanges == <<[first |-> 1, country |-> ""], [first |-> 3, country |-> "A"],
              [first |-> 5, country |-> "B"], [first |-> 9, country |-> "A"]>>

\* Two lookups while two maps are exchanged, with numbers of several digits
\* and of both signs.
Zero == <<0>>
One == <<0, 1>>
Minus == <<1, 1>>
Two == <<0, 0, 1>>
MCMaps == {<<<<<<Zero, Zero, One, One>>, <<Two>>>>, <<<<One, Zero, One, Minus>>, <<One, One, Zero, Two>>>>>>,
           <<<<<<One, Zero, Two, Zero>>, <<One, Zero, Minus, One>>>>, <<>>, <<<<Zero, Zero, One, One>>>>>>}
FrameAt(c, l, k) == [candidates |-> c, line |-> l, col |-> k]
MCFrames == {FrameAt(<<"p1", "p2">>, 1, 1), FrameAt(<<"p1", "p2">>, 2, 0),
             FrameAt(<<"p1", "p2">>, 3, 2), FrameAt(<<"p2">>, 2, 3)}
MCPaths == {"p1", "p2"}

\* Two wizards on one repository; a listing shows two issues of up to three.
MCWishes == {[kinds |-> <<"ci", "otel">>, assign |-> TRUE, realtime |-> TRUE],
             [kinds |-> <<"ci">>, assign |-> FALSE, realtime |-> FALSE]}
File(c, o) == [ci |-> c, otel |-> o]
MCRepos == {[workflows |-> <<File(TRUE, FALSE), File(FALSE, TRUE), File(TRUE, TRUE)>>,
             manifests |-> <<File(FALSE, FALSE)>>],
            [workflows |-> <<File(FALSE, FALSE), File(TRUE, TRUE)>>,
             manifests |-> <<File(FALSE, FALSE), File(FALSE, TRUE)>>]}

\* Two requests that make what was suggested of five series and two records.
Q(a, b, c, d, e) == [q05 |-> a, q20 |-> b, q50 |-> c, q80 |-> d, q95 |-> e]
Flat(v) == Q(v, v, v, v, v)
Signal(g, s, fp, q, buckets) == [signal |-> g, service |-> s, fp |-> fp, q |-> q, buckets |-> buckets]
MCSeries == {Signal("err", "s1", "", Q(0, 10, 20, 30, 40), "8" :> Flat(0) @@ "9" :> Flat(-20)),
             Signal("err", "s2", "", Flat(20), <<>>), Signal("err", "s1", "f", Flat(0), <<>>),
             Signal("avail", "s1", "", Q(10, 10, 20, 30, 40), "8" :> Q(0, 10, 10, 10, 10)),
             Signal("gauge", "s2", "", Flat(-20), <<>>)}
MCRecords == {[type |-> "log", value |-> "api", env |-> ""], [type |-> "log", value |-> "api-prod", env |-> "production"]}
MakeOf(t, k, p) == [table |-> t, type |-> k, fp |-> p]
MCMakes == {MakeOf("metrics", "threshold", FALSE), MakeOf("metrics", "seasonal", FALSE), MakeOf("metrics", "threshold", TRUE),
            MakeOf("tags", "", FALSE), MakeOf("notifications", "", FALSE), MakeOf("charts", "", FALSE)}
MCLtHints == {"avail"}

\* Rows of three types bring three keys, of which a type keeps two.
Rows(t, ks) == [type |-> t, keys |-> ks]
MCKeys == 1..3
MCRows == {Rows("log", {1, 2}), Rows("log", {2, 3}), Rows("span", {1, 3}), Rows("scope", {})}
MCTyped == {[starts |-> {3}, holds |-> {2, 3}, all |-> FALSE], [starts |-> {}, holds |-> {}, all |-> TRUE]}

\* Three requests of two operators: forms of two places that set, keep and clear.
Fields(p, e, w, d, h, c, a) ==
    [place |-> p, encrypt |-> e, password |-> w, days |-> d, hours |-> h, clear |-> c, apply |-> a]
MCFields == {Fields(1, 1, 1, 1, 0, FALSE, TRUE), Fields(2, 1, 0, 0, 2, FALSE, TRUE),
             Fields(1, 1, 0, 2, 0, TRUE, FALSE)}

-----------------------------------------------------------------------------
restVars == <<renderVars, traceVars, matchVars>>
Init ==
    /\ part \in Served \cup {"render", "trace", "match"}
    /\ AllInit
    /\ IF part = "render" THEN Rendering!Init
       ELSE /\ task = Off /\ result = Off
    /\ IF part = "trace" THEN Trace!Init
       ELSE /\ arrived = Off /\ detail = Off
    /\ IF part = "match" THEN Match!Init
       ELSE /\ listed = Off /\ typed = Off

Next ==
    \/ PagesNext /\ UNCHANGED restVars
    \/ /\ UNCHANGED pageVars
       /\ \/ part = "render" /\ Rendering!Next /\ UNCHANGED <<traceVars, matchVars>>
          \/ part = "trace" /\ Trace!Next /\ UNCHANGED <<renderVars, matchVars>>
          \/ part = "match" /\ Match!Next /\ UNCHANGED <<renderVars, traceVars>>

Spec == Init /\ [][Next]_<<pageVars, restVars>>

-----------------------------------------------------------------------------
\* An expression is read as it was written, and data reach a page escaped (evalExpr,
\* renderNodes); for an unknown name those that are like it are proposed
\* (getCloseMatches).
TextIsRead ==
    /\ part = "render" => Rendering!ReadAsWritten /\ Rendering!DataIsEscaped
    /\ part = "match" => Match!SuggestsTheLike
\* A trace's tree holds each span, and its segments cover the spans' time once
\* (buildSpanTree, buildTraceTimelineSegments).
TraceIsWhole == part = "trace" => Trace!TreeHoldsEachSpan /\ Trace!SegmentsTile
\* What the comment of handleErrorSub promises, of the errors' pages.
OneClickResolves == part = "view" => View!OneClickResolves
=============================================================================
