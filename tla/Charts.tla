-------------------------------- MODULE Charts --------------------------------
(***************************************************************************)
(* Charts: a spec is normalised and compiled to one SELECT (chart_spec.go, *)
(* chart_builder_sql.go), its rows are judged by the anomaly rules         *)
(* (chart_anomaly_engine.go) and put into the template of the chart        *)
(* (chart_render_binding.go).  A request reads the rows and the rules one  *)
(* after the other while samples arrive and rules are saved.               *)
(*                                                                         *)
(* A time stamp is the position of a sample; its hour is its parity.       *)
(***************************************************************************)
EXTENDS Integers, Sequences, FiniteSets, SequencesExt

CONSTANTS
    Specs,       \* chart specs a browser may send
    AnomalyRules,\* anomaly rules that may be saved
    Samples,     \* samples that may arrive
    MaxSamples   \* bound on the samples

ChartsAssumption ==
    /\ \A s \in Samples : s.state \in {"normal", "warning", "outlier"}
    /\ \A r \in AnomalyRules : r.type \in {"seasonal", "composite", "threshold"}

VARIABLES
    series,      \* v_derived_signals_anomaly, oldest first
    anomalyRules,\* sobs_anomaly_rules FINAL
    chart        \* the request: where it is, its query, its rows, its answer

vars == <<series, anomalyRules, chart>>

Templates == {"derived_signal_overlay", "anomaly_overlay", "dual_axis_anomaly",
              "time_series_percentiles", "heatmap", "box_plot", "gauge_kpi",
              "custom_echarts"}
SourceViews == {"v_derived_signals_anomaly", "v_otel_metrics_anomaly", "otel_logs",
                "otel_traces", "sobs_error_resolutions"}
chartTemplateMeta == \* the fewest and the most columns of a template
    [derived_signal_overlay |-> <<12, 16>>, anomaly_overlay |-> <<6, 6>>,
     dual_axis_anomaly |-> <<3, 3>>, time_series_percentiles |-> <<4, 4>>,
     heatmap |-> <<3, 3>>, box_plot |-> <<6, 6>>, gauge_kpi |-> <<1, 1>>]
anomalySeverityRank == [normal |-> 0, warning |-> 1, outlier |-> 2]
typeRank == [seasonal |-> 3, composite |-> 2, threshold |-> 1]
Failed == [kind |-> "error"]
NoData == [kind |-> "placeholder"]
Clamp(n, lo, hi) == IF n < lo THEN lo ELSE IF n > hi THEN hi ELSE n
Worst(S) == CHOOSE s \in S : \A t \in S : anomalySeverityRank[s] >= anomalySeverityRank[t]

Init ==
    /\ series = <<>>
    /\ anomalyRules = {}
    /\ chart = [at |-> "idle"]

-----------------------------------------------------------------------------
(* From spec to query.                                                     *)

\* The defaults of the template under what was sent; named queries without a
\* name or a text are dropped without a word.
normalizeChartSpec(sp) ==
    IF sp.template \notin Templates \/ sp.mode \notin {"builder", "raw"} THEN Failed
    ELSE [sp EXCEPT !.named = SelectSeq(@, LAMBDA q : q.name # "" /\ q.text # ""),
                    !.roles = SelectSeq(@, LAMBDA r : r[1] # "" /\ r[2] # "")]

validateChartQuery(q) == q \notin {"", "INSERT", "denied keyword"}

\* The SELECT over one source: the window, the filters the source knows.
buildSeriesSQL(sp) ==
    [from |-> sp.source, hours |-> Clamp(sp.hours, 1, 168), limit |-> Clamp(sp.limit, 1, 2000),
     service |-> IF sp.source = "sobs_error_resolutions" THEN "" ELSE sp.service,
     signal |-> IF sp.source = "v_derived_signals_anomaly" THEN sp.signal ELSE ""]
\* and around it the columns of the template.
compileBuilderSQL(sp) ==
    IF sp.source \notin SourceViews \/ sp.template = "custom_echarts" THEN Failed
    ELSE [kind |-> "built", body |-> buildSeriesSQL(sp), columns |-> chartTemplateMeta[sp.template][1]]

compileChartSpec(sp) ==
    LET spec == normalizeChartSpec(sp)
        query == IF spec = Failed THEN Failed
                 ELSE IF spec.mode = "builder" THEN compileBuilderSQL(spec)
                 ELSE IF validateChartQuery(spec.override)
                      THEN [kind |-> "raw", body |-> [signal |-> spec.signal], columns |-> spec.columns]
                 ELSE Failed
    IN IF query = Failed THEN Failed
       ELSE IF \E i \in DOMAIN spec.named : ~validateChartQuery(spec.named[i].text) THEN Failed
       ELSE [spec |-> spec, query |-> query]

\* A stored chart is normalised again; a spec that is none becomes a raw one of
\* the stored query.
buildRawChartSpec(template, query, sp) ==
    IF normalizeChartSpec(sp) # Failed THEN normalizeChartSpec(sp)
    ELSE [sp EXCEPT !.template = template, !.mode = "raw", !.override = query, !.named = <<>>]

-----------------------------------------------------------------------------
(* The anomaly rules.                                                      *)

ruleMatchesSeries(rule, row) == rule.signal = row.signal

evaluateThresholdCondition(cmp, warn, crit, row, min) ==
    IF row.count < min THEN "normal"
    ELSE IF (cmp = "gt" /\ row.value >= crit) \/ (cmp = "lt" /\ row.value <= crit) THEN "outlier"
    ELSE IF (cmp = "gt" /\ row.value >= warn) \/ (cmp = "lt" /\ row.value <= warn) THEN "warning"
    ELSE "normal"

evaluateThresholdRule(rule, row) ==
    evaluateThresholdCondition(rule.cmp, rule.warn, rule.crit, row, rule.min)

\* The bucket of the hour replaces the thresholds; one whose critical value is
\* malformed replaces the warning only.
evaluateSeasonalRule(rule, row) ==
    LET b == rule.buckets[1 + (row.at % 2)]
        warn == IF b.kind \in {"full", "half"} THEN b.warn ELSE rule.warn
        crit == IF b.kind = "full" THEN b.crit ELSE rule.crit
    IN evaluateThresholdCondition(rule.cmp, warn, crit, row, rule.min)

Of(signal, rows) == SelectSeq(rows, LAMBDA r : r.signal = signal)
\* The row of the other series: of the same time, else the last, among the rows
\* of the chart, and if there is none the same again in the table.
lookupSecondaryRuleRow(signal, at, rows) ==
    LET same == SelectSeq(Of(signal, rows), LAMBDA r : r.at = at)
    IN IF same # <<>> THEN <<Last(same)>>
       ELSE IF Of(signal, rows) # <<>> THEN <<Last(Of(signal, rows))>> ELSE <<>>
evaluateCompositeRule(rule, row, rows) ==
    LET primary == evaluateThresholdRule(rule, row)
        here == lookupSecondaryRuleRow(rule.second, row.at, rows)
        second == IF here # <<>> THEN here ELSE lookupSecondaryRuleRow(rule.second, row.at, series)
    IN IF primary = "normal" \/ second = <<>> THEN "normal"
       ELSE LET other == evaluateThresholdCondition(rule.cmp2, rule.warn2, rule.crit2, second[1], rule.min)
            IN IF other = "normal" THEN "normal" ELSE Worst({primary, other})

EvaluateRule(rule, row, rows) ==
    CASE rule.type = "composite" -> evaluateCompositeRule(rule, row, rows)
      [] rule.type = "seasonal" -> evaluateSeasonalRule(rule, row)
      [] OTHER -> evaluateThresholdRule(rule, row)

Firing(row, rows, known) ==
    {r \in known : ruleMatchesSeries(r, row) /\ EvaluateRule(r, row, rows) # "normal"}

\* The kind of the rule before its severity.
annotateRowsWithRulesByType(rows, known) ==
    [i \in DOMAIN rows |->
        LET row == rows[i]
            firing == Firing(row, rows, known)
            best == CHOOSE r \in firing : \A q \in firing : typeRank[r.type] >= typeRank[q.type]
            verdict == IF firing = {} THEN "normal" ELSE EvaluateRule(best, row, rows)
        IN [row EXCEPT !.rule = verdict, !.effective = Worst({row.state, verdict})]]

\* Of the rules that fire the most severe, then by kind, then by name, gives its
\* verdict; the effective state is the worse of it and the stored state.
annotateRowsWithRules(rows, known) ==
    [i \in DOMAIN rows |->
        LET row == rows[i]
            firing == Firing(row, rows, known)
            Severity(r) == anomalySeverityRank[EvaluateRule(r, row, rows)]
            Above(r, q) == \/ Severity(r) > Severity(q)
                           \/ Severity(r) = Severity(q) /\ typeRank[r.type] >= typeRank[q.type]
            best == CHOOSE r \in firing : \A q \in firing : Above(r, q)
            verdict == IF firing = {} THEN "normal" ELSE EvaluateRule(best, row, rows)
        IN [row EXCEPT !.rule = verdict, !.effective = Worst({row.state, verdict})]]

-----------------------------------------------------------------------------
(* From rows to the chart.                                                 *)

\* The place of each role's column: the template's, or that of the column the role
\* map names.
Roles == <<"value", "mean", "lower", "upper">>
resolveTemplateRoleIndices(sp) ==
    LET Named(role) == {i \in DOMAIN sp.roles : sp.roles[i][1] = role}
        Place(column) == CHOOSE i \in DOMAIN sp.order : sp.order[i] = column
    IN IF \E i \in DOMAIN sp.roles :
              sp.roles[i][1] \notin Range(Roles) \/ sp.roles[i][2] \notin Range(sp.order)
       THEN Failed
       ELSE [k \in DOMAIN Roles |->
                IF Named(Roles[k]) = {} THEN k ELSE Place(sp.roles[Max(Named(Roles[k]))][2])]

\* A row whose roles are read from the columns at these places.
ByRole(row, columns, places) ==
    [f \in DOMAIN row |->
        IF f \in Range(Roles) THEN row[columns[places[CHOOSE k \in DOMAIN Roles : Roles[k] = f]]]
        ELSE row[f]]

\* The columns in the order of the template, and then the rules.
prepareTemplateRows(rows, columns, places, known) ==
    annotateRowsWithRules([i \in DOMAIN rows |-> ByRole(rows[i], columns, places)], known)

\* Each role from its place - which is still the one among the columns before
\* prepareTemplateRows put them into the template's order.
extractBindings(row, places) == ByRole(row, Roles, places)

\* The deviation from the mean in percent, none where the mean is zero; a ratio
\* is drawn as it is.
extractDerivedSignalBindings(row, ratio) ==
    LET Percent(v) == IF row.mean = 0 THEN 0 ELSE (100 * (v - row.mean)) \div row.mean
        y == IF ratio THEN row.value ELSE Percent(row.value)
    IN [at |-> row.at, y |-> y, rank |-> anomalySeverityRank[row.effective],
        band |-> IF ratio THEN <<row.lower, row.upper>>
                 ELSE <<Percent(row.lower), Percent(row.upper)>>]

\* Each point of a series as long as the times gets the link to its minute; the
\* series of warnings and outliers are shorter, unless every point is one.
attachDrilldownMetadata(points) ==
    [i \in DOMAIN points |-> [point |-> points[i], opens |-> points[i].at]]

DrawOverlay(rows, sp, roles, known) ==
    LET prepared == prepareTemplateRows(rows, sp.order, roles, known)
        bound == [i \in DOMAIN prepared |-> extractBindings(prepared[i], roles)]
        points == [i \in DOMAIN bound |->
                      extractDerivedSignalBindings(bound[i], sp.signal = "error_ratio")]
    IN [value |-> attachDrilldownMetadata(points),
        warnings |-> SelectSeq(points, LAMBDA p : p.rank = 1),
        outliers |-> SelectSeq(points, LAMBDA p : p.rank = 2)]

\* The other templates draw the columns as they are.
DrawColumns(rows) ==
    [value |-> attachDrilldownMetadata([i \in DOMAIN rows |-> [at |-> rows[i].at, y |-> rows[i].value]]),
     warnings |-> <<>>, outliers |-> <<>>]

\* A chart of the user's own: a mapping that names no column is an error, and
\* points are put in order of their first element.
resolveCustomBindingExpr(sp) == IF sp.custom = "fine" THEN sp.order ELSE Failed
normalizeCustomSeriesPointOrder(rows) == SortSeq(rows, LAMBDA a, b : a.at < b.at)
renderCustomEcharts(rows, sp) ==
    IF resolveCustomBindingExpr(sp) = Failed THEN Failed
    ELSE DrawColumns(normalizeCustomSeriesPointOrder(rows))

renderChartFromTemplate(rows, sp, columns, known) ==
    LET roles == resolveTemplateRoleIndices(sp)
    IN IF sp.template = "custom_echarts" THEN renderCustomEcharts(rows, sp)
       ELSE IF rows = <<>> THEN NoData
       ELSE IF columns \notin chartTemplateMeta[sp.template][1]..chartTemplateMeta[sp.template][2]
            \/ roles = Failed THEN Failed
       ELSE IF sp.template = "derived_signal_overlay" THEN DrawOverlay(rows, sp, roles, known)
       ELSE DrawColumns(rows)

\* The zoom of the spec, its end never before its start.
applyChartSpecVisualOverrides(sp) ==
    LET start == Clamp(sp.zoom[1], 0, 100)
        end == Clamp(sp.zoom[2], 0, 100)
    IN <<start, IF end > start THEN end ELSE start>>

-----------------------------------------------------------------------------
Stored(s, n) ==
    [signal |-> s.signal, value |-> s.value, mean |-> s.mean, lower |-> s.lower, upper |-> s.upper,
     count |-> s.count, state |-> s.state, at |-> n, rule |-> "normal", effective |-> s.state]
Arrive ==
    /\ Len(series) < MaxSamples
    /\ \E s \in Samples : series' = Append(series, Stored(s, Len(series)))
    /\ UNCHANGED <<anomalyRules, chart>>

SaveRule ==
    /\ \E r \in AnomalyRules : anomalyRules' = anomalyRules \union {r}
    /\ UNCHANGED <<series, chart>>

DeleteRule ==
    /\ \E r \in anomalyRules : anomalyRules' = anomalyRules \ {r}
    /\ UNCHANGED <<series, chart>>

\* POST /api/dashboards/spec/{compile,validate,render}, or a saved chart.
CompileSpec ==
    /\ chart.at \in {"idle", "done"}
    /\ \E sp \in Specs, saved \in BOOLEAN :
        LET asked == IF saved THEN buildRawChartSpec("anomaly_overlay", "SELECT", sp) ELSE sp
            compiled == compileChartSpec(asked)
        IN chart' = IF compiled = Failed THEN [at |-> "done", option |-> Failed]
                    ELSE [at |-> "query", spec |-> compiled.spec, query |-> compiled.query]
    /\ UNCHANGED <<series, anomalyRules>>

\* The rows of a signal, or of all, in their order.
Shows(signal, row) == signal \in {"", row.signal}
Selected(signal) ==
    FoldLeft(LAMBDA rows, row : IF Shows(signal, row) THEN Append(rows, row) ELSE rows, <<>>, series)
\* The statement of the spec, which may fail, and its named ones.
ExecuteChart ==
    /\ chart.at = "query"
    /\ chart' \in {[at |-> "done", option |-> Failed],
                   [at |-> "render", spec |-> chart.spec, query |-> chart.query,
                    rows |-> Selected(chart.query.body.signal)]}
    /\ UNCHANGED <<series, anomalyRules>>

\* The rules are read only now.
RenderChart ==
    /\ chart.at = "render"
    /\ chart' = [at |-> "done", spec |-> chart.spec, rows |-> chart.rows, judged |-> anomalyRules,
                 zoom |-> applyChartSpecVisualOverrides(chart.spec),
                 option |-> renderChartFromTemplate(chart.rows, chart.spec,
                                                    chart.query.columns, anomalyRules)]
    /\ UNCHANGED <<series, anomalyRules>>

Next == Arrive \/ SaveRule \/ DeleteRule \/ CompileSpec \/ ExecuteChart \/ RenderChart

Spec == Init /\ [][Next]_vars

-----------------------------------------------------------------------------
Drawn == chart.at = "done" /\ chart.option \notin {Failed, NoData}
Overlay == Drawn /\ chart.spec.template = "derived_signal_overlay"

\* No rule that fires is hidden by another: on the chart of a signal every point
\* is at least as alarming as its stored state and as each threshold or seasonal
\* rule on its series says, whatever their kinds and order.
NoAlarmIsHidden ==
    (Overlay /\ chart.spec.roles = <<>> /\ chart.spec.order = Roles) =>
        \A i \in DOMAIN chart.rows :
            LET row == chart.rows[i]
                shown == chart.option.value[i].point.rank
            IN /\ shown >= anomalySeverityRank[row.state]
               /\ \A r \in chart.judged :
                    (r.signal = row.signal /\ r.type # "composite") =>
                        shown >= anomalySeverityRank[EvaluateRule(r, row, chart.rows)]

\* What the comment on resolveTemplateRoleIndices says: a role is overridden by
\* the column the role map names.
RoleMapIsObeyed ==
    Overlay => \A i \in DOMAIN chart.rows :
        LET wanted == ByRole(chart.rows[i], chart.spec.order,
                             resolveTemplateRoleIndices(chart.spec))
        IN chart.option.value[i].point.y
             = extractDerivedSignalBindings(wanted, chart.spec.signal = "error_ratio").y
=============================================================================
