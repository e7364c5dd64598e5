------------------------------ MODULE Dashboards ------------------------------
(***************************************************************************)
(* The dashboards people make and the charts on them (handlers_forms.go,   *)
(* handlers_mutations.go, handlers_mutations3.go).  Every row is replaced  *)
(* by a later one of its key, the one with the greater Version staying and *)
(* of equal ones the later; to delete is to write a row that says so.      *)
(* Every request reads before it writes, and nothing keeps two apart.      *)
(***************************************************************************)
EXTENDS Integers, Sequences, FiniteSets, FiniteSetsExt

CONSTANTS
    Boards,         \* ids of dashboards
    ChartIds,       \* ids of charts, fresh for each new one
    Savers,         \* requests
    MaxVersion,     \* bound on the clock of Version
    MaxSaveFaults   \* bound on failing reads

VARIABLES
    version,   \* the clock of Version
    boards,    \* sobs_dashboards FINAL
    charts,    \* sobs_chart_configs FINAL
    saver,     \* the requests
    saveFaults,
    crossed    \* history: two requests were under way at once

rows == <<boards, charts>>
vars == <<version, rows, saver, saveFaults, crossed>>

NoBoard == [live |-> FALSE, rank |-> 0]
NoChart == [live |-> FALSE, rank |-> 0, board |-> "none", position |-> 0]
Idle == [at |-> "idle"]

Init ==
    /\ version = 1
    /\ boards = [b \in Boards |-> NoBoard]
    /\ charts = [c \in ChartIds |-> NoChart]
    /\ saver = [s \in Savers |-> Idle]
    /\ saveFaults = 0
    /\ crossed = FALSE

insertRows(table, id, row) ==
    IF row.rank < table[id].rank THEN table ELSE [table EXCEPT ![id] = row]
Live(table) == {id \in DOMAIN table : table[id].live}
getCharts(b) == {c \in Live(charts) : charts[c].board = b}
Positions(b) == {charts[c].position : c \in getCharts(b)}
\* The ids that no row has and no request has taken.
Fresh(table) ==
    {i \in DOMAIN table : table[i].rank = 0
        /\ \A s \in Savers : saver[s].at = "idle" \/ saver[s].id # i}

Busy(s) == {t \in Savers \ {s} : saver[t].at # "idle"}
Enter(s, r) ==
    /\ saver' = [saver EXCEPT ![s] = r]
    /\ crossed' = (crossed \/ Busy(s) # {})
Leave(s) == saver' = [saver EXCEPT ![s] = Idle] /\ UNCHANGED crossed

-----------------------------------------------------------------------------
(* Dashboards.                                                             *)

\* POST /dashboards.
createDashboard ==
    /\ \E b \in Boards :
        /\ boards[b].rank = 0
        /\ boards' = insertRows(boards, b, [live |-> TRUE, rank |-> version])
    /\ UNCHANGED <<version, charts, saver, saveFaults, crossed>>

\* POST /dashboards/<id>/...: the dashboard must be there.
handleDashboardsFormSub(s) ==
    /\ saver[s].at = "idle"
    /\ \E b \in Live(boards), job \in {"delete", "charts", "chart"} :
           Enter(s, [at |-> job, id |-> "none", board |-> b])
    /\ UNCHANGED <<version, rows, saveFaults>>

deleteDashboard(s) ==
    /\ saver[s].at = "delete"
    /\ boards' = insertRows(boards, saver[s].board, [live |-> FALSE, rank |-> version])
    /\ saver' = [saver EXCEPT ![s] = [at |-> "tombstones", id |-> "none",
                                      board |-> saver[s].board, rank |-> version]]
    /\ UNCHANGED <<version, charts, saveFaults, crossed>>

\* The charts that are on it now, under the Version of before.
deleteDashboardCharts(s) ==
    /\ saver[s].at = "tombstones"
    /\ charts' = [c \in ChartIds |->
           IF c \in getCharts(saver[s].board) /\ saver[s].rank >= charts[c].rank
           THEN [charts[c] EXCEPT !.live = FALSE, !.rank = saver[s].rank] ELSE charts[c]]
    /\ Leave(s)
    /\ UNCHANGED <<version, boards, saveFaults>>

-----------------------------------------------------------------------------
(* Charts.                                                                 *)

\* The number of charts that are there.
nextChartPositionByCount(s) ==
    /\ saver[s].at = "charts"
    /\ \E c \in Fresh(charts) :
           saver' = [saver EXCEPT ![s] = [at |-> "insert", id |-> c, board |-> saver[s].board,
               position |-> Cardinality(getCharts(saver[s].board))]]
    /\ UNCHANGED <<version, rows, saveFaults, crossed>>

\* One above the highest; a read that fails counts as an empty dashboard.
nextChartPosition(s) ==
    /\ saver[s].at = "charts"
    /\ \E c \in Fresh(charts), ok \in BOOLEAN :
        /\ ok \/ saveFaults < MaxSaveFaults
        /\ saveFaults' = IF ok THEN saveFaults ELSE saveFaults + 1
        /\ saver' = [saver EXCEPT ![s] = [at |-> "insert", id |-> c, board |-> saver[s].board,
               position |-> IF ok /\ getCharts(saver[s].board) # {}
                            THEN Max(Positions(saver[s].board)) + 1 ELSE 0]]
    /\ UNCHANGED <<version, rows, crossed>>

\* The chart to edit, clone or remove must be on the dashboard.
findChart(s) ==
    /\ saver[s].at = "chart"
    /\ \/ getCharts(saver[s].board) = {} /\ Leave(s)
       \/ \E c \in getCharts(saver[s].board) : \E job \in {"insert", "remove"} :
             /\ saver' = [saver EXCEPT ![s] = [at |-> job, id |-> c, board |-> saver[s].board,
                                              position |-> charts[c].position]]
             /\ UNCHANGED crossed
    /\ UNCHANGED <<version, rows, saveFaults>>

\* cloneChart reads the charts once, for the source and for the position.
cloneChart(s) ==
    /\ saver[s].at = "chart"
    /\ getCharts(saver[s].board) # {}
    /\ \E c \in Fresh(charts) :
           saver' = [saver EXCEPT ![s] = [at |-> "insert", id |-> c, board |-> saver[s].board,
                                          position |-> Max(Positions(saver[s].board)) + 1]]
    /\ UNCHANGED <<version, rows, saveFaults, crossed>>

\* The row of addChart, cloneChart, importChart, api_query_add_to_dashboard, or of
\* editChart, which keeps id and position.
insertChart(s) ==
    /\ saver[s].at = "insert"
    /\ charts' = insertRows(charts, saver[s].id, [live |-> TRUE, rank |-> version,
                     board |-> saver[s].board, position |-> saver[s].position])
    /\ Leave(s)
    /\ UNCHANGED <<version, boards, saveFaults>>

removeChart(s) ==
    /\ saver[s].at = "remove"
    /\ charts' = insertRows(charts, saver[s].id, [live |-> FALSE, rank |-> version,
                     board |-> saver[s].board, position |-> saver[s].position])
    /\ Leave(s)
    /\ UNCHANGED <<version, boards, saveFaults>>

PassTime ==
    /\ version < MaxVersion
    /\ version' = version + 1
    /\ UNCHANGED <<rows, saver, saveFaults, crossed>>

Next ==
    \/ createDashboard \/ PassTime
    \/ \E s \in Savers :
        \/ handleDashboardsFormSub(s) \/ deleteDashboard(s) \/ deleteDashboardCharts(s)
        \/ nextChartPosition(s) \/ findChart(s) \/ cloneChart(s) \/ insertChart(s)
        \/ removeChart(s)

Spec == Init /\ [][Next]_vars

-----------------------------------------------------------------------------
\* The charts of a dashboard have places of their own, after any sequence of
\* adding, cloning, editing and removing - as long as no two requests crossed
\* and no read of the positions failed.
PositionsApart ==
    (~crossed /\ saveFaults = 0) =>
        \A c, d \in Live(charts) :
            (charts[c].board = charts[d].board /\ charts[c].position = charts[d].position)
            => c = d
=============================================================================
