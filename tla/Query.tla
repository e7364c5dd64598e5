-------------------------------- MODULE Query --------------------------------
(***************************************************************************)
(* Turns of the query page and of the dashboard builder: a statement comes   *)
(* from the user or from the model, is checked against the list of tables,   *)
(* explained, run, repaired and run again, with further statements for the   *)
(* data of a chart (query_exec.go, fix_ai_build.go, ai_build.go,              *)
(* fix_query.go, sql_validate.go).  A statement is a record of what the code  *)
(* asks of its text.                                                         *)
(***************************************************************************)
EXTENDS Integers, Sequences, FiniteSets

CONSTANTS
    Statements, \* [leader, ddl, refs, aliases, cut, plans, runs]: what is typed or replied
    Allowed,    \* _QUERY_ALLOWED_TABLES
    MaxTurns    \* bound on the turns

VARIABLES
    turn,       \* the turn under way
    answer,     \* the last answer
    sent,       \* history: the statements of this turn that reached the database
    turns
queryVars == <<turn, answer, sent, turns>>

NoSql == [leader |-> "", ddl |-> FALSE, refs |-> {}, aliases |-> {}, cut |-> "", plans |-> FALSE, runs |-> FALSE]
NoAnswer == [ok |-> FALSE, sql |-> NoSql, rowsOf |-> NoSql, error |-> FALSE, sets |-> {}, chart |-> ""]
NoTurn == [at |-> "idle", kind |-> "", chart |-> FALSE, sql |-> NoSql, attempt |-> 1, retries |-> 0,
           dials |-> 0, main |-> NoAnswer, todo |-> <<>>, sets |-> {}]
vannaMaxRepairAttempts == 3
NamedLimit == 3

Init == turn = NoTurn /\ answer = NoAnswer /\ sent = {} /\ turns = 0

-----------------------------------------------------------------------------
(* Statements.                                                             *)

\* The tables after FROM or JOIN that are not names of the statement's own, nor of
\* the database system, nor on the list.
checkTableRefs(s) == {ref \in s.refs :
    /\ ~(ref.db = "" /\ ref.name \in s.aliases)
    /\ ref.db # "system"
    /\ ref.db \in {"", "default"} => ref.name \notin Allowed}
validateSQL(s) ==
    /\ s.leader \in {"select", "explain", "show", "describe", "desc", "with"}
    /\ ~s.ddl
    /\ checkTableRefs(s) = {}

Plans(s) == s.cut = "" /\ s.plans
\* EXPLAIN is sent only when the statement is valid.
vannaExplainSQL(s) == validateSQL(s) /\ Plans(s)
Explained(s) == IF validateSQL(s) THEN {s} ELSE {}

\* A WITH that was cut off is closed and ends in a SELECT from its first name: not
\* when it was cut inside a literal.
repairTruncatedInClauseLiterals(s) == IF s.cut = "list" THEN [s EXCEPT !.cut = "paren"] ELSE s
autoRepairIncompleteCTESQL(s) ==
    LET text == repairTruncatedInClauseLiterals(s)
    IN IF s.leader = "with" /\ text.cut = "paren" /\ s.aliases # {}
       THEN [text EXCEPT !.cut = "", !.refs = @ \cup {[db |-> "", name |-> CHOOSE a \in s.aliases : TRUE]}]
       ELSE NoSql

-----------------------------------------------------------------------------
(* A turn.                                                                 *)

Go(t) == turn' = t
Reply(a) == answer' = a /\ Go(NoTurn)

\* The user's statement: 422 when it is not valid or not planned, else run once.
handleApiQueryRun ==
    /\ turn.at = "idle" /\ turns < MaxTurns /\ turns' = turns + 1
    /\ \E s \in Statements, chart \in BOOLEAN :
        IF vannaExplainSQL(s)
        THEN /\ Go([NoTurn EXCEPT !.at = "result", !.kind = "run", !.chart = chart, !.sql = s,
                     !.main = [NoAnswer EXCEPT !.ok = s.runs, !.rowsOf = s, !.error = ~s.runs]])
             /\ sent' = {s} /\ answer' = NoAnswer
        ELSE /\ Reply([NoAnswer EXCEPT !.sql = s, !.error = TRUE])
             /\ sent' = Explained(s)

\* A question of the query page passes the guard first, or the turn ends (403).
handleApiQueryAsk ==
    /\ turn.at = "idle" /\ turns < MaxTurns /\ turns' = turns + 1
    /\ sent' = {}
    /\ \/ Go([NoTurn EXCEPT !.at = "generate", !.kind = "ask"]) /\ answer' = NoAnswer
       \/ Reply([NoAnswer EXCEPT !.error = TRUE])
\* The dashboard builder asks the guard nothing.
handleApiDashboardsSpecAiBuild ==
    /\ turn.at = "idle" /\ turns < MaxTurns /\ turns' = turns + 1
    /\ sent' = {}
    /\ Go([NoTurn EXCEPT !.at = "generate", !.kind = "build", !.chart = TRUE])
    /\ answer' = NoAnswer

\* The model replies with a statement, or with none (503).
generateSQLViaLLM ==
    /\ turn.at = "generate"
    /\ \/ \E s \in Statements : Go([turn EXCEPT !.at = "explain", !.sql = s]) /\ UNCHANGED answer
       \/ Reply([NoAnswer EXCEPT !.error = TRUE])
    /\ UNCHANGED <<sent, turns>>

\* The model is asked to repair the statement: another one, or none.
Repaired(next, give) ==
    \/ \E r \in Statements : Go([next EXCEPT !.sql = r, !.retries = @ + 1, !.dials = @ + 1])
    \/ Go([give EXCEPT !.dials = @ + 1])

\* Before the first run: explained, closed if it was cut, explained again, repaired
\* by the model; whatever came of it is run.
preflight ==
    /\ turn.at = "explain"
    /\ LET s == turn.sql
           closed == autoRepairIncompleteCTESQL(s)
           tried == IF closed # NoSql THEN closed ELSE s
           then == [turn EXCEPT !.at = "attempt", !.sql = tried,
                                !.retries = @ + (IF closed # NoSql THEN 1 ELSE 0)]
       IN IF vannaExplainSQL(s) THEN Go([turn EXCEPT !.at = "attempt"]) /\ sent' = sent \cup {s}
          ELSE /\ sent' = sent \cup Explained(s) \cup Explained(tried)
               /\ IF vannaExplainSQL(tried) THEN Go(then) ELSE Repaired(then, then)
    /\ UNCHANGED <<answer, turns>>

\* Faulty form: what was explained is run.
vannaRunQueryUnchecked(s) == [sent |-> {s}, ok |-> s.cut = "" /\ s.runs]
\* A run checks the statement again.
vannaRunQuery(s) == IF validateSQL(s) THEN [sent |-> {s}, ok |-> Plans(s) /\ s.runs]
                    ELSE [sent |-> {}, ok |-> FALSE]

\* The result of a statement: of the turn's own, or of one for the chart.
Took(t, ok) ==
    LET result == [NoAnswer EXCEPT !.ok = ok, !.sql = t.sql, !.rowsOf = t.sql, !.error = ~ok]
    IN IF t.main = NoAnswer THEN [t EXCEPT !.at = "result", !.main = result]
       ELSE [t EXCEPT !.at = "next", !.sets = @ \cup {result}, !.sql = t.main.sql]

validateAndExecuteVannaSQLWithRepair ==
    /\ turn.at = "attempt"
    /\ LET run == vannaRunQuery(turn.sql)
           closed == autoRepairIncompleteCTESQL(turn.sql)
           again == [turn EXCEPT !.attempt = @ + 1]
       IN /\ sent' = sent \cup run.sent
          /\ IF run.ok \/ turn.attempt >= vannaMaxRepairAttempts THEN Go(Took(turn, run.ok))
             ELSE IF closed # NoSql THEN Go([again EXCEPT !.sql = closed, !.retries = @ + 1])
             ELSE Repaired(again, Took(turn, FALSE))
    /\ UNCHANGED <<answer, turns>>

\* A failed statement ends the turn, as an answer (ask, run) or a 422 (build); so does a
\* turn that wants no chart.
Main == [turn.main EXCEPT !.sql = turn.sql]
afterMain ==
    /\ turn.at = "result"
    /\ IF turn.main.ok /\ turn.chart THEN Go([turn EXCEPT !.at = "named"]) /\ UNCHANGED answer
       ELSE Reply(Main)
    /\ UNCHANGED <<sent, turns>>

\* The model names up to three statements for the chart, each a SELECT or a WITH and
\* none the main one; the query page asks its guard first.
NamedLists == {<<>>} \cup {<<s>> : s \in Statements} \cup {<<s, r>> : s, r \in Statements}
generateNamedQueries ==
    /\ turn.at = "named"
    /\ \/ \E named \in NamedLists :
            /\ Len(named) <= NamedLimit
            /\ \A i \in DOMAIN named : named[i].leader \in {"select", "with"} /\ named[i] # turn.sql
            /\ Go([turn EXCEPT !.at = "next", !.todo = named, !.main = Main])
       \/ turn.kind = "run" /\ Go([turn EXCEPT !.at = "blocked"])
    /\ UNCHANGED <<answer, sent, turns>>

\* The builder repairs these like the main one; a run tries each once.
executeNamedQueries ==
    /\ turn.at = "next" /\ turn.todo # <<>>
    /\ LET s == Head(turn.todo)
           next == [turn EXCEPT !.todo = Tail(@), !.sql = s, !.attempt = 1, !.dials = 0]
           run == vannaRunQuery(s)
       IN IF turn.kind = "build" THEN Go([next EXCEPT !.at = "explain"]) /\ UNCHANGED sent
          ELSE Go(Took(next, run.ok)) /\ sent' = sent \cup run.sent
    /\ UNCHANGED <<answer, turns>>

\* The options of the chart: the model's, those it repaired, or none - for which the
\* builder has a template.
generateChartSpec ==
    /\ \/ turn.at = "next" /\ turn.todo = <<>>
       \/ turn.at = "blocked"
    /\ \E chart \in IF turn.at = "blocked" THEN {"none"} ELSE {"model", "repaired", "none"} :
        Reply([Main EXCEPT !.sets = {r \in turn.sets : turn.kind = "build" => ~r.error},
                 !.error = turn.kind = "run" /\ chart = "none",
                 !.chart = IF chart = "none" /\ turn.kind = "build" THEN "template" ELSE chart])
    /\ UNCHANGED <<sent, turns>>

Next ==
    \/ handleApiQueryRun \/ handleApiQueryAsk \/ handleApiDashboardsSpecAiBuild
    \/ generateSQLViaLLM \/ preflight \/ validateAndExecuteVannaSQLWithRepair
    \/ afterMain \/ generateNamedQueries \/ executeNamedQueries \/ generateChartSpec
Spec == Init /\ [][Next]_queryVars

-----------------------------------------------------------------------------
\* Whatever the model replies and however often a statement is repaired, only valid
\* statements reach the database; rows are shown under the statement that gave them,
\* each data set of a chart too; and no statement takes the model more than three
\* repairs.
ShownIsWhatRan ==
    /\ \A s \in sent : validateSQL(s)
    /\ answer.ok => /\ answer.rowsOf = answer.sql /\ answer.sql \in sent
                    /\ \A r \in answer.sets : r.ok => r.rowsOf = r.sql /\ r.sql \in sent
    /\ turn.dials <= 3
=============================================================================
