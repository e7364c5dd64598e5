-------------------------------- MODULE Reports --------------------------------
(***************************************************************************)
(* Saved reports (handlers_data.go, handlers_forms.go, handlers_mutations3 *)
(* .go, handlers_get2.go).  A report is replaced by a later row of its key, *)
(* the one with the greater Version staying and of equal ones the later;   *)
(* to delete is to write a row that says so.                               *)
(***************************************************************************)
EXTENDS Integers, Sequences, FiniteSets

CONSTANTS
    ReportIds,  \* ids of reports, fresh for each new one
    Names,      \* page type and lower-case name of a report
    Importers,  \* requests that import or delete
    Imports,    \* what an import may hold: sequences of names, "" for no report
    MaxReportMs \* bound on the clock of Version

ReportAssumption == Imports \subseteq Seq(Names)

VARIABLES
    reportMs,   \* the clock of Version, in milliseconds
    reports,    \* sobs_reports FINAL
    importer,   \* the requests
    freely,     \* history: requests crossed, one replaced, or a POST took a name
    deleted     \* history: reports whose deletion was answered

vars == <<reportMs, reports, importer, freely, deleted>>

NoReport == [live |-> FALSE, rank |-> 0, name |-> ""]
IdleImport == [at |-> "idle"]

Init ==
    /\ reportMs = 1
    /\ reports = [r \in ReportIds |-> NoReport]
    /\ importer = [s \in Importers |-> IdleImport]
    /\ freely = FALSE
    /\ deleted = {}

insertReport(table, id, row) ==
    IF row.rank < table[id].rank THEN table ELSE [table EXCEPT ![id] = row]
Saved == {r \in ReportIds : reports[r].live}
NewIds == {r \in ReportIds : reports[r].rank = 0}
OtherImports(s) == \E t \in Importers \ {s} : importer[t].at # "idle"

-----------------------------------------------------------------------------
\* POST /api/reports asks nothing of the name.
handleApiReports ==
    /\ \E n \in Names \ {""}, r \in NewIds :
        /\ reports' = insertReport(reports, r, [live |-> TRUE, rank |-> reportMs, name |-> n])
        /\ freely' = (freely \/ n \in {reports[q].name : q \in Saved}
                             \/ \E s \in Importers : importer[s].at # "idle")
    /\ UNCHANGED <<reportMs, importer, deleted>>

\* POST /reports/<id>/delete and DELETE /api/reports/<id>: the row is read, and
\* written back with IsDeleted.
findReport(s) ==
    /\ importer[s].at = "idle"
    /\ \E r \in Saved :
           importer' = [importer EXCEPT ![s] = [at |-> "report", id |-> r, row |-> reports[r]]]
    /\ freely' = (freely \/ OtherImports(s))
    /\ UNCHANGED <<reportMs, reports, deleted>>

deleteReport(s) ==
    /\ importer[s].at = "report"
    /\ reports' = insertReport(reports, importer[s].id,
                      [importer[s].row EXCEPT !.live = FALSE, !.rank = reportMs])
    /\ deleted' = deleted \union {importer[s].id}
    /\ importer' = [importer EXCEPT ![s] = IdleImport]
    /\ UNCHANGED <<reportMs, freely>>

\* POST /api/reports/import: the reports that are there are read once into an
\* index by name, where the later of two has the place, and the Versions of the
\* import count up from the clock.
importReports(s) ==
    /\ importer[s].at = "idle"
    /\ \E items \in Imports, policy \in {"skip", "replace", "rename"} :
       \E index \in [{reports[r].name : r \in Saved} -> Saved] :
           /\ \A n \in DOMAIN index : reports[index[n]].name = n
           /\ importer' = [importer EXCEPT ![s] = [at |-> "import", items |-> items,
                              policy |-> policy, index |-> index, rank |-> reportMs]]
           /\ freely' = (freely \/ OtherImports(s) \/ policy = "replace")
    /\ UNCHANGED <<reportMs, reports, deleted>>

\* A name no report of the index has.  (The code adds " (imported)" and counts up.)
Renamed(index) == CHOOSE n \in Names \ {""} : n \notin DOMAIN index
Indexed(index, n, r) == [m \in DOMAIN index \union {n} |-> IF m = n THEN r ELSE index[m]]

\* An item without a name or a known page, and one whose name is there and is to
\* be skipped.
skipItem(s) ==
    /\ importer[s].at = "import" /\ importer[s].items # <<>>
    /\ LET n == Head(importer[s].items)
       IN n = "" \/ (n \in DOMAIN importer[s].index /\ importer[s].policy = "skip")
    /\ importer' = [importer EXCEPT ![s].items = Tail(@), ![s].rank = @ + 2]
    /\ UNCHANGED <<reportMs, reports, freely, deleted>>

\* What was inserted is not put into the index.
importItemUnindexed(s) ==
    LET q == importer[s]
        n == Head(q.items)
        clash == n \in DOMAIN q.index
        name == IF clash /\ q.policy = "rename" THEN Renamed(q.index) ELSE n
    IN /\ q.at = "import" /\ q.items # <<>> /\ n # ""
       /\ ~clash \/ (q.policy = "rename" /\ Names \ ({""} \union DOMAIN q.index) # {})
       /\ \E r \in NewIds :
             /\ reports' = insertReport(reports, r, [live |-> TRUE, rank |-> q.rank + 1, name |-> name])
             /\ importer' = [importer EXCEPT ![s] = [q EXCEPT !.items = Tail(@), !.rank = @ + 2]]
       /\ UNCHANGED <<reportMs, freely, deleted>>

\* Any other: the one of its name is deleted, or it is renamed; then it is
\* inserted, and the index has it for the items that follow.
importItem(s) ==
    LET q == importer[s]
        n == Head(q.items)
        clash == n \in DOMAIN q.index
        name == IF clash /\ q.policy = "rename" THEN Renamed(q.index) ELSE n
        cleared == IF clash /\ q.policy = "replace"
                   THEN insertReport(reports, q.index[n],
                            [reports[q.index[n]] EXCEPT !.live = FALSE, !.rank = q.rank])
                   ELSE reports
    IN /\ q.at = "import" /\ q.items # <<>> /\ n # ""
       /\ clash => /\ q.policy # "skip"
                   /\ q.policy = "rename" => Names \ ({""} \union DOMAIN q.index) # {}
       /\ \E r \in NewIds :
             /\ reports' = insertReport(cleared, r, [live |-> TRUE, rank |-> q.rank + 1, name |-> name])
             /\ importer' = [importer EXCEPT ![s] = [q EXCEPT !.items = Tail(@), !.rank = @ + 2,
                                                              !.index = Indexed(@, name, r)]]
       /\ UNCHANGED <<reportMs, freely, deleted>>

\* The answer; an insert that fails ends the import where it is.
importDone(s) ==
    /\ importer[s].at = "import"
    /\ importer' = [importer EXCEPT ![s] = IdleImport]
    /\ UNCHANGED <<reportMs, reports, freely, deleted>>

Millisecond ==
    /\ reportMs < MaxReportMs
    /\ reportMs' = reportMs + 1
    /\ UNCHANGED <<reports, importer, freely, deleted>>

Next ==
    \/ handleApiReports \/ Millisecond
    \/ \E s \in Importers :
        \/ findReport(s) \/ deleteReport(s) \/ importReports(s)
        \/ skipItem(s) \/ importItem(s) \/ importDone(s)

Spec == Init /\ [][Next]_vars

-----------------------------------------------------------------------------
\* Imports that skip or rename never bring a name in twice, not even when the
\* file itself has it twice or the import breaks off - as long as no other
\* request crossed them and nobody posted a name that was taken.
ImportsKeepNamesApart ==
    ~freely => \A r, q \in Saved : reports[r].name = reports[q].name => r = q

\* What DELETE /api/reports/<id> answers, {"deleted": true}, is so.  The rows of an
\* import have Versions ahead of the clock, and a deletion that follows at once
\* is hidden behind them.
DeletedReportsAreGone == \A r \in deleted : ~reports[r].live
=============================================================================
