----------------------------- MODULE VulnVerdicts -----------------------------
(***************************************************************************)
(* What people decide about CVE findings (cve_dispositions.go and the      *)
(* handlers of /enrichment/cve).  A disposition is a row of a              *)
(* ReplacingMergeTree(Version_), written by a request that reads the row   *)
(* before it; what a page shows depends on it and on the versions of the   *)
(* package in use.  One package stands for all, since every table is keyed *)
(* by the package and versions are compared within one.                    *)
(***************************************************************************)
EXTENDS Integers

CONSTANTS
    Versions,  \* versions of the package, numbered
    Verdicts,  \* requests that set a disposition
    MaxMs      \* bound on the clock

VerdictAssumption == MaxMs \in Nat /\ Versions # {} /\ "nobody" \notin Verdicts

VARIABLES
    ms,        \* the clock of Version_, in milliseconds
    inUse,     \* versions in the inventory
    found,     \* versions with a finding
    disposed,  \* sobs_cve_dispositions FINAL, by version
    verdict,   \* the requests
    earlier    \* history: requests answered when request d began

vars == <<ms, inUse, found, disposed, verdict, earlier>>

cveDispositionValues == {"open", "accepted", "false_positive", "fixed"}
NoVerdict == [mark |-> "open", rank |-> 0, by |-> "nobody"]
IdleVerdict == [at |-> "idle", version |-> CHOOSE v \in Versions : TRUE,
                mark |-> "open", rank |-> 0, blind |-> FALSE]
Answered == {d \in Verdicts : verdict[d].at = "done"}

Init ==
    /\ ms = 1
    /\ inUse \in SUBSET Versions
    /\ found = inUse
    /\ disposed = [v \in Versions |-> NoVerdict]
    /\ verdict = [d \in Verdicts |-> IdleVerdict]
    /\ earlier = [d \in Verdicts |-> {}]

\* A fixed mark holds while no other version is in use.
effectiveCveDisposition(v) ==
    IF disposed[v].mark = "fixed" /\ inUse \ {v} # {} THEN "open"
    ELSE disposed[v].mark

\* The page and the API without show_all; they join the same three reads.
Shown == {v \in found : effectiveCveDisposition(v) = "open"}

\* Version_ is the clock alone.
ReadVerdictClockOnly(d) ==
    /\ verdict[d].at = "idle"
    /\ \E v \in Versions, m \in cveDispositionValues :
        verdict' = [verdict EXCEPT ![d] = [at |-> "write", version |-> v, mark |-> m,
                                           blind |-> FALSE, rank |-> ms]]
    /\ earlier' = [earlier EXCEPT ![d] = Answered]
    /\ UNCHANGED <<ms, inUse, found, disposed>>

-----------------------------------------------------------------------------
\* The row is read for its Version_; a failed read counts as no row.
ReadVerdict(d) ==
    /\ verdict[d].at = "idle"
    /\ \E v \in Versions, m \in cveDispositionValues, ok \in BOOLEAN :
        verdict' = [verdict EXCEPT ![d] =
            [at |-> "write", version |-> v, mark |-> m, blind |-> ~ok,
             rank |-> IF ok /\ disposed[v].rank >= ms THEN disposed[v].rank + 1
                      ELSE ms]]
    /\ earlier' = [earlier EXCEPT ![d] = Answered]
    /\ UNCHANGED <<ms, inUse, found, disposed>>

\* Of two rows of a key the greater Version_ stays, of equal ones the later.
WriteVerdict(d) ==
    LET w == verdict[d]
    IN /\ w.at = "write"
       /\ verdict' = [verdict EXCEPT ![d].at = "done"]
       /\ disposed' =
            IF w.rank < disposed[w.version].rank THEN disposed
            ELSE [disposed EXCEPT ![w.version] =
                     [mark |-> w.mark, rank |-> w.rank, by |-> d]]
       /\ UNCHANGED <<ms, inUse, found, earlier>>

\* The wall clock, which may be set back.
SetClock ==
    /\ \E t \in 1..MaxMs : ms' = t
    /\ UNCHANGED <<inUse, found, disposed, verdict, earlier>>

Next ==
    \/ \E d \in Verdicts : ReadVerdict(d) \/ WriteVerdict(d)
    \/ SetClock

Spec == Init /\ [][Next]_vars

-----------------------------------------------------------------------------
\* The last word counts: a disposition posted after another was answered is not
\* hidden behind it, also when the clock was set back in between - unless the
\* read before it failed.
LastWordCounts ==
    \A d, e \in Answered :
        (d \in earlier[e] /\ verdict[d].version = verdict[e].version
           /\ ~verdict[e].blind)
        => disposed[verdict[e].version].by # d

\* What a comment in handlers_misc.go says: a fixed mark reopens "once a newer
\* inventory version appears".  The code reopens it for any other version.
ReopensForNewer ==
    \A v \in Shown : disposed[v].mark = "fixed" => \E u \in inUse : u > v
=============================================================================
