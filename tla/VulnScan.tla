------------------------------- MODULE VulnScan -------------------------------
(***************************************************************************)
(* The CVE scan (runCveScan in handlers_mutations2.go, cve_scan.go,        *)
(* fix_cve_helpers.go).  A scan backfills the dependencies of releases     *)
(* from GitHub, collects the libraries in use, asks OSV about each and     *)
(* stores the findings.  The background loop and POST .../cve/scan run the *)
(* same body and nothing keeps two of them apart.  Every statement and     *)
(* request may fail for itself.                                            *)
(***************************************************************************)
EXTENDS Integers, FiniteSets

CONSTANTS
    Libraries,    \* what spans, logs and lockfiles may name
    Releases,     \* releases of enabled apps whose repository is on GitHub
    LockedLib,    \* LockedLib[r]: the library in the lockfile of release r
    Scans,        \* runs of runCveScan
    MaxVulnFaults \* bound on failing statements

ScanAssumption == LockedLib \in [Releases -> Libraries]

VARIABLES
    lockfiles, \* lockfiles[r]: rows of sobs_release_artifacts for release r
    reported,  \* libraries named by the spans and logs in the tables
    findings,  \* sobs_cve_findings FINAL: the libraries that have one
    scan,      \* the scans
    vulnFaults,
    together,  \* history: two scans were in their backfill at once
    unlisted   \* history: scans that could not read which releases have a lockfile

tables == <<lockfiles, reported, findings>>
vars == <<tables, scan, vulnFaults, together, unlisted>>

IdleScan == [at |-> "idle", known |-> {}, rows |-> {}, libs |-> {}, found |-> {}]

Init ==
    /\ lockfiles = [r \in Releases |-> 0]
    /\ reported = {}
    /\ findings = {}
    /\ scan = [s \in Scans |-> IdleScan]
    /\ vulnFaults = 0
    /\ together = FALSE /\ unlisted = 0

Backfilling == {s \in Scans : scan[s].at \in {"fetch", "store"}}
MayFail == vulnFaults < MaxVulnFaults
Fail == MayFail /\ vulnFaults' = vulnFaults + 1

\* The inventory is asked from three tiers, each of which may fail for itself
\* and is then left out: lockfiles, and the SDK and scope of spans and logs.
InLockfiles == {LockedLib[r] : r \in {q \in Releases : lockfiles[q] > 0}}
collectLibraryInventory ==
    {InLockfiles \union reported}
        \union IF MayFail THEN {InLockfiles, reported, {}} ELSE {}

-----------------------------------------------------------------------------
(* Faulty forms of definitions below: bugs the properties must catch.      *)

\* The releases that have a lockfile are not looked up.
ListReleasesAll(s) ==
    /\ scan[s].at = "idle"
    /\ scan' = [scan EXCEPT ![s].at = "fetch"]
    /\ together' = (together \/ Backfilling # {})
    /\ UNCHANGED <<tables, vulnFaults, unlisted>>

-----------------------------------------------------------------------------
\* fetchReleaseDepsFromGithub: the releases that have a lockfile already are
\* read once, before the network is asked about the others.  If that read fails
\* none has one, and all are backfilled again.
ListReleases(s) ==
    /\ scan[s].at = "idle"
    /\ \/ /\ scan' = [scan EXCEPT ![s].at = "fetch",
                                   ![s].known = {r \in Releases : lockfiles[r] > 0}]
          /\ UNCHANGED <<vulnFaults, unlisted>>
       \/ /\ Fail /\ unlisted' = unlisted + 1
          /\ scan' = [scan EXCEPT ![s].at = "fetch"]
    /\ together' = (together \/ Backfilling # {})
    /\ UNCHANGED tables

\* The other releases one after the other: the snapshot of the workflow run of
\* each, else the lockfiles of its refs.  Whatever fails leaves it without rows.
FetchReleases(s) ==
    /\ scan[s].at = "fetch"
    /\ \E got \in SUBSET (Releases \ scan[s].known) :
        scan' = [scan EXCEPT ![s].at = "store", ![s].rows = got]
    /\ UNCHANGED <<tables, vulnFaults, together, unlisted>>

\* One insert of all rows; if it fails the scan goes on with what there was.
StoreLockfiles(s) ==
    /\ scan[s].at = "store"
    /\ scan' = [scan EXCEPT ![s].at = "collect"]
    /\ \/ /\ lockfiles' = [r \in Releases |->
                 lockfiles[r] + IF r \in scan[s].rows THEN 1 ELSE 0]
          /\ UNCHANGED vulnFaults
       \/ Fail /\ UNCHANGED lockfiles
    /\ UNCHANGED <<reported, findings, together, unlisted>>

\* The inventory; without a library the scan is over.
Collect(s) ==
    /\ scan[s].at = "collect"
    /\ \E libs \in collectLibraryInventory :
        /\ scan' = [scan EXCEPT ![s].at = IF libs = {} THEN "done" ELSE "ask",
                                ![s].libs = libs]
        /\ vulnFaults' = IF libs = InLockfiles \union reported THEN vulnFaults
                         ELSE vulnFaults + 1
    /\ UNCHANGED <<tables, together, unlisted>>

\* A question to OSV about each library, whose answer may name
\* vulnerabilities, none, or fail.
AskOsv(s) ==
    /\ scan[s].at = "ask"
    /\ \E vulnerable \in SUBSET scan[s].libs :
        scan' = [scan EXCEPT ![s].at = "record", ![s].found = vulnerable]
    /\ UNCHANGED <<tables, vulnFaults, together, unlisted>>

\* The findings in one insert, whose error is dropped.
RecordFindings(s) ==
    /\ scan[s].at = "record"
    /\ scan' = [scan EXCEPT ![s].at = "done"]
    /\ \/ findings' = findings \union scan[s].found /\ UNCHANGED vulnFaults
       \/ scan[s].found # {} /\ Fail /\ UNCHANGED findings
    /\ UNCHANGED <<lockfiles, reported, together, unlisted>>

\* Spans and logs name a library.
Report(l) ==
    /\ l \notin reported
    /\ reported' = reported \union {l}
    /\ UNCHANGED <<lockfiles, findings, scan, vulnFaults, together, unlisted>>

Next ==
    \/ \E s \in Scans :
        \/ ListReleases(s) \/ FetchReleases(s) \/ StoreLockfiles(s)
        \/ Collect(s) \/ AskOsv(s) \/ RecordFindings(s)
    \/ \E l \in Libraries : Report(l)

Spec == Init /\ [][Next]_vars

-----------------------------------------------------------------------------
\* A release is backfilled once, whatever else fails in between, by scans that do
\* not overlap in their backfill; each of them that could not read which releases
\* have a lockfile (cve_scan.go:88) adds its dependencies once more.  (Two that do
\* overlap both insert rows with fresh ids: fetchReleaseDepsFromGithub reads
\* what is there long before it inserts.)
BackfilledOnce == ~together => \A r \in Releases : lockfiles[r] <= 1 + unlisted
=============================================================================
