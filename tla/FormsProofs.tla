------------------------------ MODULE FormsProofs ------------------------------
(***************************************************************************)
(* Proofs about what is kept for people and CIs (Forms): verdicts on       *)
(* versions, scans for vulnerabilities, dashboards, saved reports, the key *)
(* of the CI, apps and releases, retentions, prunes and backups.           *)
(***************************************************************************)
EXTENDS Forms, Sequences, FiniteSets, FiniteSetTheorems, SequenceTheorems,
        WellFoundedInduction, TLAPS

-----------------------------------------------------------------------------
(* Verdicts on versions.                                                   *)

\* What a request and a disposition are; dispositions only rise in rank.
VerdictSet == [at : {"idle", "write", "done"}, version : Versions,
               mark : Verdict!cveDispositionValues, rank : Nat, blind : BOOLEAN]
DisposedSet == [mark : Verdict!cveDispositionValues, rank : Nat, by : Verdicts \cup {"nobody"}]
VerdictTypes ==
    /\ ms \in Nat /\ verdict \in [Verdicts -> VerdictSet]
    /\ disposed \in [Versions -> DisposedSet] /\ earlier \in [Verdicts -> SUBSET Verdicts]
\* A disposition ranks no lower than those that were answered, and is the one of
\* the request that it names.
Outranked ==
    /\ \A d \in Verdicts : verdict[d].at = "done" =>
           verdict[d].rank <= disposed[verdict[d].version].rank
    /\ \A v \in Versions, d \in Verdicts : disposed[v].by = d =>
           verdict[d].at = "done" /\ verdict[d].version = v /\ verdict[d].rank = disposed[v].rank
\* Who read the disposition ranks higher than the requests answered before.
Rising ==
    \A e \in Verdicts : verdict[e].at # "idle" =>
        \A d \in earlier[e] :
            /\ verdict[d].at = "done"
            /\ verdict[d].version = verdict[e].version /\ ~ verdict[e].blind =>
                   verdict[d].rank < verdict[e].rank
VerdictInv == VerdictTypes /\ Outranked /\ Rising

\* A request reads the disposition.
LEMMA VerdictIsRead ==
  ASSUME VerdictInv, NEW e \in Verdicts, Verdict!ReadVerdict(e)
  PROVE  VerdictInv'
<1>1. VerdictTypes /\ Outranked /\ Rising /\ verdict[e] \in VerdictSet
  BY DEF VerdictInv, VerdictTypes
<1>2. PICK v \in Versions, m \in Verdict!cveDispositionValues, ok \in BOOLEAN :
          verdict' = [verdict EXCEPT ![e] =
              [at |-> "write", version |-> v, mark |-> m, blind |-> ~ok,
               rank |-> IF ok /\ disposed[v].rank >= ms THEN disposed[v].rank + 1 ELSE ms]]
  BY DEF Verdict!ReadVerdict
<1>3. /\ verdict[e].at = "idle" /\ UNCHANGED <<ms, disposed>>
      /\ earlier' = [earlier EXCEPT ![e] = Verdict!Answered]
  BY DEF Verdict!ReadVerdict
<1>4. disposed[v].rank \in Nat /\ ms \in Nat
  BY <1>1 DEF VerdictTypes, DisposedSet
<1>5. PICK r \in Nat : /\ r = IF ok /\ disposed[v].rank >= ms THEN disposed[v].rank + 1 ELSE ms
                       /\ ok => disposed[v].rank < r
  BY <1>4
<1>6. PICK w : w = [at |-> "write", version |-> v, mark |-> m, blind |-> ~ok, rank |-> r]
  OBVIOUS
<1>7. /\ w \in VerdictSet /\ w.at = "write" /\ w.version = v /\ w.rank = r
      /\ ~ w.blind => disposed[v].rank < r
  BY <1>5, <1>6 DEF VerdictSet
<1>8. /\ verdict' \in [Verdicts -> VerdictSet] /\ verdict'[e] = w
      /\ \A d \in Verdicts : d # e => verdict'[d] = verdict[d]
  BY <1>1, <1>2, <1>5, <1>6, <1>7 DEF VerdictTypes
<1>9. VerdictTypes'
  BY <1>1, <1>3, <1>8 DEF VerdictTypes, Verdict!Answered
<1>10. Outranked'
  BY <1>1, <1>3, <1>7, <1>8 DEF Outranked
<1>11. Rising'
  <2>1. ASSUME NEW u \in Verdicts, u # e, verdict[u].at # "idle", NEW d \in earlier'[u]
        PROVE  /\ verdict'[d].at = "done"
               /\ verdict'[d].version = verdict[u].version /\ ~ verdict[u].blind =>
                      verdict'[d].rank < verdict[u].rank
    <3>1. d \in earlier[u] /\ d \in Verdicts
      BY <1>1, <1>3, <2>1 DEF VerdictTypes
    <3>2. verdict[d].at = "done"
      BY <1>1, <2>1, <3>1 DEF Rising
    <3>3. verdict'[d] = verdict[d]
      BY <1>3, <1>8, <3>1, <3>2
    <3> QED
      BY <1>1, <2>1, <3>1, <3>3 DEF Rising
  <2>2. ASSUME NEW d \in earlier'[e]
        PROVE  /\ verdict'[d].at = "done"
               /\ verdict'[d].version = w.version /\ ~ w.blind => verdict'[d].rank < w.rank
    <3>1. d \in Verdicts /\ verdict[d].at = "done" /\ d # e
      BY <1>1, <1>3, <2>2 DEF VerdictTypes, Verdict!Answered
    <3>2. verdict'[d] = verdict[d]
      BY <1>8, <3>1
    <3>3. verdict[d].version = v => verdict[d].rank <= disposed[v].rank
      BY <1>1, <3>1 DEF Outranked
    <3>4. verdict[d].rank \in Nat
      BY <1>1, <3>1 DEF VerdictTypes, VerdictSet
    <3> QED
      BY <1>4, <1>7, <3>1, <3>2, <3>3, <3>4
  <2> QED
    BY <1>8, <2>1, <2>2 DEF Rising
<1> QED
  BY <1>9, <1>10, <1>11 DEF VerdictInv

\* It writes it, unless it is outranked.
LEMMA VerdictIsWritten ==
  ASSUME VerdictInv, NEW e \in Verdicts, Verdict!WriteVerdict(e)
  PROVE  VerdictInv'
<1>1. VerdictTypes /\ Outranked /\ Rising /\ verdict[e] \in VerdictSet
  BY DEF VerdictInv, VerdictTypes
<1>2. /\ verdict[e].at = "write" /\ UNCHANGED <<ms, earlier>>
      /\ verdict' = [verdict EXCEPT ![e].at = "done"]
  BY DEF Verdict!WriteVerdict
<1>3. PICK v \in Versions, r \in Nat : v = verdict[e].version /\ r = verdict[e].rank
  BY <1>1 DEF VerdictSet
<1>4. PICK row : row = [mark |-> verdict[e].mark, rank |-> r, by |-> e]
  OBVIOUS
<1>5. row \in DisposedSet /\ row.rank = r /\ row.by = e
  BY <1>1, <1>4 DEF VerdictSet, DisposedSet
<1>6. disposed' = IF r < disposed[v].rank THEN disposed ELSE [disposed EXCEPT ![v] = row]
  BY <1>3, <1>4 DEF Verdict!WriteVerdict
<1>7. PICK w : w = [verdict[e] EXCEPT !.at = "done"]
  OBVIOUS
<1>8. /\ w \in VerdictSet /\ w.at = "done" /\ w.version = v /\ w.rank = r
      /\ w.blind = verdict[e].blind
  BY <1>1, <1>3, <1>7 DEF VerdictSet
<1>9. /\ verdict' \in [Verdicts -> VerdictSet] /\ verdict'[e] = w
      /\ \A d \in Verdicts : d # e => verdict'[d] = verdict[d]
  BY <1>1, <1>2, <1>7, <1>8 DEF VerdictTypes
<1>10. \A u \in Versions : disposed[u] \in DisposedSet /\ disposed[u].rank \in Nat
  BY <1>1 DEF VerdictTypes, DisposedSet
<1>11. /\ disposed' \in [Versions -> DisposedSet]
       /\ \A u \in Versions : u # v => disposed'[u] = disposed[u]
       /\ disposed'[v] = disposed[v] \/ disposed'[v] = row
       /\ r <= disposed'[v].rank /\ disposed[v].rank <= disposed'[v].rank
  BY <1>1, <1>5, <1>6, <1>10 DEF VerdictTypes
<1>12. VerdictTypes'
  BY <1>1, <1>2, <1>9, <1>11 DEF VerdictTypes
<1>13. Outranked'
  <2>1. ASSUME NEW d \in Verdicts, verdict'[d].at = "done"
        PROVE  verdict'[d].rank <= disposed'[verdict'[d].version].rank
    <3>1. CASE d = e
      BY <1>8, <1>9, <1>11, <3>1
    <3>2. CASE d # e
      <4>1. PICK u \in Versions, n \in Nat : u = verdict[d].version /\ n = verdict[d].rank
        BY <1>1 DEF VerdictTypes, VerdictSet
      <4>2. n <= disposed[u].rank
        BY <1>1, <1>9, <2>1, <3>2, <4>1 DEF Outranked
      <4>3. disposed[u].rank <= disposed'[u].rank /\ disposed'[u].rank \in Nat
        BY <1>10, <1>11 DEF DisposedSet
      <4> QED
        BY <1>9, <1>10, <3>2, <4>1, <4>2, <4>3
    <3> QED
      BY <3>1, <3>2
  <2>2. ASSUME NEW u \in Versions, NEW d \in Verdicts, disposed'[u].by = d
        PROVE  /\ verdict'[d].at = "done" /\ verdict'[d].version = u
               /\ verdict'[d].rank = disposed'[u].rank
    <3>1. CASE disposed'[u] = row /\ u = v
      BY <1>5, <1>8, <1>9, <2>2, <3>1
    <3>2. CASE disposed'[u] = disposed[u]
      <4>1. /\ verdict[d].at = "done" /\ verdict[d].version = u
            /\ verdict[d].rank = disposed[u].rank
        BY <1>1, <2>2, <3>2 DEF Outranked
      <4>2. d # e
        BY <1>2, <4>1
      <4> QED
        BY <1>9, <3>2, <4>1, <4>2
    <3> QED
      BY <1>11, <3>1, <3>2
  <2> QED
    BY <2>1, <2>2 DEF Outranked
<1>14. Rising'
  <2>0. \A u \in Verdicts : earlier[u] \subseteq Verdicts
    BY <1>1 DEF VerdictTypes
  <2>1. \A u \in Verdicts : /\ verdict'[u].version = verdict[u].version
                            /\ verdict'[u].rank = verdict[u].rank
                            /\ verdict'[u].blind = verdict[u].blind
                            /\ verdict'[u].at # "idle" => verdict[u].at # "idle"
                            /\ verdict[u].at = "done" => verdict'[u].at = "done"
    BY <1>2, <1>3, <1>8, <1>9
  <2> QED
    BY <1>1, <1>2, <2>0, <2>1 DEF Rising
<1> QED
  BY <1>12, <1>13, <1>14 DEF VerdictInv

\* Of two verdicts on a version, posted one after the other, the second counts, at
\* any setting of the clock (handleCveDispositionSub).
THEOREM VerdictsRise == Verdict!VerdictAssumption /\ Verdict!Spec => []Verdict!LastWordCounts
<1> SUFFICES ASSUME Verdict!VerdictAssumption PROVE Verdict!Spec => []Verdict!LastWordCounts
  OBVIOUS
<1>1. Verdict!Init => VerdictInv
  <2> SUFFICES ASSUME Verdict!Init PROVE VerdictInv
    OBVIOUS
  <2>1. Verdict!IdleVerdict \in VerdictSet /\ Verdict!IdleVerdict.at = "idle"
    BY DEF Verdict!IdleVerdict, VerdictSet, Verdict!VerdictAssumption, Verdict!cveDispositionValues
  <2>2. Verdict!NoVerdict \in DisposedSet /\ Verdict!NoVerdict.by \notin Verdicts
    BY DEF Verdict!NoVerdict, DisposedSet, Verdict!VerdictAssumption, Verdict!cveDispositionValues
  <2>3. /\ ms = 1 /\ verdict = [d \in Verdicts |-> Verdict!IdleVerdict]
        /\ disposed = [v \in Versions |-> Verdict!NoVerdict]
        /\ earlier = [d \in Verdicts |-> {}]
    BY DEF Verdict!Init
  <2>4. VerdictTypes
    BY <2>1, <2>2, <2>3 DEF VerdictTypes
  <2>5. \A d \in Verdicts : verdict[d].at = "idle"
    BY <2>1, <2>3
  <2>6. \A v \in Versions : disposed[v].by \notin Verdicts
    BY <2>2, <2>3
  <2>7. Outranked /\ Rising
    BY <2>5, <2>6 DEF Outranked, Rising
  <2> QED
    BY <2>4, <2>7 DEF VerdictInv
<1>2. VerdictInv /\ [Verdict!Next]_Verdict!vars => VerdictInv'
  <2> SUFFICES ASSUME VerdictInv, [Verdict!Next]_Verdict!vars PROVE VerdictInv'
    OBVIOUS
  <2>1. CASE \E d \in Verdicts : Verdict!ReadVerdict(d) \/ Verdict!WriteVerdict(d)
    BY <2>1, VerdictIsRead, VerdictIsWritten
  <2>2. CASE Verdict!SetClock
    <3>1. ms' \in Nat /\ UNCHANGED <<disposed, verdict, earlier>>
      BY <2>2 DEF Verdict!SetClock, Verdict!VerdictAssumption
    <3> QED
      BY <3>1 DEF VerdictInv, VerdictTypes, Outranked, Rising
  <2>3. CASE UNCHANGED Verdict!vars
    BY <2>3 DEF Verdict!vars, VerdictInv, VerdictTypes, Outranked, Rising
  <2> QED
    BY <2>1, <2>2, <2>3 DEF Verdict!Next
<1>3. VerdictInv => Verdict!LastWordCounts
  <2> SUFFICES ASSUME VerdictInv, NEW d \in Verdicts, NEW e \in Verdicts,
                      verdict[d].at = "done", verdict[e].at = "done", d \in earlier[e],
                      verdict[d].version = verdict[e].version, ~ verdict[e].blind
               PROVE  disposed[verdict[e].version].by # d
    BY DEF Verdict!LastWordCounts, Verdict!Answered
  <2>1. PICK v \in Versions : v = verdict[e].version
    BY DEF VerdictInv, VerdictTypes, VerdictSet
  <2>2. verdict[d].rank < verdict[e].rank /\ verdict[e].rank <= disposed[v].rank
    BY <2>1 DEF VerdictInv, Rising, Outranked
  <2>3. disposed[v].by = d => verdict[d].rank = disposed[v].rank
    BY <2>1 DEF VerdictInv, Outranked
  <2>4. verdict[d].rank \in Nat /\ verdict[e].rank \in Nat /\ disposed[v].rank \in Nat
    BY DEF VerdictInv, VerdictTypes, VerdictSet, DisposedSet
  <2> QED
    BY <2>1, <2>2, <2>3, <2>4
<1> QED
  BY <1>1, <1>2, <1>3, PTL DEF Verdict!Spec

-----------------------------------------------------------------------------
(* Scans for vulnerabilities.                                              *)

\* What a scan is.
ScanSet == [at : {"idle", "fetch", "store", "collect", "ask", "record", "done"},
            known : SUBSET Shipped, rows : SUBSET Shipped, libs : SUBSET Libraries,
            found : SUBSET Libraries]
ScanTypes ==
    /\ scan \in [Scans -> ScanSet] /\ lockfiles \in [Shipped -> Nat] /\ together \in BOOLEAN
    /\ unlisted \in Nat
    /\ reported \subseteq Libraries
\* As long as no two were in their backfill at once, the one that is brings rows
\* for releases alone that it does not know of, and these have no lockfile but by a
\* scan that could not read the list: it or one before it.
Backfill ==
    ~ together =>
        /\ \A s, u \in Scans : scan[s].at \in {"fetch", "store"} /\ scan[u].at \in {"fetch", "store"}
               => s = u
        /\ \A s \in Scans :
               /\ scan[s].at \in {"fetch", "store"} =>
                      \A r \in Shipped \ scan[s].known : lockfiles[r] <= unlisted
               /\ scan[s].at = "store" => scan[s].rows \cap scan[s].known = {}
        /\ \A r \in Shipped : lockfiles[r] <= 1 + unlisted
ScanInv == ScanTypes /\ Backfill

\* A scan goes on.
LEMMA ScanReplaced ==
  ASSUME ScanTypes, NEW s \in Scans, NEW c \in ScanSet, scan' = [scan EXCEPT ![s] = c]
  PROVE  /\ scan' \in [Scans -> ScanSet] /\ scan'[s] = c
         /\ \A u \in Scans : u # s => scan'[u] = scan[u]
BY DEF ScanTypes

\* Outside of its backfill nothing of that matters.
LEMMA ScanGoesOn ==
  ASSUME ScanInv, NEW s \in Scans, NEW c \in ScanSet, scan' = [scan EXCEPT ![s] = c],
         c.at \notin {"fetch", "store"}, UNCHANGED <<lockfiles, together, reported, unlisted>>
  PROVE  ScanInv'
<1>1. ScanTypes /\ Backfill
  BY DEF ScanInv
<1>2. /\ scan' \in [Scans -> ScanSet] /\ scan'[s] = c
      /\ \A u \in Scans : u # s => scan'[u] = scan[u]
  BY <1>1, ScanReplaced
<1>3. \A u \in Scans : scan'[u].at \in {"fetch", "store"} => scan'[u] = scan[u]
  BY <1>2
<1>4. ScanTypes'
  BY <1>1, <1>2 DEF ScanTypes
<1>5. Backfill'
  BY <1>1, <1>3 DEF Backfill
<1> QED
  BY <1>4, <1>5 DEF ScanInv

\* The releases that have a lockfile are listed.
LEMMA ListKeeps ==
  ASSUME ScanInv, NEW s \in Scans, Scan!ListReleases(s)
  PROVE  ScanInv'
<1>1. ScanTypes /\ Backfill /\ scan[s] \in ScanSet
  BY DEF ScanInv, ScanTypes
<1>2. PICK known \in SUBSET Shipped :
          /\ scan' = [scan EXCEPT ![s].at = "fetch", ![s].known = known]
          /\ \/ known = {r \in Shipped : lockfiles[r] > 0} /\ unlisted' = unlisted
             \/ unlisted' = unlisted + 1
  <2>1. CASE /\ scan' = [scan EXCEPT ![s].at = "fetch",
                                     ![s].known = {r \in Shipped : lockfiles[r] > 0}]
             /\ unlisted' = unlisted
    <3>1. {r \in Shipped : lockfiles[r] > 0} \in SUBSET Shipped
      OBVIOUS
    <3> QED
      BY <2>1, <3>1
  <2>2. CASE unlisted' = unlisted + 1 /\ scan' = [scan EXCEPT ![s].at = "fetch"]
    <3>1. /\ scan[s].known \in SUBSET Shipped
          /\ scan' = [scan EXCEPT ![s].at = "fetch", ![s].known = scan[s].known]
      BY <1>1, <2>2 DEF ScanSet, ScanTypes
    <3> QED
      BY <2>2, <3>1
  <2> QED
    BY <2>1, <2>2 DEF Scan!ListReleases
<1>3. PICK c : c = [scan[s] EXCEPT !.at = "fetch", !.known = known]
  OBVIOUS
<1>4. c \in ScanSet /\ c.at = "fetch" /\ c.known = known
  BY <1>1, <1>3 DEF ScanSet
<1>5. /\ scan' = [scan EXCEPT ![s] = c] /\ UNCHANGED <<lockfiles, reported>>
      /\ together' = (together \/ Scan!Backfilling # {})
  BY <1>1, <1>2, <1>3 DEF Scan!ListReleases, Scan!tables, ScanTypes
<1>6. /\ scan' \in [Scans -> ScanSet] /\ scan'[s] = c
      /\ \A u \in Scans : u # s => scan'[u] = scan[u]
  BY <1>1, <1>4, <1>5, ScanReplaced
<1>7. ScanTypes'
  BY <1>1, <1>2, <1>5, <1>6 DEF ScanTypes
<1>8. Backfill'
  <2> SUFFICES ASSUME ~ together' PROVE Backfill'
    BY DEF Backfill
  <2>1. ~ together /\ \A u \in Scans : scan[u].at \notin {"fetch", "store"}
    BY <1>5 DEF Scan!Backfilling
  <2>2. \A u \in Scans : scan'[u].at \in {"fetch", "store"} => u = s
    BY <1>6, <2>1
  <2>3. unlisted \in Nat /\ \A r \in Shipped : lockfiles[r] \in Nat /\ lockfiles[r] <= 1 + unlisted
    BY <1>1, <2>1 DEF ScanTypes, Backfill
  <2>4. \A r \in Shipped : /\ lockfiles[r] <= 1 + unlisted'
                           /\ r \notin known => lockfiles[r] <= unlisted'
    <3> TAKE r \in Shipped
    <3>1. lockfiles[r] \in Nat /\ lockfiles[r] <= 1 + unlisted
      BY <2>3
    <3>2. CASE known = {q \in Shipped : lockfiles[q] > 0} /\ unlisted' = unlisted
      BY <2>3, <3>1, <3>2
    <3>3. CASE unlisted' = unlisted + 1
      BY <2>3, <3>1, <3>3
    <3> QED
      BY <1>2, <3>2, <3>3
  <2> QED
    BY <1>4, <1>5, <1>6, <2>2, <2>4 DEF Backfill
<1> QED
  BY <1>7, <1>8 DEF ScanInv

\* The others are fetched.
LEMMA FetchKeeps ==
  ASSUME ScanInv, NEW s \in Scans, Scan!FetchReleases(s)
  PROVE  ScanInv'
<1>1. ScanTypes /\ Backfill /\ scan[s] \in ScanSet
  BY DEF ScanInv, ScanTypes
<1>2. PICK got \in SUBSET (Shipped \ scan[s].known) :
          scan' = [scan EXCEPT ![s].at = "store", ![s].rows = got]
  BY DEF Scan!FetchReleases
<1>3. PICK c : c = [scan[s] EXCEPT !.at = "store", !.rows = got]
  OBVIOUS
<1>4. c \in ScanSet /\ c.at = "store" /\ c.known = scan[s].known /\ c.rows = got
  BY <1>1, <1>3 DEF ScanSet
<1>5. /\ scan' = [scan EXCEPT ![s] = c] /\ UNCHANGED <<lockfiles, reported, together, unlisted>>
      /\ scan[s].at = "fetch"
  BY <1>1, <1>2, <1>3 DEF Scan!FetchReleases, Scan!tables, ScanTypes
<1>6. /\ scan' \in [Scans -> ScanSet] /\ scan'[s] = c
      /\ \A u \in Scans : u # s => scan'[u] = scan[u]
  BY <1>1, <1>4, <1>5, ScanReplaced
<1>7. ScanTypes'
  BY <1>1, <1>5, <1>6 DEF ScanTypes
<1>8. Backfill'
  <2>1. \A u \in Scans : scan'[u].at \in {"fetch", "store"} <=> scan[u].at \in {"fetch", "store"}
    BY <1>4, <1>5, <1>6
  <2>2. \A u \in Scans : scan'[u].known = scan[u].known
    BY <1>4, <1>6
  <2>3. \A u \in Scans : scan'[u].at = "store" =>
            (u = s /\ scan'[u].rows \cap scan[u].known = {})
            \/ (scan[u].at = "store" /\ scan'[u].rows = scan[u].rows)
    BY <1>4, <1>6
  <2> QED
    BY <1>1, <1>5, <2>1, <2>2, <2>3 DEF Backfill
<1> QED
  BY <1>7, <1>8 DEF ScanInv

\* What was fetched is stored.
LEMMA StoreKeeps ==
  ASSUME ScanInv, NEW s \in Scans, Scan!StoreLockfiles(s)
  PROVE  ScanInv'
<1>1. ScanTypes /\ Backfill /\ scan[s] \in ScanSet
  BY DEF ScanInv, ScanTypes
<1>2. PICK c : c = [scan[s] EXCEPT !.at = "collect"]
  OBVIOUS
<1>3. c \in ScanSet /\ c.at = "collect"
  BY <1>1, <1>2 DEF ScanSet
<1>4. /\ scan' = [scan EXCEPT ![s] = c] /\ UNCHANGED <<reported, together, unlisted>>
      /\ scan[s].at = "store"
  BY <1>1, <1>2 DEF Scan!StoreLockfiles, ScanTypes
<1>5. CASE lockfiles' = lockfiles
  BY <1>3, <1>4, <1>5, ScanGoesOn
<1>6. CASE lockfiles' = [r \in Shipped |-> lockfiles[r] + IF r \in scan[s].rows THEN 1 ELSE 0]
  <2>1. /\ scan' \in [Scans -> ScanSet] /\ scan'[s] = c
        /\ \A u \in Scans : u # s => scan'[u] = scan[u]
    BY <1>1, <1>3, <1>4, ScanReplaced
  <2>2. \A r \in Shipped :
            /\ lockfiles[r] \in Nat
            /\ lockfiles'[r] = lockfiles[r] + IF r \in scan[s].rows THEN 1 ELSE 0
    BY <1>1, <1>6 DEF ScanTypes
  <2>3. lockfiles' \in [Shipped -> Nat]
    BY <1>6, <2>2
  <2>4. ScanTypes'
    BY <1>1, <1>4, <2>1, <2>3 DEF ScanTypes
  <2>5. Backfill'
    <3> SUFFICES ASSUME ~ together PROVE Backfill'
      BY <1>4 DEF Backfill
    <3>1. \A u \in Scans : scan'[u].at \notin {"fetch", "store"}
      BY <1>1, <1>3, <1>4, <2>1 DEF Backfill
    <3>2. \A r \in scan[s].rows : r \in Shipped /\ lockfiles[r] <= unlisted
      BY <1>1, <1>4 DEF Backfill, ScanSet
    <3>3. \A r \in Shipped : lockfiles'[r] <= 1 + unlisted
      <4>1. unlisted \in Nat
        BY <1>1 DEF ScanTypes
      <4> QED
        BY <1>1, <2>2, <3>2, <4>1 DEF Backfill
    <3> QED
      BY <1>4, <3>1, <3>3 DEF Backfill
  <2> QED
    BY <2>4, <2>5 DEF ScanInv
<1> QED
  BY <1>5, <1>6 DEF Scan!StoreLockfiles

\* Libraries are collected and asked about, findings are recorded.
LEMMA AskingKeeps ==
  ASSUME ScanInv, NEW s \in Scans, \A r \in Shipped : LockedLib[r] \in Libraries,
         Scan!Collect(s) \/ Scan!AskOsv(s) \/ Scan!RecordFindings(s)
  PROVE  ScanInv'
<1>1. ScanTypes /\ scan[s] \in ScanSet /\ reported \subseteq Libraries
  BY DEF ScanInv, ScanTypes
<1>2. CASE Scan!Collect(s)
  <2>1. PICK libs \in Scan!collectLibraryInventory :
            scan' = [scan EXCEPT ![s].at = IF libs = {} THEN "done" ELSE "ask", ![s].libs = libs]
    BY <1>2 DEF Scan!Collect
  <2>2. libs \subseteq Libraries
    BY <1>1 DEF Scan!collectLibraryInventory, Scan!InLockfiles
  <2>3. PICK c : c = [scan[s] EXCEPT !.at = IF libs = {} THEN "done" ELSE "ask", !.libs = libs]
    OBVIOUS
  <2>4. c \in ScanSet /\ c.at \notin {"fetch", "store"}
    BY <1>1, <2>2, <2>3 DEF ScanSet
  <2>5. scan' = [scan EXCEPT ![s] = c] /\ UNCHANGED <<lockfiles, together, reported, unlisted>>
    BY <1>1, <1>2, <2>1, <2>3 DEF ScanTypes, Scan!Collect, Scan!tables
  <2> QED
    BY <2>4, <2>5, ScanGoesOn
<1>3. CASE Scan!AskOsv(s)
  <2>1. PICK vulnerable \in SUBSET scan[s].libs :
            scan' = [scan EXCEPT ![s].at = "record", ![s].found = vulnerable]
    BY <1>3 DEF Scan!AskOsv
  <2>2. PICK c : c = [scan[s] EXCEPT !.at = "record", !.found = vulnerable]
    OBVIOUS
  <2>3. c \in ScanSet /\ c.at \notin {"fetch", "store"}
    BY <1>1, <2>2 DEF ScanSet
  <2>4. scan' = [scan EXCEPT ![s] = c] /\ UNCHANGED <<lockfiles, together, reported, unlisted>>
    BY <1>1, <1>3, <2>1, <2>2 DEF ScanTypes, Scan!AskOsv, Scan!tables
  <2> QED
    BY <2>3, <2>4, ScanGoesOn
<1>4. CASE Scan!RecordFindings(s)
  <2>1. PICK c : c = [scan[s] EXCEPT !.at = "done"]
    OBVIOUS
  <2>2. c \in ScanSet /\ c.at \notin {"fetch", "store"}
    BY <1>1, <2>1 DEF ScanSet
  <2>3. scan' = [scan EXCEPT ![s] = c] /\ UNCHANGED <<lockfiles, together, reported, unlisted>>
    BY <1>1, <1>4, <2>1 DEF ScanTypes, Scan!RecordFindings
  <2> QED
    BY <2>2, <2>3, ScanGoesOn
<1> QED
  BY <1>2, <1>3, <1>4

\* A release is backfilled once by scans that do not overlap in it, and once more by
\* each that could not read which releases have a lockfile, whatever else fails and
\* for any number of scans and releases (fetchReleaseDepsFromGithub).
THEOREM ScansBackfillOnce == Scan!ScanAssumption /\ Scan!Spec => []Scan!BackfilledOnce
<1> SUFFICES ASSUME Scan!ScanAssumption PROVE Scan!Spec => []Scan!BackfilledOnce
  OBVIOUS
<1>1. Scan!Init => ScanInv
  <2> SUFFICES ASSUME Scan!Init PROVE ScanInv
    OBVIOUS
  <2>1. Scan!IdleScan \in ScanSet /\ Scan!IdleScan.at = "idle"
    BY DEF Scan!IdleScan, ScanSet
  <2>2. /\ scan = [s \in Scans |-> Scan!IdleScan] /\ lockfiles = [r \in Shipped |-> 0]
        /\ together = FALSE /\ reported = {} /\ unlisted = 0
    BY DEF Scan!Init
  <2>3. ScanTypes
    BY <2>1, <2>2 DEF ScanTypes
  <2>4. Backfill
    BY <2>1, <2>2 DEF Backfill
  <2> QED
    BY <2>3, <2>4 DEF ScanInv
<1>2. ScanInv /\ [Scan!Next]_Scan!vars => ScanInv'
  <2> SUFFICES ASSUME ScanInv, [Scan!Next]_Scan!vars PROVE ScanInv'
    OBVIOUS
  <2>1. ASSUME NEW s \in Scans,
               \/ Scan!ListReleases(s) \/ Scan!FetchReleases(s) \/ Scan!StoreLockfiles(s)
               \/ Scan!Collect(s) \/ Scan!AskOsv(s) \/ Scan!RecordFindings(s)
        PROVE  ScanInv'
    <3>1. \A r \in Shipped : LockedLib[r] \in Libraries
      BY DEF Scan!ScanAssumption
    <3> QED
      BY <2>1, <3>1, ListKeeps, FetchKeeps, StoreKeeps, AskingKeeps
  <2>2. CASE \E l \in Libraries : Scan!Report(l)
    <3>1. /\ UNCHANGED <<lockfiles, scan, together, unlisted>>
          /\ ScanInv => reported' \subseteq Libraries
      BY <2>2 DEF Scan!Report, ScanInv, ScanTypes
    <3> QED
      BY <3>1 DEF ScanInv, ScanTypes, Backfill
  <2>3. CASE UNCHANGED Scan!vars
    BY <2>3 DEF Scan!vars, Scan!tables, ScanInv, ScanTypes, Backfill
  <2> QED
    BY <2>1, <2>2, <2>3 DEF Scan!Next
<1>3. ScanInv => Scan!BackfilledOnce
  BY DEF ScanInv, Backfill, Scan!BackfilledOnce
<1> QED
  BY <1>1, <1>2, <1>3, PTL DEF Scan!Spec

-----------------------------------------------------------------------------
(* The key a CI pushes with.                                               *)

\* Keys are numbered from 1 as they are made; an answered key was made, and
\* one that is over was answered.
CallSet == [at : {"idle", "hash", "expiry", "target", "configured", "key", "days", "verdict"},
            key : Nat, ends : SUBSET Nat, wrote : BOOLEAN, route : {"", "app", "release", "ingest"},
            conf : BOOLEAN, hash : Nat, dead : SUBSET Nat, shut : BOOLEAN, blind : BOOLEAN]
KeyTypes ==
    /\ ciHash \in Nat /\ minted \in Nat /\ caller \in [Callers -> CallSet]
    /\ over \subseteq told /\ told \subseteq 1..minted

\* A form under way has a key of its own that no answer has shown, and what it
\* will end was answered before; once it wrote its hash, none of those is in force.
Forms ==
    /\ \A c \in Callers : caller[c].ends \subseteq told
    /\ \A c \in Callers : caller[c].at \in {"hash", "expiry"} =>
           /\ caller[c].key <= minted /\ caller[c].key \notin told
           /\ caller[c].at = "expiry" /\ caller[c].wrote => ciHash \notin caller[c].ends
    /\ \A c, d \in Callers :
           /\ c # d /\ caller[c].key # 0
           /\ caller[c].at \in {"hash", "expiry"} /\ caller[d].at \in {"hash", "expiry"}
           => caller[c].key # caller[d].key

\* No key that is over is in force, nor one a gate read after it came.
Ended ==
    /\ ciHash \notin over
    /\ \A c \in Callers : caller[c].dead \subseteq over /\ caller[c].hash \notin caller[c].dead

\* A gate that counts as shut will find a key, or has found it, or could not look.
Gates ==
    \A c \in Callers : caller[c].shut /\ Ci!Managed(caller[c].route) =>
        /\ caller[c].at \in {"target", "configured"} =>
               /\ ciHash # 0
               /\ \A d \in Callers : caller[d].at = "hash" => caller[d].key # 0
        /\ caller[c].at \in {"key", "days", "verdict"} => caller[c].conf \/ caller[c].blind

KeyInv == KeyTypes /\ Forms /\ Ended /\ Gates

\* What the gate lets through.
LEMMA KeyInvGoverns == KeyInv => Ci!KeysGovernPushes
<1> SUFFICES ASSUME KeyInv, NEW c \in Callers, Ci!Admitted(c)
             PROVE  /\ Ci!ManagedOK(c) => caller[c].key \notin caller[c].dead
                    /\ Ci!Managed(caller[c].route) /\ caller[c].shut =>
                           Ci!ManagedOK(c) \/ (caller[c].blind /\ ~ StaticKey)
  BY DEF Ci!KeysGovernPushes
<1>1. Ci!ManagedOK(c) => caller[c].key \notin caller[c].dead
  BY DEF KeyInv, Ended, Ci!ManagedOK
<1>2. Ci!Managed(caller[c].route) /\ caller[c].shut =>
          Ci!ManagedOK(c) \/ (caller[c].blind /\ ~ StaticKey)
  BY DEF KeyInv, Gates, Ci!Admitted, Ci!At
<1> QED
  BY <1>1, <1>2

\* The call of one caller is replaced.
LEMMA CallReplaced ==
  ASSUME KeyTypes, NEW c \in Callers, NEW e \in CallSet, Ci!Go(c, e)
  PROVE  /\ caller' \in [Callers -> CallSet] /\ caller'[c] = e
         /\ \A d \in Callers : d # c => caller'[d] = caller[d]
BY DEF KeyTypes, Ci!Go

\* What the gate's steps for a push do.
GateMoves(c) ==
    /\ c \in Callers /\ UNCHANGED <<ciHash, minted, told, over>>
    /\ caller' \in [Callers -> CallSet]
    /\ \A d \in Callers : d # c => caller'[d] = caller[d]
    /\ caller[c].at \notin {"hash", "expiry"} /\ caller'[c].at \notin {"hash", "expiry"}
    /\ caller'[c].ends \subseteq told
    /\ caller'[c].dead \subseteq over /\ caller'[c].hash \notin caller'[c].dead
    /\ caller'[c].shut /\ Ci!Managed(caller'[c].route) =>
           /\ caller'[c].at \in {"target", "configured"} =>
                  /\ ciHash # 0
                  /\ \A d \in Callers : caller[d].at = "hash" => caller[d].key # 0
           /\ caller'[c].at \in {"key", "days", "verdict"} => caller'[c].conf \/ caller'[c].blind

\* They keep the invariant.
LEMMA GateMovesKeep ==
  ASSUME KeyInv, NEW c \in Callers, GateMoves(c)
  PROVE  KeyInv'
<1>1. /\ KeyTypes /\ Forms /\ Ended /\ Gates
      /\ ciHash' = ciHash /\ minted' = minted /\ told' = told /\ over' = over
      /\ \A d \in Callers : d # c => caller'[d] = caller[d]
      /\ caller[c].at \notin {"hash", "expiry"} /\ caller'[c].at \notin {"hash", "expiry"}
  BY DEF KeyInv, GateMoves
<1>2. KeyTypes'
  BY <1>1 DEF KeyTypes, GateMoves
<1>3. Forms'
  <2>1. \A d \in Callers : caller'[d].ends \subseteq told
    BY <1>1 DEF Forms, GateMoves
  <2>2. \A d \in Callers : caller'[d].at \in {"hash", "expiry"} => d # c
    BY <1>1
  <2> QED
    BY <1>1, <2>1, <2>2 DEF Forms
<1>4. Ended'
  BY <1>1 DEF Ended, GateMoves
<1>5. Gates'
  <2>1. \A d \in Callers : caller'[d].at = "hash" => caller[d].at = "hash" /\ caller'[d] = caller[d]
    BY <1>1
  <2>2. ASSUME NEW d \in Callers, caller'[d].shut, Ci!Managed(caller'[d].route)
        PROVE  /\ caller'[d].at \in {"target", "configured"} =>
                      /\ ciHash # 0
                      /\ \A b \in Callers : caller[b].at = "hash" => caller[b].key # 0
               /\ caller'[d].at \in {"key", "days", "verdict"} => caller'[d].conf \/ caller'[d].blind
    BY <1>1, <2>2 DEF Gates, GateMoves, Ci!Managed
  <2> QED
    BY <1>1, <2>1, <2>2 DEF Gates, Ci!Managed
<1> QED
  BY <1>2, <1>3, <1>4, <1>5 DEF KeyInv

\* The gate's steps are that.
LEMMA GateSteps ==
  ASSUME KeyInv, NEW c \in Callers,
         \/ Ci!enforceAPIKey(c) \/ Ci!resolveManagedCITargetAppID(c) \/ Ci!ciPushStatus(c)
         \/ Ci!readHash(c) \/ Ci!isValidCiPushAPIKey(c) \/ Ci!answerPush(c)
  PROVE  GateMoves(c)
<1>1. KeyTypes /\ Forms /\ Ended /\ Gates
  BY DEF KeyInv
<1>2. /\ caller[c] \in CallSet /\ ciHash \in Nat /\ over \subseteq Nat /\ told \subseteq Nat
      /\ 0 \notin over
  BY <1>1 DEF KeyTypes
<1>3. /\ caller[c].ends \subseteq told /\ caller[c].dead \subseteq over
      /\ caller[c].hash \notin caller[c].dead /\ ciHash \notin over
  BY <1>1 DEF Forms, Ended
<1>4. ASSUME NEW e \in CallSet, Ci!Go(c, e), UNCHANGED <<ciHash, minted, told, over>>,
             caller[c].at \notin {"hash", "expiry"}, e.at \notin {"hash", "expiry"},
             e.ends \subseteq told, e.dead \subseteq over, e.hash \notin e.dead,
             e.shut /\ Ci!Managed(e.route) =>
                 /\ e.at \in {"target", "configured"} =>
                        /\ ciHash # 0
                        /\ \A d \in Callers : caller[d].at = "hash" => caller[d].key # 0
                 /\ e.at \in {"key", "days", "verdict"} => e.conf \/ e.blind
      PROVE  GateMoves(c)
  <2>1. /\ caller' \in [Callers -> CallSet] /\ caller'[c] = e
        /\ \A d \in Callers : d # c => caller'[d] = caller[d]
    BY <1>1, <1>4, CallReplaced
  <2> QED
    BY <1>4, <2>1 DEF GateMoves
<1>5. CASE Ci!enforceAPIKey(c)
  <2>1. PICK k \in {0} \cup told, route \in {"app", "release", "ingest"} :
        Ci!Go(c, [Ci!NoCall EXCEPT !.at = IF Ci!Managed(route) THEN "target" ELSE "verdict",
                             !.key = k, !.route = route, !.dead = over, !.shut = Ci!Shut])
    BY <1>5 DEF Ci!enforceAPIKey
  <2> DEFINE b == Ci!Shut
             a == IF Ci!Managed(route) THEN "target" ELSE "verdict"
             e == [Ci!NoCall EXCEPT !.at = a, !.key = k, !.route = route, !.dead = over, !.shut = b]
  <2>2. Ci!Go(c, e) /\ caller[c].at = "idle" /\ UNCHANGED <<ciHash, minted, told, over>>
    BY <1>5, <2>1 DEF Ci!enforceAPIKey, Ci!At
  <2>3. b \in BOOLEAN
    BY DEF Ci!Shut
  <2>4. b => ciHash # 0 /\ \A d \in Callers : caller[d].at = "hash" => caller[d].key # 0
    BY DEF Ci!Shut, Ci!At
  <2> HIDE DEF b
  <2>5. a \in {"target", "verdict"} /\ (Ci!Managed(route) => a = "target")
    OBVIOUS
  <2> HIDE DEF a
  <2>6. k \in Nat /\ over \in SUBSET Nat
    BY <1>2
  <2>7. /\ e \in CallSet /\ e.at = a
        /\ e.ends = {} /\ e.dead = over /\ e.hash = 0 /\ e.shut = b /\ e.route = route
    BY <2>3, <2>5, <2>6 DEF CallSet, Ci!NoCall
  <2> HIDE DEF e
  <2> QED
    BY <1>2, <1>4, <2>2, <2>4, <2>5, <2>7
<1>6. CASE Ci!resolveManagedCITargetAppID(c)
  <2>1. caller[c].at = "target" /\ UNCHANGED <<ciHash, minted, told, over>>
    BY <1>6 DEF Ci!resolveManagedCITargetAppID, Ci!At
  <2> DEFINE e == [caller[c] EXCEPT !.at = "configured"]
             n == [caller[c] EXCEPT !.at = "verdict", !.blind = TRUE]
  <2>2. Ci!Go(c, e) \/ Ci!Go(c, n)
    BY <1>6 DEF Ci!resolveManagedCITargetAppID
  <2>3. /\ e \in CallSet /\ e.at = "configured" /\ e.ends = caller[c].ends /\ e.dead = caller[c].dead
        /\ e.hash = caller[c].hash /\ e.shut = caller[c].shut /\ e.route = caller[c].route
    BY <1>2 DEF CallSet
  <2>4. /\ n \in CallSet /\ n.at = "verdict" /\ n.ends = caller[c].ends /\ n.dead = caller[c].dead
        /\ n.hash = caller[c].hash /\ n.blind
    BY <1>2 DEF CallSet
  <2> HIDE DEF e, n
  <2>5. e.shut /\ Ci!Managed(e.route) =>
            ciHash # 0 /\ \A d \in Callers : caller[d].at = "hash" => caller[d].key # 0
    BY <1>1, <2>1, <2>3 DEF Gates
  <2> QED
    BY <1>3, <1>4, <2>1, <2>2, <2>3, <2>4, <2>5
<1>7. CASE Ci!ciPushStatus(c)
  <2>1. caller[c].at = "configured" /\ UNCHANGED <<ciHash, minted, told, over>>
    BY <1>7 DEF Ci!ciPushStatus, Ci!At
  <2> DEFINE e == [caller[c] EXCEPT !.at = "verdict"]
             g == [caller[c] EXCEPT !.at = IF caller[c].key = 0 THEN "verdict" ELSE "key",
                                    !.conf = TRUE]
             n == [caller[c] EXCEPT !.at = "verdict", !.blind = TRUE]
  <2>2. (ciHash = 0 /\ Ci!Go(c, e)) \/ Ci!Go(c, g) \/ Ci!Go(c, n)
    BY <1>7 DEF Ci!ciPushStatus
  <2>3. /\ e \in CallSet /\ e.at = "verdict" /\ e.ends = caller[c].ends /\ e.dead = caller[c].dead
        /\ e.hash = caller[c].hash /\ e.shut = caller[c].shut /\ e.route = caller[c].route
    BY <1>2 DEF CallSet
  <2>4. /\ n \in CallSet /\ n.at = "verdict" /\ n.ends = caller[c].ends /\ n.dead = caller[c].dead
        /\ n.hash = caller[c].hash /\ n.blind
    BY <1>2 DEF CallSet
  <2>5. /\ g \in CallSet /\ g.at \in {"verdict", "key"} /\ g.ends = caller[c].ends
        /\ g.dead = caller[c].dead /\ g.hash = caller[c].hash /\ g.conf
    BY <1>2 DEF CallSet
  <2> HIDE DEF e, g, n
  <2>6. e.shut /\ Ci!Managed(e.route) => ciHash # 0
    BY <1>1, <2>1, <2>3 DEF Gates
  <2> QED
    BY <1>3, <1>4, <2>1, <2>2, <2>3, <2>4, <2>5, <2>6
<1>8. CASE Ci!readHash(c)
  <2>1. caller[c].at = "key" /\ UNCHANGED <<ciHash, minted, told, over>>
    BY <1>8 DEF Ci!readHash, Ci!At
  <2> DEFINE e == [caller[c] EXCEPT !.at = "days", !.hash = ciHash]
             n == [caller[c] EXCEPT !.at = "verdict"]
  <2>2. Ci!Go(c, e) \/ Ci!Go(c, n)
    BY <1>8 DEF Ci!readHash
  <2>3. /\ e \in CallSet /\ e.at = "days" /\ e.ends = caller[c].ends /\ e.dead = caller[c].dead
        /\ e.hash = ciHash /\ e.shut = caller[c].shut /\ e.route = caller[c].route
        /\ e.conf = caller[c].conf /\ e.blind = caller[c].blind
    BY <1>2 DEF CallSet
  <2>4. /\ n \in CallSet /\ n.at = "verdict" /\ n.ends = caller[c].ends /\ n.dead = caller[c].dead
        /\ n.hash = caller[c].hash /\ n.shut = caller[c].shut /\ n.route = caller[c].route
        /\ n.conf = caller[c].conf /\ n.blind = caller[c].blind
    BY <1>2 DEF CallSet
  <2> HIDE DEF e, n
  <2>5. caller[c].shut /\ Ci!Managed(caller[c].route) => caller[c].conf \/ caller[c].blind
    BY <1>1, <2>1 DEF Gates
  <2> QED
    BY <1>3, <1>4, <2>1, <2>2, <2>3, <2>4, <2>5
<1>9. CASE Ci!isValidCiPushAPIKey(c)
  <2>1. caller[c].at = "days" /\ UNCHANGED <<ciHash, minted, told, over>>
    BY <1>9 DEF Ci!isValidCiPushAPIKey, Ci!At
  <2> DEFINE h == IF ciExpiry \in passed THEN 0 ELSE caller[c].hash
             e == [caller[c] EXCEPT !.at = "verdict", !.hash = h]
             n == [caller[c] EXCEPT !.at = "verdict"]
  <2>2. Ci!Go(c, e) \/ Ci!Go(c, n)
    BY <1>9 DEF Ci!isValidCiPushAPIKey
  <2>3. h \in {0, caller[c].hash} /\ h \in Nat
    BY <1>2 DEF CallSet
  <2> HIDE DEF h
  <2>4. /\ e \in CallSet /\ e.at = "verdict" /\ e.ends = caller[c].ends /\ e.dead = caller[c].dead
        /\ e.hash = h /\ e.shut = caller[c].shut /\ e.route = caller[c].route
        /\ e.conf = caller[c].conf /\ e.blind = caller[c].blind
    BY <1>2, <2>3 DEF CallSet
  <2>5. /\ n \in CallSet /\ n.at = "verdict" /\ n.ends = caller[c].ends /\ n.dead = caller[c].dead
        /\ n.hash = caller[c].hash /\ n.shut = caller[c].shut /\ n.route = caller[c].route
        /\ n.conf = caller[c].conf /\ n.blind = caller[c].blind
    BY <1>2 DEF CallSet
  <2> HIDE DEF e, n
  <2>6. caller[c].shut /\ Ci!Managed(caller[c].route) => caller[c].conf \/ caller[c].blind
    BY <1>1, <2>1 DEF Gates
  <2> QED
    BY <1>2, <1>3, <1>4, <2>1, <2>2, <2>3, <2>4, <2>5, <2>6
<1>10. CASE Ci!answerPush(c)
  <2>1. /\ caller[c].at = "verdict" /\ UNCHANGED <<ciHash, minted, told, over>>
        /\ Ci!Go(c, Ci!NoCall)
    BY <1>10 DEF Ci!answerPush, Ci!At
  <2>2. /\ Ci!NoCall \in CallSet /\ Ci!NoCall.at = "idle" /\ Ci!NoCall.ends = {}
        /\ Ci!NoCall.dead = {}
    BY DEF Ci!NoCall, CallSet
  <2> QED
    BY <1>4, <2>1, <2>2
<1> QED
  BY <1>5, <1>6, <1>7, <1>8, <1>9, <1>10

\* The steps of the forms keep the invariant.
LEMMA FormSteps ==
  ASSUME KeyInv, NEW c \in Callers,
         \/ Ci!rotateCiPushKey(c) \/ Ci!repoCiKeyRevoke(c) \/ Ci!writeHash(c) \/ Ci!writeExpiry(c)
  PROVE  KeyInv'
<1>1. KeyTypes /\ Forms /\ Ended /\ Gates
  BY DEF KeyInv
<1>2. /\ caller \in [Callers -> CallSet] /\ ciHash \in Nat /\ minted \in Nat
      /\ over \subseteq told /\ told \subseteq 1..minted
      /\ \A d \in Callers : caller[d].key \in Nat
  BY <1>1 DEF KeyTypes, CallSet
<1>3. CASE Ci!rotateCiPushKey(c)
  <2> DEFINE e == [Ci!NoCall EXCEPT !.at = "hash", !.key = minted + 1, !.ends = told]
  <2>1. /\ caller[c].at = "idle" /\ minted' = minted + 1 /\ Ci!Go(c, e)
        /\ ciHash' = ciHash /\ told' = told /\ over' = over
    BY <1>3 DEF Ci!rotateCiPushKey, Ci!At
  <2>2. /\ e \in CallSet /\ e.at = "hash" /\ e.key = minted + 1 /\ e.ends = told /\ e.dead = {}
        /\ e.shut = FALSE
    <3>1. minted + 1 \in Nat /\ told \in SUBSET Nat
      BY <1>2
    <3> QED
      BY <3>1 DEF CallSet, Ci!NoCall
  <2> HIDE DEF e
  <2>3. /\ caller' \in [Callers -> CallSet] /\ caller'[c] = e
        /\ \A d \in Callers : d # c => caller'[d] = caller[d]
    BY <1>1, <2>1, <2>2, CallReplaced
  <2>4. KeyTypes'
    BY <1>2, <2>1, <2>3 DEF KeyTypes
  <2>5. Forms'
    <3>1. \A d \in Callers : caller'[d].ends \subseteq told
      BY <1>1, <2>2, <2>3 DEF Forms
    <3>2. minted + 1 \notin told /\ minted + 1 # 0
      BY <1>2
    <3>3. \A d \in Callers : d # c /\ caller[d].at \in {"hash", "expiry"} => caller[d].key <= minted
      BY <1>1 DEF Forms
    <3>4. ASSUME NEW d \in Callers, caller'[d].at \in {"hash", "expiry"}
          PROVE  /\ caller'[d].key <= minted + 1 /\ caller'[d].key \notin told
                 /\ caller'[d].at = "expiry" /\ caller'[d].wrote => ciHash \notin caller'[d].ends
      BY <1>1, <1>2, <2>2, <2>3, <3>2, <3>4 DEF Forms
    <3>5. ASSUME NEW d \in Callers, NEW b \in Callers, d # b, caller'[d].key # 0,
                 caller'[d].at \in {"hash", "expiry"}, caller'[b].at \in {"hash", "expiry"}
          PROVE  caller'[d].key # caller'[b].key
      <4>1. CASE d = c
        BY <1>2, <2>2, <2>3, <3>3, <3>5, <4>1
      <4>2. CASE b = c
        BY <1>2, <2>2, <2>3, <3>3, <3>5, <4>2
      <4>3. CASE d # c /\ b # c
        BY <1>1, <2>3, <3>5, <4>3 DEF Forms
      <4> QED
        BY <4>1, <4>2, <4>3
    <3> QED
      BY <2>1, <3>1, <3>4, <3>5 DEF Forms
  <2>6. Ended'
    BY <1>1, <2>1, <2>2, <2>3 DEF Ended
  <2>7. Gates'
    BY <1>1, <1>2, <2>1, <2>2, <2>3 DEF Gates, Ci!Managed
  <2> QED
    BY <2>4, <2>5, <2>6, <2>7 DEF KeyInv
<1>4. CASE Ci!repoCiKeyRevoke(c)
  <2> DEFINE e == [Ci!NoCall EXCEPT !.at = "hash", !.ends = told]
             o(d) == [caller[d] EXCEPT !.shut = FALSE]
  <2>1. /\ caller[c].at = "idle" /\ minted' = minted
        /\ caller' = [d \in Callers |-> IF d = c THEN e ELSE o(d)]
        /\ ciHash' = ciHash /\ told' = told /\ over' = over
    BY <1>4 DEF Ci!repoCiKeyRevoke, Ci!At
  <2>2. /\ e \in CallSet /\ e.at = "hash" /\ e.key = 0 /\ e.ends = told /\ e.dead = {}
        /\ e.shut = FALSE
    <3>1. told \in SUBSET Nat
      BY <1>2
    <3> QED
      BY <3>1 DEF CallSet, Ci!NoCall
  <2>3. \A d \in Callers :
            /\ o(d) \in CallSet /\ o(d).at = caller[d].at /\ o(d).key = caller[d].key
            /\ o(d).ends = caller[d].ends /\ o(d).wrote = caller[d].wrote
            /\ o(d).dead = caller[d].dead /\ o(d).hash = caller[d].hash /\ o(d).shut = FALSE
    BY <1>2 DEF CallSet
  <2> HIDE DEF e, o
  <2>4. caller' \in [Callers -> CallSet] /\ caller'[c] = e
    BY <2>1, <2>2, <2>3
  <2>5. \A d \in Callers : d # c =>
            /\ caller'[d].at = caller[d].at /\ caller'[d].key = caller[d].key
            /\ caller'[d].ends = caller[d].ends /\ caller'[d].wrote = caller[d].wrote
            /\ caller'[d].dead = caller[d].dead /\ caller'[d].hash = caller[d].hash
    BY <2>1, <2>3
  <2>6. \A d \in Callers : ~ caller'[d].shut
    BY <2>1, <2>2, <2>3
  <2>7. KeyTypes'
    BY <1>2, <2>1, <2>4 DEF KeyTypes
  <2>8. Forms'
    <3>1. 0 \notin told
      BY <1>2
    <3> QED
      BY <1>1, <1>2, <2>1, <2>2, <2>4, <2>5, <3>1 DEF Forms
  <2>9. Ended'
    BY <1>1, <2>1, <2>2, <2>4, <2>5 DEF Ended
  <2>10. Gates'
    BY <2>6 DEF Gates
  <2> QED
    BY <2>7, <2>8, <2>9, <2>10 DEF KeyInv
<1>5. CASE Ci!writeHash(c)
  <2> DEFINE e == [caller[c] EXCEPT !.at = "expiry"]
             n == [caller[c] EXCEPT !.at = "expiry", !.wrote = FALSE]
  <2>1. /\ caller[c].at = "hash" /\ minted' = minted /\ told' = told /\ over' = over
        /\ \/ ciHash' = caller[c].key /\ Ci!Go(c, e)
           \/ ciHash' = ciHash /\ Ci!Go(c, n)
    BY <1>5 DEF Ci!writeHash, Ci!At
  <2>2. /\ caller[c] \in CallSet
        /\ caller[c].key <= minted /\ caller[c].key \notin told /\ caller[c].key \in Nat
    BY <1>1, <1>2, <2>1 DEF Forms
  <2>3. /\ e \in CallSet /\ e.at = "expiry" /\ e.key = caller[c].key /\ e.ends = caller[c].ends
        /\ e.dead = caller[c].dead /\ e.hash = caller[c].hash
    BY <2>2 DEF CallSet
  <2>4. /\ n \in CallSet /\ n.at = "expiry" /\ n.key = caller[c].key /\ n.ends = caller[c].ends
        /\ n.dead = caller[c].dead /\ n.hash = caller[c].hash /\ n.wrote = FALSE
    BY <2>2 DEF CallSet
  <2> HIDE DEF e, n
  <2>5. PICK x \in {e, n} : /\ Ci!Go(c, x)
                            /\ ciHash' = caller[c].key \/ (ciHash' = ciHash /\ ~ x.wrote)
    BY <2>1, <2>4
  <2>6. /\ x \in CallSet /\ x.at = "expiry" /\ x.key = caller[c].key /\ x.ends = caller[c].ends
        /\ x.dead = caller[c].dead /\ x.hash = caller[c].hash
    BY <2>3, <2>4
  <2>7. /\ caller' \in [Callers -> CallSet] /\ caller'[c] = x
        /\ \A d \in Callers : d # c => caller'[d] = caller[d]
    BY <1>1, <2>5, <2>6, CallReplaced
  <2>8. KeyTypes'
    BY <1>2, <2>1, <2>2, <2>5, <2>7 DEF KeyTypes
  <2>9. Forms'
    <3>1. \A d \in Callers : /\ caller'[d].ends = caller[d].ends /\ caller[d].ends \subseteq told
                             /\ caller'[d].key = caller[d].key
                             /\ caller'[d].at \in {"hash", "expiry"} <=>
                                    caller[d].at \in {"hash", "expiry"}
      BY <1>1, <2>1, <2>6, <2>7 DEF Forms
    <3>2. ASSUME NEW d \in Callers, caller'[d].at = "expiry", caller'[d].wrote
          PROVE  ciHash' \notin caller'[d].ends
      <4>1. CASE ciHash' = caller[c].key
        BY <2>2, <3>1, <4>1
      <4>2. CASE ciHash' = ciHash /\ ~ x.wrote
        BY <1>1, <2>7, <3>2, <4>2 DEF Forms
      <4> QED
        BY <2>5, <4>1, <4>2
    <3> QED
      BY <1>1, <2>1, <3>1, <3>2 DEF Forms
  <2>10. Ended'
    BY <1>1, <1>2, <2>1, <2>2, <2>5, <2>6, <2>7 DEF Ended
  <2>11. Gates'
    <3>1. \A d \in Callers : caller'[d].at = "hash" => d # c /\ caller'[d] = caller[d]
      BY <2>6, <2>7
    <3>2. ASSUME NEW d \in Callers, d # c, caller[d].shut, Ci!Managed(caller[d].route),
                 caller[d].at \in {"target", "configured"}
          PROVE  ciHash' # 0
      BY <1>1, <2>1, <2>5, <3>2 DEF Gates
    <3>3. caller'[c].at = "expiry"
      BY <2>6, <2>7
    <3> QED
      BY <1>1, <2>7, <3>1, <3>2, <3>3 DEF Gates, Ci!Managed
  <2> QED
    BY <2>8, <2>9, <2>10, <2>11 DEF KeyInv
<1>6. CASE Ci!writeExpiry(c)
  <2>1. /\ caller[c].at = "expiry" /\ minted' = minted /\ ciHash' = ciHash
        /\ told' = IF caller[c].key = 0 THEN told ELSE told \cup {caller[c].key}
        /\ over' = IF caller[c].wrote THEN over \cup caller[c].ends ELSE over
        /\ Ci!Go(c, Ci!NoCall)
    BY <1>6 DEF Ci!writeExpiry, Ci!At
  <2>2. /\ Ci!NoCall \in CallSet /\ Ci!NoCall.at = "idle" /\ Ci!NoCall.ends = {}
        /\ Ci!NoCall.dead = {} /\ Ci!NoCall.shut = FALSE
    BY DEF Ci!NoCall, CallSet
  <2> DEFINE e == Ci!NoCall
  <2>3. /\ caller' \in [Callers -> CallSet] /\ caller'[c] = e
        /\ \A d \in Callers : d # c => caller'[d] = caller[d]
    BY <1>1, <2>1, <2>2, CallReplaced
  <2>4. /\ caller[c].ends \subseteq told /\ caller[c].key <= minted /\ caller[c].key \in Nat
        /\ caller[c].wrote => ciHash \notin caller[c].ends
    BY <1>1, <1>2, <2>1 DEF Forms
  <2>5. told \subseteq told' /\ over \subseteq over' /\ over' \subseteq told /\ ciHash \notin over'
    BY <1>1, <1>2, <2>1, <2>4 DEF Ended
  <2>6. KeyTypes'
    <3>1. told' \subseteq 1..minted
      <4>1. caller[c].key # 0 => caller[c].key \in 1..minted
        BY <1>2, <2>4
      <4> QED
        BY <1>2, <2>1, <4>1
    <3>2. over' \subseteq told'
      BY <2>5
    <3> QED
      BY <1>2, <2>1, <2>3, <3>1, <3>2 DEF KeyTypes
  <2>7. Forms'
    <3>1. \A d \in Callers : caller'[d].at \in {"hash", "expiry"} =>
              d # c /\ caller'[d] = caller[d] /\ caller[d].at \in {"hash", "expiry"}
      BY <2>2, <2>3
    <3>2. \A d \in Callers : caller'[d].ends \subseteq told'
      BY <1>1, <2>2, <2>3, <2>5 DEF Forms
    <3>3. ASSUME NEW d \in Callers, caller'[d].at \in {"hash", "expiry"}
          PROVE  caller'[d].key \notin told'
      BY <1>1, <2>1, <3>1, <3>3 DEF Forms
    <3> QED
      BY <1>1, <2>1, <3>1, <3>2, <3>3 DEF Forms
  <2>8. Ended'
    BY <1>1, <2>1, <2>2, <2>3, <2>5 DEF Ended
  <2>9. Gates'
    BY <1>1, <2>1, <2>2, <2>3 DEF Gates, Ci!Managed
  <2> QED
    BY <2>6, <2>7, <2>8, <2>9 DEF KeyInv
<1> QED
  BY <1>3, <1>4, <1>5, <1>6

\* A push is not let through by a key that had been ended when it came, nor, where
\* a key was in force all along, without one, unless there is no static key and the
\* gate's own look-up of the application or its key failed; for any number of forms
\* and pushes that interleave and reads and writes that fail (enforceAPIKey).
THEOREM KeysGovern == Ci!Spec => []Ci!KeysGovernPushes
<1>1. Ci!Init => KeyInv
  <2> SUFFICES ASSUME Ci!Init PROVE KeyInv
    OBVIOUS
  <2>1. /\ Ci!NoCall \in CallSet /\ Ci!NoCall.at = "idle" /\ Ci!NoCall.ends = {}
        /\ Ci!NoCall.dead = {} /\ Ci!NoCall.shut = FALSE
    BY DEF Ci!NoCall, CallSet
  <2>2. /\ ciHash = 0 /\ minted = 0 /\ told = {} /\ over = {}
        /\ caller = [c \in Callers |-> Ci!NoCall]
    BY DEF Ci!Init
  <2>3. \A c \in Callers : caller[c] = Ci!NoCall
    BY <2>2
  <2>4. KeyTypes
    BY <2>1, <2>2 DEF KeyTypes
  <2>5. Forms
    BY <2>1, <2>2, <2>3 DEF Forms
  <2>6. Ended
    BY <2>1, <2>2, <2>3 DEF Ended
  <2>7. Gates
    BY <2>1, <2>3 DEF Gates
  <2> QED
    BY <2>4, <2>5, <2>6, <2>7 DEF KeyInv
<1>2. KeyInv /\ [Ci!Next]_(Ci!keyVars) => KeyInv'
  <2> SUFFICES ASSUME KeyInv, [Ci!Next]_(Ci!keyVars) PROVE KeyInv'
    OBVIOUS
  <2>1. CASE UNCHANGED <<ciHash, minted, caller, told, over>>
    BY <2>1 DEF KeyInv, KeyTypes, Forms, Ended, Gates, Ci!Managed
  <2>2. CASE Ci!Passes \/ UNCHANGED Ci!keyVars
    BY <2>1, <2>2 DEF Ci!Passes, Ci!keyVars
  <2>3. ASSUME NEW c \in Callers,
               \/ Ci!rotateCiPushKey(c) \/ Ci!repoCiKeyRevoke(c) \/ Ci!writeHash(c)
               \/ Ci!writeExpiry(c)
        PROVE  KeyInv'
    BY <2>3, FormSteps
  <2>4. ASSUME NEW c \in Callers,
               \/ Ci!enforceAPIKey(c) \/ Ci!resolveManagedCITargetAppID(c) \/ Ci!ciPushStatus(c)
               \/ Ci!readHash(c) \/ Ci!isValidCiPushAPIKey(c) \/ Ci!answerPush(c)
        PROVE  KeyInv'
    BY <2>4, GateSteps, GateMovesKeep
  <2> QED
    BY <2>2, <2>3, <2>4 DEF Ci!Next
<1> QED
  BY <1>1, <1>2, KeyInvGoverns, PTL DEF Ci!Spec

-----------------------------------------------------------------------------
(* Dashboards.                                                             *)

\* What a chart and a request are.
ChartSet == [live : BOOLEAN, rank : Nat, board : Boards \cup {"none"}, position : Nat]
SaverSet ==
    [at : {"idle"}]
    \cup [at : {"delete", "charts", "chart"}, id : {"none"}, board : Boards]
    \cup [at : {"tombstones"}, id : {"none"}, board : Boards, rank : Nat]
    \cup [at : {"insert", "remove"}, id : ChartIds, board : Boards, position : Nat]
BoardTypes ==
    /\ version \in Nat /\ saveFaults \in Nat /\ crossed \in BOOLEAN /\ DOMAIN boards = Boards
    /\ charts \in [ChartIds -> ChartSet] /\ saver \in [Savers -> SaverSet]
\* There is a highest position: above it nextChartPosition finds one that is free.
PositionsBounded ==
    \E n \in Nat : \A c \in ChartIds : charts[c].position <= n
\* Requests that do not cross are under way one at a time.
OneSaves ==
    ~ crossed => \A s, t \in Savers : saver[s].at # "idle" /\ saver[t].at # "idle" => s = t
\* Nobody else on the dashboard has the place that a request is about to take.
Reserved ==
    ~ crossed /\ saveFaults = 0 =>
        \A s \in Savers : saver[s].at = "insert" =>
            \A c \in Board!getCharts(saver[s].board) :
                c # saver[s].id => charts[c].position # saver[s].position
BoardInv == BoardTypes /\ PositionsBounded /\ OneSaves /\ Reserved /\ Board!PositionsApart

\* The charts of a dashboard are charts that are there.
LEMMA ChartsOfBoard ==
  ASSUME BoardTypes, NEW b
  PROVE  \A c : c \in Board!getCharts(b) <=> c \in ChartIds /\ charts[c].live /\ charts[c].board = b
BY DEF BoardTypes, Board!getCharts, Board!Live

\* A bounded set of numbers has a greatest.
LEMMA MaxExists ==
  ASSUME NEW n \in Nat, NEW T \in SUBSET (0..n), T # {}
  PROVE  \E i \in T : \A j \in T : j <= i
<1> DEFINE D == {n - i : i \in T}
           R == OpToRel(<, Nat)
<1>1. D \subseteq Nat /\ D # {}
  <2>1. PICK i \in T : TRUE
    OBVIOUS
  <2>2. n - i \in D
    BY <2>1
  <2>3. \A j \in 0..n : n - j \in Nat
    OBVIOUS
  <2> QED
    BY <2>2, <2>3
<1>2. IsWellFoundedOn(R, Nat)
  BY NatLessThanWellFounded
<1>3. \A a, b \in Nat : a < b => <<a, b>> \in R
  BY DEF OpToRel
<1> HIDE DEF R, D
<1>4. PICK d \in D : \A e \in D : ~ (<<e, d>> \in R)
  BY <1>1, <1>2, WFMin
<1>5. \A e \in D : d <= e
  <2> SUFFICES ASSUME NEW e \in D PROVE d <= e
    OBVIOUS
  <2>1. e \in Nat /\ d \in Nat
    BY <1>1
  <2>2. ~ e < d
    BY <1>3, <1>4, <2>1
  <2> QED
    BY <2>1, <2>2
<1>6. PICK i \in T : d = n - i
  BY DEF D
<1>7. \A j \in T : n - i <= n - j
  BY <1>5, <1>6 DEF D
<1> QED
  BY <1>7

\* nextChartPosition: one above the highest is above every chart of the dashboard.
LEMMA HighestPosition ==
  ASSUME BoardTypes, PositionsBounded, NEW b, Board!getCharts(b) # {}
  PROVE  /\ Board!Max(Board!Positions(b)) + 1 \in Nat
         /\ \A c \in Board!getCharts(b) :
                charts[c].position < Board!Max(Board!Positions(b)) + 1
<1> DEFINE T == Board!Positions(b)
<1>1. PICK n \in Nat : \A c \in ChartIds : charts[c].position <= n
  BY DEF PositionsBounded
<1>2. \A c \in Board!getCharts(b) : charts[c].position \in 0..n
  BY <1>1, ChartsOfBoard DEF BoardTypes, ChartSet
<1>3. T \in SUBSET (0..n) /\ T # {}
  BY <1>2 DEF Board!Positions
<1>4. \E i \in T : \A j \in T : i >= j
  <2>1. PICK i \in T : \A j \in T : j <= i
    BY <1>3, MaxExists
  <2>2. \A j \in T : i >= j
    BY <1>3, <2>1
  <2> QED
    BY <2>2
<1>5. \A c \in Board!getCharts(b) : charts[c].position \in T
  BY DEF Board!Positions
<1> HIDE DEF T
<1>6. Board!Max(T) \in T /\ \A j \in T : Board!Max(T) >= j
  BY <1>4 DEF Board!Max
<1>7. Board!Max(T) \in Nat
  <2>1. Board!Max(T) \in 0..n
    BY <1>3, <1>6
  <2> QED
    BY <2>1
<1>8. \A c \in Board!getCharts(b) : charts[c].position < Board!Max(T) + 1
  BY <1>2, <1>5, <1>6, <1>7
<1> QED
  BY <1>7, <1>8 DEF T

\* A request goes on, and no chart changes.
LEMMA SaverGoesOn ==
  ASSUME BoardInv, NEW s \in Savers, NEW c \in SaverSet, saver' = [saver EXCEPT ![s] = c],
         charts' = charts, DOMAIN boards' = DOMAIN boards,
         version' \in Nat, saveFaults' \in Nat, crossed' \in BOOLEAN,
         saveFaults' = 0 => saveFaults = 0,
         ~ crossed' => /\ ~ crossed
                       /\ saver[s].at # "idle" \/ \A t \in Savers \ {s} : saver[t].at = "idle",
         ~ crossed /\ saveFaults' = 0 /\ c.at = "insert" =>
             \A d \in Board!getCharts(c.board) : d # c.id => charts[d].position # c.position
  PROVE  BoardInv'
<1>1. BoardTypes /\ OneSaves /\ Reserved
  BY DEF BoardInv
<1>2. /\ saver' \in [Savers -> SaverSet] /\ saver'[s] = c
      /\ \A t \in Savers : t # s => saver'[t] = saver[t]
  BY <1>1 DEF BoardTypes
<1>3. BoardTypes'
  BY <1>1, <1>2 DEF BoardTypes
<1>4. PositionsBounded'
  BY DEF BoardInv, PositionsBounded
<1>5. OneSaves'
  BY <1>1, <1>2 DEF OneSaves
<1>6. c.at = "insert" /\ ~ crossed /\ saveFaults' = 0 =>
          \A d \in Board!Live(charts) :
              charts[d].board = c.board /\ d # c.id => charts[d].position # c.position
  BY DEF Board!getCharts
<1>7. Reserved'
  <2> SUFFICES ASSUME ~ crossed', saveFaults' = 0, NEW t \in Savers, saver'[t].at = "insert",
                      NEW d, d \in Board!getCharts(saver[t].board)', d # saver'[t].id
               PROVE  charts'[d].position # saver'[t].position
    BY DEF Reserved
  <2>1. d \in {x \in Board!Live(charts) : charts[x].board = saver'[t].board}
    BY DEF Board!getCharts, Board!Live
  <2>2. CASE t = s
    BY <1>2, <1>6, <2>1, <2>2
  <2>3. CASE t # s
    BY <1>1, <1>2, <2>1, <2>3 DEF Reserved, Board!getCharts
  <2> QED
    BY <2>2, <2>3
<1>8. Board!PositionsApart'
  BY DEF BoardInv, Board!PositionsApart, Board!Live
<1> QED
  BY <1>3, <1>4, <1>5, <1>7, <1>8 DEF BoardInv

\* The last step of a request, which may change charts.
LEMMA SaverEnds ==
  ASSUME BoardInv, NEW s \in Savers, saver[s].at # "idle",
         saver' = [saver EXCEPT ![s] = Board!Idle],
         UNCHANGED <<version, boards, saveFaults, crossed>>,
         charts' \in [ChartIds -> ChartSet],
         NEW m \in Nat, \A c \in ChartIds : charts'[c].position \in {charts[c].position, m},
         Board!PositionsApart'
  PROVE  BoardInv'
<1>1. BoardTypes /\ OneSaves /\ PositionsBounded
  BY DEF BoardInv
<1>2. Board!Idle \in SaverSet /\ Board!Idle.at = "idle"
  BY DEF Board!Idle, SaverSet
<1>3. /\ saver' \in [Savers -> SaverSet] /\ saver'[s].at = "idle"
      /\ \A t \in Savers : t # s => saver'[t] = saver[t]
  BY <1>1, <1>2 DEF BoardTypes
<1>4. BoardTypes'
  BY <1>1, <1>3 DEF BoardTypes
<1>5. OneSaves'
  BY <1>1, <1>3 DEF OneSaves
<1>6. Reserved'
  BY <1>1, <1>3 DEF OneSaves, Reserved
<1>7. PositionsBounded'
  <2>1. PICK n \in Nat : \A c \in ChartIds : charts[c].position <= n
    BY <1>1 DEF PositionsBounded
  <2>2. \A c \in ChartIds : charts[c].position \in Nat
    BY <1>1 DEF BoardTypes, ChartSet
  <2>3. \A c \in ChartIds : charts'[c].position <= n + m
    BY <2>1, <2>2
  <2>4. n + m \in Nat
    OBVIOUS
  <2> QED
    BY <2>3, <2>4 DEF PositionsBounded
<1> QED
  BY <1>4, <1>5, <1>6, <1>7 DEF BoardInv

\* The steps of a request that change no chart.
LEMMA SaverSteps ==
  ASSUME BoardInv, NEW s \in Savers,
         \/ Board!handleDashboardsFormSub(s) \/ Board!deleteDashboard(s)
         \/ Board!nextChartPosition(s) \/ Board!findChart(s) \/ Board!cloneChart(s)
  PROVE  BoardInv'
<1>1. BoardTypes /\ PositionsBounded
  BY DEF BoardInv
<1>2. saver[s] \in SaverSet /\ version \in Nat /\ saveFaults \in Nat /\ crossed \in BOOLEAN
  BY <1>1 DEF BoardTypes
<1>3. CASE Board!handleDashboardsFormSub(s)
  <2>1. PICK b, j : /\ b \in Board!Live(boards) /\ j \in {"delete", "charts", "chart"}
                    /\ Board!Enter(s, [at |-> j, id |-> "none", board |-> b])
    BY <1>3 DEF Board!handleDashboardsFormSub
  <2> DEFINE c == [at |-> j, id |-> "none", board |-> b]
  <2>2. c \in SaverSet /\ c.at # "insert"
    <3>1. b \in Boards
      BY <1>1, <2>1 DEF Board!Live, BoardTypes
    <3> QED
      BY <2>1, <3>1 DEF SaverSet
  <2>3. /\ saver' = [saver EXCEPT ![s] = c]
        /\ crossed' = (crossed \/ Board!Busy(s) # {})
    BY <2>1 DEF Board!Enter
  <2>4. ~ crossed' => ~ crossed /\ \A t \in Savers \ {s} : saver[t].at = "idle"
    BY <2>3 DEF Board!Busy
  <2>5. crossed' \in BOOLEAN
    BY <1>2, <2>3
  <2>6. charts' = charts /\ version' = version /\ saveFaults' = saveFaults /\ boards' = boards
    BY <1>3 DEF Board!handleDashboardsFormSub, Board!rows
  <2> HIDE DEF c
  <2> QED
    BY <1>2, <2>2, <2>3, <2>4, <2>5, <2>6, SaverGoesOn
<1>4. CASE Board!deleteDashboard(s)
  <2> DEFINE c == [at |-> "tombstones", id |-> "none", board |-> saver[s].board, rank |-> version]
  <2>1. saver[s].at = "delete" /\ saver' = [saver EXCEPT ![s] = c]
    BY <1>4 DEF Board!deleteDashboard
  <2>2. saver[s].board \in Boards
    BY <1>2, <2>1 DEF SaverSet
  <2>3. c \in SaverSet /\ c.at # "insert"
    BY <1>2, <2>2 DEF SaverSet
  <2>4. charts' = charts /\ version' = version /\ saveFaults' = saveFaults /\ crossed' = crossed
    BY <1>4 DEF Board!deleteDashboard
  <2>5. DOMAIN boards' = DOMAIN boards
    BY <1>4 DEF Board!deleteDashboard, Board!insertRows
  <2> HIDE DEF c
  <2> QED
    BY <1>2, <2>1, <2>3, <2>4, <2>5, SaverGoesOn
<1>5. CASE Board!nextChartPosition(s)
  <2> DEFINE S == Board!getCharts(saver[s].board)
             p(ok) == IF ok /\ S # {} THEN Board!Max(Board!Positions(saver[s].board)) + 1 ELSE 0
  <2>1. PICK i, ok : /\ i \in Board!Fresh(charts) /\ ok \in BOOLEAN
                     /\ saveFaults' = IF ok THEN saveFaults ELSE saveFaults + 1
                     /\ saver' = [saver EXCEPT ![s] = [at |-> "insert", id |-> i,
                                      board |-> saver[s].board, position |-> p(ok)]]
    BY <1>5 DEF Board!nextChartPosition
  <2>2. /\ saver[s].at = "charts" /\ crossed' = crossed
        /\ charts' = charts /\ version' = version /\ boards' = boards
    BY <1>5 DEF Board!nextChartPosition, Board!rows
  <2>3. i \in ChartIds
    BY <1>1, <2>1 DEF Board!Fresh, BoardTypes
  <2>4. saver[s].board \in Boards
    BY <1>2, <2>2 DEF SaverSet
  <2>5. p(ok) \in Nat /\ (ok => \A d \in S : charts[d].position # p(ok))
    <3>1. CASE ok /\ S # {}
      <4>1. p(ok) = Board!Max(Board!Positions(saver[s].board)) + 1
        BY <3>1
      <4>2. p(ok) \in Nat /\ \A d \in S : charts[d].position < p(ok)
        BY <1>1, <3>1, <4>1, HighestPosition
      <4>3. \A d \in S : charts[d].position \in Nat
        BY <1>1, ChartsOfBoard DEF BoardTypes, ChartSet
      <4> HIDE DEF p, S
      <4> QED
        BY <4>2, <4>3
    <3>2. CASE ~ (ok /\ S # {})
      BY <3>2
    <3> QED
      BY <3>1, <3>2
  <2>6. saveFaults' \in Nat /\ (saveFaults' = 0 => ok /\ saveFaults = 0)
    <3>1. CASE ok
      BY <1>2, <2>1, <3>1
    <3>2. CASE ~ ok
      BY <1>2, <2>1, <3>2
    <3> QED
      BY <3>1, <3>2
  <2> HIDE DEF p
  <2> DEFINE c == [at |-> "insert", id |-> i, board |-> saver[s].board, position |-> p(ok)]
  <2>7. c \in SaverSet /\ c.board = saver[s].board /\ c.position = p(ok)
    BY <2>3, <2>4, <2>5 DEF SaverSet
  <2>8. saver' = [saver EXCEPT ![s] = c]
    BY <2>1
  <2>9. saveFaults' = 0 => \A d \in Board!getCharts(c.board) : charts[d].position # c.position
    BY <2>5, <2>6, <2>7
  <2> HIDE DEF c, S
  <2> QED
    BY <1>2, <2>2, <2>6, <2>7, <2>8, <2>9, SaverGoesOn
<1>6. CASE Board!findChart(s)
  <2>1. /\ saver[s].at = "chart" /\ saveFaults' = saveFaults
        /\ charts' = charts /\ version' = version /\ boards' = boards
    BY <1>6 DEF Board!findChart, Board!rows
  <2>2. CASE Board!Leave(s)
    <3>1. Board!Idle \in SaverSet /\ Board!Idle.at # "insert"
      BY DEF Board!Idle, SaverSet
    <3>2. saver' = [saver EXCEPT ![s] = Board!Idle] /\ crossed' = crossed
      BY <2>2 DEF Board!Leave
    <3> QED
      BY <1>2, <2>1, <3>1, <3>2, SaverGoesOn
  <2>3. CASE ~ Board!Leave(s)
    <3>1. PICK i, j : /\ i \in Board!getCharts(saver[s].board) /\ j \in {"insert", "remove"}
                      /\ saver' = [saver EXCEPT ![s] = [at |-> j, id |-> i,
                                       board |-> saver[s].board, position |-> charts[i].position]]
                      /\ crossed' = crossed
      BY <1>6, <2>3 DEF Board!findChart
    <3> DEFINE c == [at |-> j, id |-> i, board |-> saver[s].board, position |-> charts[i].position]
    <3>2. i \in ChartIds /\ charts[i].live /\ charts[i].board = saver[s].board
      BY <1>1, <3>1, ChartsOfBoard
    <3>3. saver[s].board \in Boards
      BY <1>2, <2>1 DEF SaverSet
    <3>4. charts[i].position \in Nat
      BY <1>1, <3>2 DEF BoardTypes, ChartSet
    <3>5. c \in SaverSet /\ c.board = saver[s].board /\ c.position = charts[i].position /\ c.id = i
      BY <3>1, <3>2, <3>3, <3>4 DEF SaverSet
    <3>6. ~ crossed /\ saveFaults = 0 =>
              \A d \in Board!getCharts(c.board) : d # c.id => charts[d].position # c.position
      <4> HIDE DEF c
      <4> SUFFICES ASSUME ~ crossed, saveFaults = 0, NEW d \in Board!getCharts(c.board), d # c.id
                   PROVE  charts[d].position # c.position
        OBVIOUS
      <4>1. d \in Board!Live(charts) /\ i \in Board!Live(charts) /\ charts[d].board = charts[i].board
        BY <3>1, <3>2, <3>5 DEF Board!getCharts
      <4>2. Board!PositionsApart
        BY DEF BoardInv
      <4> QED
        BY <3>5, <4>1, <4>2 DEF Board!PositionsApart
    <3>7. saver' = [saver EXCEPT ![s] = c]
      BY <3>1
    <3> HIDE DEF c
    <3> QED
      BY <1>2, <2>1, <3>1, <3>5, <3>6, <3>7, SaverGoesOn
  <2> QED
    BY <2>2, <2>3
<1>7. CASE Board!cloneChart(s)
  <2> DEFINE S == Board!getCharts(saver[s].board)
             p == Board!Max(Board!Positions(saver[s].board)) + 1
  <2>1. PICK i : /\ i \in Board!Fresh(charts)
                 /\ saver' = [saver EXCEPT ![s] = [at |-> "insert", id |-> i,
                                  board |-> saver[s].board, position |-> p]]
    BY <1>7 DEF Board!cloneChart
  <2>2. /\ saver[s].at = "chart" /\ S # {}
        /\ UNCHANGED <<charts, boards, version, crossed, saveFaults>>
    BY <1>7 DEF Board!cloneChart, Board!rows
  <2>3. i \in ChartIds
    BY <1>1, <2>1 DEF Board!Fresh, BoardTypes
  <2>4. saver[s].board \in Boards
    BY <1>2, <2>2 DEF SaverSet
  <2>5. p \in Nat /\ \A d \in S : charts[d].position < p
    BY <1>1, <2>2, HighestPosition
  <2>6. \A d \in S : charts[d].position \in Nat
    BY <1>1, ChartsOfBoard DEF BoardTypes, ChartSet
  <2> HIDE DEF p, S
  <2>7. \A d \in S : charts[d].position # p
    BY <2>5, <2>6
  <2> DEFINE c == [at |-> "insert", id |-> i, board |-> saver[s].board, position |-> p]
  <2>8. c \in SaverSet /\ c.board = saver[s].board /\ c.position = p
    BY <2>3, <2>4, <2>5 DEF SaverSet
  <2>9. saver' = [saver EXCEPT ![s] = c]
    BY <2>1
  <2>10. \A d \in Board!getCharts(c.board) : charts[d].position # c.position
    BY <2>7, <2>8 DEF S
  <2> HIDE DEF c
  <2> QED
    BY <1>2, <2>2, <2>8, <2>9, <2>10, SaverGoesOn
<1> QED
  BY <1>3, <1>4, <1>5, <1>6, <1>7

\* A row that is written: the chart of the request is it, or nothing changed.
LEMMA ChartRowWritten ==
  ASSUME BoardTypes, NEW i \in ChartIds, NEW row \in ChartSet,
         charts' = Board!insertRows(charts, i, row)
  PROVE  /\ charts' \in [ChartIds -> ChartSet]
         /\ \A c \in ChartIds : charts'[c] = charts[c] \/ (c = i /\ charts'[c] = row)
<1>1. CASE row.rank < charts[i].rank
  BY <1>1 DEF Board!insertRows, BoardTypes
<1>2. CASE ~ row.rank < charts[i].rank
  <2>1. charts' = [charts EXCEPT ![i] = row]
    BY <1>2 DEF Board!insertRows
  <2> QED
    BY <2>1 DEF BoardTypes
<1> QED
  BY <1>1, <1>2

\* The steps of a request that write charts.
LEMMA ChartWrites ==
  ASSUME BoardInv, NEW s \in Savers,
         Board!insertChart(s) \/ Board!removeChart(s) \/ Board!deleteDashboardCharts(s)
  PROVE  BoardInv'
<1>1. BoardTypes /\ OneSaves /\ Reserved /\ Board!PositionsApart
  BY DEF BoardInv
<1>2. saver[s] \in SaverSet /\ version \in Nat /\ DOMAIN charts = ChartIds
  BY <1>1 DEF BoardTypes
<1>3. CASE Board!insertChart(s) \/ Board!removeChart(s)
  <2>1. /\ saver[s].at \in {"insert", "remove"}
        /\ saver' = [saver EXCEPT ![s] = Board!Idle]
        /\ UNCHANGED <<version, boards, saveFaults, crossed>>
    BY <1>3 DEF Board!insertChart, Board!removeChart, Board!Leave
  <2>2. saver[s].id \in ChartIds /\ saver[s].board \in Boards /\ saver[s].position \in Nat
    BY <1>2, <2>1 DEF SaverSet
  <2>3. PICK l : /\ l \in BOOLEAN /\ (l => saver[s].at = "insert")
                 /\ charts' = Board!insertRows(charts, saver[s].id, [live |-> l, rank |-> version,
                                  board |-> saver[s].board, position |-> saver[s].position])
    <3>1. CASE Board!insertChart(s)
      BY <3>1 DEF Board!insertChart
    <3>2. CASE Board!removeChart(s)
      BY <3>2 DEF Board!removeChart
    <3> QED
      BY <1>3, <3>1, <3>2
  <2> DEFINE row == [live |-> l, rank |-> version, board |-> saver[s].board,
                     position |-> saver[s].position]
  <2>4. row \in ChartSet
    BY <1>2, <2>2, <2>3 DEF ChartSet
  <2>5. row.live = l /\ row.board = saver[s].board /\ row.position = saver[s].position
    OBVIOUS
  <2>6. charts' = Board!insertRows(charts, saver[s].id, row)
    BY <2>3
  <2> HIDE DEF row
  <2>7. /\ charts' \in [ChartIds -> ChartSet]
        /\ \A c \in ChartIds : charts'[c] = charts[c] \/ (c = saver[s].id /\ charts'[c] = row)
    BY <1>1, <2>2, <2>4, <2>6, ChartRowWritten
  <2>8. Board!PositionsApart'
    <3> SUFFICES ASSUME ~ crossed', saveFaults' = 0, NEW c, NEW d,
                        c \in Board!Live(charts)', d \in Board!Live(charts)',
                        charts'[c].board = charts'[d].board,
                        charts'[c].position = charts'[d].position
                 PROVE  c = d
      BY DEF Board!PositionsApart
    <3>1. ~ crossed /\ saveFaults = 0
      BY <2>1
    <3>2. c \in ChartIds /\ d \in ChartIds /\ charts'[c].live /\ charts'[d].live
      BY <2>7 DEF Board!Live
    <3>3. CASE charts'[c] = charts[c] /\ charts'[d] = charts[d]
      <4>1. c \in Board!Live(charts) /\ d \in Board!Live(charts)
        BY <1>2, <3>2, <3>3 DEF Board!Live
      <4> QED
        BY <1>1, <3>1, <3>3, <4>1 DEF Board!PositionsApart
    <3>4. ASSUME NEW x \in ChartIds, NEW y \in ChartIds, charts'[x].live, charts'[y].live,
                 charts'[x].board = charts'[y].board, charts'[x].position = charts'[y].position,
                 charts'[x] # charts[x]
          PROVE  x = y
      <4>1. x = saver[s].id /\ charts'[x] = row
        BY <2>7, <3>4
      <4>2. l /\ saver[s].at = "insert"
        BY <2>3, <2>5, <3>4, <4>1
      <4>3. CASE y # saver[s].id
        <5>1. charts'[y] = charts[y]
          BY <2>7, <4>3
        <5>2. y \in Board!getCharts(saver[s].board)
          BY <1>1, <2>5, <3>4, <4>1, <5>1, ChartsOfBoard
        <5>3. charts[y].position # saver[s].position
          BY <1>1, <3>1, <4>2, <4>3, <5>2 DEF Reserved
        <5> QED
          BY <2>5, <3>4, <4>1, <5>1, <5>3
      <4> QED
        BY <4>1, <4>3
    <3> QED
      BY <3>2, <3>3, <3>4
  <2>9. \A c \in ChartIds : charts'[c].position \in {charts[c].position, saver[s].position}
    BY <2>5, <2>7
  <2> QED
    BY <2>1, <2>2, <2>7, <2>8, <2>9, SaverEnds
<1>4. CASE Board!deleteDashboardCharts(s)
  <2>1. /\ saver[s].at = "tombstones" /\ saver' = [saver EXCEPT ![s] = Board!Idle]
        /\ UNCHANGED <<version, boards, saveFaults, crossed>>
    BY <1>4 DEF Board!deleteDashboardCharts, Board!Leave
  <2>2. saver[s].rank \in Nat
    BY <1>2, <2>1 DEF SaverSet
  <2>3. charts' = [c \in ChartIds |->
            IF c \in Board!getCharts(saver[s].board) /\ saver[s].rank >= charts[c].rank
            THEN [charts[c] EXCEPT !.live = FALSE, !.rank = saver[s].rank] ELSE charts[c]]
    BY <1>4 DEF Board!deleteDashboardCharts
  <2>4. \A c \in ChartIds : charts[c] \in ChartSet
    BY <1>1 DEF BoardTypes
  <2>5. \A c \in ChartIds : /\ charts'[c] \in ChartSet
                            /\ charts'[c].position = charts[c].position
                            /\ charts'[c].board = charts[c].board
                            /\ charts'[c].live => charts[c].live
    BY <2>2, <2>3, <2>4 DEF ChartSet
  <2>6. charts' \in [ChartIds -> ChartSet]
    BY <2>3, <2>5
  <2>7. Board!PositionsApart'
    <3>1. \A c \in Board!Live(charts)' : c \in ChartIds /\ c \in Board!Live(charts)
      BY <1>2, <2>5, <2>6 DEF Board!Live
    <3> QED
      BY <1>1, <2>1, <2>5, <3>1 DEF Board!PositionsApart
  <2>8. 0 \in Nat /\ \A c \in ChartIds : charts'[c].position \in {charts[c].position, 0}
    BY <2>5
  <2> QED
    BY <2>1, <2>6, <2>7, <2>8, SaverEnds
<1> QED
  BY <1>3, <1>4

\* The charts of a dashboard have places of their own as long as no two requests
\* crossed and no read of the positions failed.
THEOREM ChartsStayApart == Board!Spec => []Board!PositionsApart
<1>1. Board!Init => BoardInv
  <2> SUFFICES ASSUME Board!Init PROVE BoardInv
    OBVIOUS
  <2>1. version = 1 /\ saveFaults = 0 /\ crossed = FALSE /\ DOMAIN boards = Boards
    BY DEF Board!Init
  <2>2. Board!NoChart \in ChartSet /\ ~ Board!NoChart.live /\ Board!NoChart.position = 0
    BY DEF Board!NoChart, ChartSet
  <2>3. Board!Idle \in SaverSet /\ Board!Idle.at = "idle"
    BY DEF Board!Idle, SaverSet
  <2>4. /\ charts = [c \in ChartIds |-> Board!NoChart]
        /\ saver = [s \in Savers |-> Board!Idle]
    BY DEF Board!Init
  <2>5. BoardTypes
    BY <2>1, <2>2, <2>3, <2>4 DEF BoardTypes
  <2>6. PositionsBounded
    BY <2>2, <2>4 DEF PositionsBounded
  <2>7. OneSaves /\ Reserved
    BY <2>3, <2>4 DEF OneSaves, Reserved
  <2>8. Board!PositionsApart
    BY <2>2, <2>4 DEF Board!PositionsApart, Board!Live
  <2> QED
    BY <2>5, <2>6, <2>7, <2>8 DEF BoardInv
<1>2. BoardInv /\ [Board!Next]_Board!vars => BoardInv'
  <2> SUFFICES ASSUME BoardInv, [Board!Next]_Board!vars PROVE BoardInv'
    OBVIOUS
  <2>1. CASE \/ UNCHANGED Board!vars \/ Board!createDashboard \/ Board!PassTime
    <3>1. UNCHANGED <<charts, saver, saveFaults, crossed>>
      BY <2>1 DEF Board!vars, Board!rows, Board!createDashboard, Board!PassTime
    <3>2. version' \in Nat
      BY <2>1 DEF Board!vars, Board!createDashboard, Board!PassTime, BoardInv, BoardTypes
    <3>3. DOMAIN boards' = DOMAIN boards
      BY <2>1 DEF Board!vars, Board!rows, Board!createDashboard, Board!PassTime, Board!insertRows
    <3>4. BoardTypes' /\ PositionsBounded' /\ OneSaves'
      BY <3>1, <3>2, <3>3 DEF BoardInv, BoardTypes, PositionsBounded, OneSaves
    <3>5. Reserved' /\ Board!PositionsApart'
      BY <3>1 DEF BoardInv, Reserved, Board!PositionsApart, Board!Live, Board!getCharts
    <3> QED
      BY <3>4, <3>5 DEF BoardInv
  <2>2. ASSUME NEW s \in Savers,
               \/ Board!handleDashboardsFormSub(s) \/ Board!deleteDashboard(s)
               \/ Board!deleteDashboardCharts(s) \/ Board!nextChartPosition(s)
               \/ Board!findChart(s) \/ Board!cloneChart(s) \/ Board!insertChart(s)
               \/ Board!removeChart(s)
        PROVE  BoardInv'
    BY <2>2, SaverSteps, ChartWrites
  <2> QED
    BY <2>1, <2>2 DEF Board!Next
<1>3. BoardInv => Board!PositionsApart
  BY DEF BoardInv
<1> QED
  BY <1>1, <1>2, <1>3, PTL DEF Board!Spec

-----------------------------------------------------------------------------
(* Saved reports.                                                          *)

\* What a report and a request are.
ReportSet == [live : BOOLEAN, rank : Nat, name : ReportNames \cup {""}]
Indexes == UNION {[D -> ReportIds] : D \in SUBSET (ReportNames \cup {""})}
ImportSet ==
    [at : {"idle"}]
    \cup [at : {"report"}, id : ReportIds, row : ReportSet]
    \cup [at : {"import"}, items : Seq(ReportNames), policy : {"skip", "rename"},
          index : Indexes, rank : Nat]
ReportTypes ==
    /\ reportMs \in Nat /\ reports \in [ReportIds -> ReportSet]
    /\ importer \in [Importers -> ImportSet]
\* Requests that do not cross are under way one at a time.
OneImports ==
    \A s, t \in Importers : importer[s].at # "idle" /\ importer[t].at # "idle" => s = t
\* The index of an import has every name that is there.
IndexCovers ==
    \A s \in Importers : importer[s].at = "import" =>
        \A r \in Report!Saved : reports[r].name \in DOMAIN importer[s].index
NamesApart == \A r, q \in Report!Saved : reports[r].name = reports[q].name => r = q
ReportInv == ~ freely => ReportTypes /\ OneImports /\ IndexCovers /\ NamesApart

\* A row that is written: the report of the request is it, or nothing changed.
LEMMA ReportRowWritten ==
  ASSUME ReportTypes, NEW i \in ReportIds, NEW row \in ReportSet,
         reports' = Report!insertReport(reports, i, row)
  PROVE  /\ reports' \in [ReportIds -> ReportSet]
         /\ \A r \in ReportIds : reports'[r] = reports[r] \/ (r = i /\ reports'[r] = row)
<1>1. CASE row.rank < reports[i].rank
  BY <1>1 DEF Report!insertReport, ReportTypes
<1>2. CASE ~ row.rank < reports[i].rank
  <2>1. reports' = [reports EXCEPT ![i] = row]
    BY <1>2 DEF Report!insertReport
  <2> QED
    BY <2>1 DEF ReportTypes
<1> QED
  BY <1>1, <1>2

\* A request goes on, or ends, and no report changes.
LEMMA ImporterGoesOn ==
  ASSUME ReportTypes, OneImports, IndexCovers, NamesApart,
         NEW s \in Importers, NEW c \in ImportSet, importer' = [importer EXCEPT ![s] = c],
         UNCHANGED <<reportMs, reports>>,
         \/ importer[s].at # "idle" \/ \A t \in Importers \ {s} : importer[t].at = "idle",
         c.at = "import" => \A r \in Report!Saved : reports[r].name \in DOMAIN c.index
  PROVE  ReportTypes' /\ OneImports' /\ IndexCovers' /\ NamesApart'
<1>1. /\ importer' \in [Importers -> ImportSet] /\ importer'[s] = c
      /\ \A t \in Importers : t # s => importer'[t] = importer[t]
  BY DEF ReportTypes
<1>2. ReportTypes'
  BY <1>1 DEF ReportTypes
<1>3. OneImports'
  BY <1>1 DEF OneImports
<1>4. IndexCovers'
  BY <1>1 DEF IndexCovers, Report!Saved
<1>5. NamesApart'
  BY DEF NamesApart, Report!Saved
<1> QED
  BY <1>2, <1>3, <1>4, <1>5

\* A report is written by the one request that is under way, or by none.
LEMMA ReportWritten ==
  ASSUME ReportTypes, OneImports, IndexCovers, NamesApart,
         NEW i \in ReportIds, NEW row \in ReportSet,
         reports' = Report!insertReport(reports, i, row), reportMs' = reportMs,
         row.live => \A r \in Report!Saved : reports[r].name # row.name,
         importer' \in [Importers -> ImportSet], OneImports',
         \A s \in Importers : importer'[s].at = "import" =>
             /\ \A r \in Report!Saved : reports[r].name \in DOMAIN importer'[s].index
             /\ row.live => row.name \in DOMAIN importer'[s].index
  PROVE  ReportTypes' /\ OneImports' /\ IndexCovers' /\ NamesApart'
<1>1. /\ reports' \in [ReportIds -> ReportSet]
      /\ \A r \in ReportIds : reports'[r] = reports[r] \/ (r = i /\ reports'[r] = row)
  BY ReportRowWritten
<1>2. \A r \in Report!Saved' : \/ r \in Report!Saved /\ reports'[r] = reports[r]
                               \/ r = i /\ reports'[r] = row /\ row.live
  BY <1>1 DEF Report!Saved
<1>3. ReportTypes'
  BY <1>1 DEF ReportTypes
<1>4. IndexCovers'
  BY <1>2 DEF IndexCovers
<1>5. NamesApart'
  <2> SUFFICES ASSUME NEW r \in Report!Saved', NEW q \in Report!Saved',
                      reports'[r].name = reports'[q].name
               PROVE  r = q
    BY DEF NamesApart
  <2>1. CASE r \in Report!Saved /\ q \in Report!Saved /\ reports'[r] = reports[r] /\ reports'[q] = reports[q]
    BY <2>1 DEF NamesApart
  <2>2. CASE r = i /\ q = i
    BY <2>2
  <2>3. CASE r = i /\ reports'[r] = row /\ row.live /\ q \in Report!Saved /\ reports'[q] = reports[q]
    BY <2>3
  <2>4. CASE q = i /\ reports'[q] = row /\ row.live /\ r \in Report!Saved /\ reports'[r] = reports[r]
    BY <2>4
  <2> QED
    BY <1>2, <2>1, <2>2, <2>3, <2>4
<1> QED
  BY <1>3, <1>4, <1>5

\* The steps of a request that write no report.
LEMMA ImporterSteps ==
  ASSUME Report!ReportAssumption, ReportTypes, OneImports, IndexCovers, NamesApart,
         ~ freely', NEW s \in Importers,
         \/ Report!findReport(s) \/ Report!importReports(s) \/ Report!skipItem(s)
         \/ Report!importDone(s)
  PROVE  ReportTypes' /\ OneImports' /\ IndexCovers' /\ NamesApart'
<1>1. importer[s] \in ImportSet /\ reportMs \in Nat
  BY DEF ReportTypes
<1>2. CASE Report!findReport(s)
  <2>1. PICK r : /\ r \in Report!Saved
                 /\ importer' = [importer EXCEPT ![s] =
                        [at |-> "report", id |-> r, row |-> reports[r]]]
    BY <1>2 DEF Report!findReport
  <2> DEFINE c == [at |-> "report", id |-> r, row |-> reports[r]]
  <2>2. r \in ReportIds /\ reports[r] \in ReportSet
    BY <2>1 DEF Report!Saved, ReportTypes
  <2>3. c \in ImportSet /\ c.at # "import"
    BY <2>2 DEF ImportSet
  <2>4. importer' = [importer EXCEPT ![s] = c] /\ UNCHANGED <<reportMs, reports>>
    BY <1>2, <2>1 DEF Report!findReport
  <2>5. \A t \in Importers \ {s} : importer[t].at = "idle"
    BY <1>2 DEF Report!findReport, Report!OtherImports
  <2> HIDE DEF c
  <2> QED
    BY <2>3, <2>4, <2>5, ImporterGoesOn
<1>3. CASE Report!importReports(s)
  <2>1. PICK items, policy, index :
            /\ items \in Imports /\ policy \in {"skip", "replace", "rename"}
            /\ index \in [{reports[r].name : r \in Report!Saved} -> Report!Saved]
            /\ importer' = [importer EXCEPT ![s] = [at |-> "import", items |-> items,
                   policy |-> policy, index |-> index, rank |-> reportMs]]
            /\ freely' = (freely \/ Report!OtherImports(s) \/ policy = "replace")
    BY <1>3 DEF Report!importReports
  <2> DEFINE c == [at |-> "import", items |-> items, policy |-> policy, index |-> index,
                   rank |-> reportMs]
             D == {reports[r].name : r \in Report!Saved}
  <2>2. policy \in {"skip", "rename"} /\ \A t \in Importers \ {s} : importer[t].at = "idle"
    BY <2>1 DEF Report!OtherImports
  <2>3. items \in Seq(ReportNames)
    BY <2>1 DEF Report!ReportAssumption
  <2>4. index \in Indexes /\ DOMAIN index = D
    <3>1. D \in SUBSET (ReportNames \cup {""})
      BY DEF ReportTypes, ReportSet, Report!Saved
    <3>2. Report!Saved \subseteq ReportIds
      BY DEF Report!Saved
    <3> HIDE DEF D
    <3>3. index \in [D -> Report!Saved]
      BY <2>1 DEF D
    <3>4. index \in [D -> ReportIds]
      BY <3>2, <3>3
    <3> QED
      BY <3>1, <3>3, <3>4 DEF Indexes
  <2>5. c \in ImportSet /\ c.index = index
    BY <1>1, <2>2, <2>3, <2>4 DEF ImportSet
  <2>6. \A r \in Report!Saved : reports[r].name \in DOMAIN c.index
    BY <2>4, <2>5
  <2>7. importer' = [importer EXCEPT ![s] = c] /\ UNCHANGED <<reportMs, reports>>
    BY <1>3, <2>1 DEF Report!importReports
  <2> HIDE DEF c
  <2> QED
    BY <2>2, <2>5, <2>6, <2>7, ImporterGoesOn
<1>4. CASE Report!skipItem(s)
  <2>1. PICK c : c = [importer[s] EXCEPT !.items = Tail(@), !.rank = @ + 2]
    OBVIOUS
  <2>2. /\ importer[s].at = "import" /\ importer[s].items # <<>>
        /\ importer' = [importer EXCEPT ![s].items = Tail(@), ![s].rank = @ + 2]
        /\ UNCHANGED <<reportMs, reports>>
    BY <1>4 DEF Report!skipItem
  <2>3. importer[s].items \in Seq(ReportNames) /\ importer[s].rank \in Nat
    BY <1>1, <2>2 DEF ImportSet
  <2>4. Tail(importer[s].items) \in Seq(ReportNames) /\ importer[s].rank + 2 \in Nat
    BY <2>2, <2>3
  <2>5. c \in ImportSet /\ c.index = importer[s].index /\ c.at = "import"
    BY <1>1, <2>1, <2>2, <2>4 DEF ImportSet
  <2>6. importer' = [importer EXCEPT ![s] = c]
    BY <2>1, <2>2 DEF ReportTypes
  <2>7. \A r \in Report!Saved : reports[r].name \in DOMAIN c.index
    BY <2>2, <2>5 DEF IndexCovers
  <2> QED
    BY <2>2, <2>5, <2>6, <2>7, ImporterGoesOn
<1>5. CASE Report!importDone(s)
  <2>1. Report!IdleImport \in ImportSet /\ Report!IdleImport.at # "import"
    BY DEF Report!IdleImport, ImportSet
  <2>2. /\ importer[s].at = "import" /\ importer' = [importer EXCEPT ![s] = Report!IdleImport]
        /\ UNCHANGED <<reportMs, reports>>
    BY <1>5 DEF Report!importDone
  <2> QED
    BY <2>1, <2>2, ImporterGoesOn
<1> QED
  BY <1>2, <1>3, <1>4, <1>5

\* POST /api/reports, and what a request writes.
LEMMA ReportWrites ==
  ASSUME ReportTypes, OneImports, IndexCovers, NamesApart, ~ freely',
         \/ Report!handleApiReports
         \/ \E s \in Importers : Report!deleteReport(s) \/ Report!importItem(s)
  PROVE  ReportTypes' /\ OneImports' /\ IndexCovers' /\ NamesApart'
<1>1. CASE Report!handleApiReports
  <2>1. PICK n, r : /\ n \in ReportNames \ {""} /\ r \in Report!NewIds
                    /\ reports' = Report!insertReport(reports, r,
                           [live |-> TRUE, rank |-> reportMs, name |-> n])
                    /\ freely' = (freely \/ n \in {reports[q].name : q \in Report!Saved}
                                  \/ \E s \in Importers : importer[s].at # "idle")
    BY <1>1 DEF Report!handleApiReports
  <2> DEFINE row == [live |-> TRUE, rank |-> reportMs, name |-> n]
  <2>2. UNCHANGED <<reportMs, importer>>
    BY <1>1 DEF Report!handleApiReports
  <2>3. row \in ReportSet /\ row.name = n
    BY <2>1 DEF ReportSet, ReportTypes
  <2>4. r \in ReportIds
    BY <2>1 DEF Report!NewIds
  <2>5. reports' = Report!insertReport(reports, r, row)
    BY <2>1
  <2> HIDE DEF row
  <2>6. \A q \in Report!Saved : reports[q].name # n
    BY <2>1
  <2>7. \A s \in Importers : importer'[s].at = "idle"
    BY <2>1, <2>2
  <2>8. importer' \in [Importers -> ImportSet] /\ OneImports'
    BY <2>2 DEF ReportTypes, OneImports
  <2>9. \A s \in Importers : importer'[s].at # "import"
    BY <2>7
  <2> QED
    BY <2>2, <2>3, <2>4, <2>5, <2>6, <2>8, <2>9, ReportWritten
<1>2. ASSUME NEW s \in Importers, Report!deleteReport(s)
      PROVE  ReportTypes' /\ OneImports' /\ IndexCovers' /\ NamesApart'
  <2>1. importer[s] \in ImportSet /\ importer[s].at = "report" /\ reportMs \in Nat
    BY <1>2 DEF Report!deleteReport, ReportTypes
  <2>2. importer[s].id \in ReportIds /\ importer[s].row \in ReportSet
    BY <2>1 DEF ImportSet
  <2>3. PICK row : row = [importer[s].row EXCEPT !.live = FALSE, !.rank = reportMs]
    OBVIOUS
  <2>4. row \in ReportSet /\ ~ row.live
    BY <2>1, <2>2, <2>3 DEF ReportSet
  <2>5. /\ reports' = Report!insertReport(reports, importer[s].id, row)
        /\ importer' = [importer EXCEPT ![s] = Report!IdleImport] /\ reportMs' = reportMs
    BY <1>2, <2>3 DEF Report!deleteReport
  <2>6. Report!IdleImport \in ImportSet /\ Report!IdleImport.at = "idle"
    BY DEF Report!IdleImport, ImportSet
  <2>7. /\ importer' \in [Importers -> ImportSet] /\ importer'[s].at = "idle"
        /\ \A t \in Importers : t # s => importer'[t] = importer[t]
    BY <2>5, <2>6 DEF ReportTypes
  <2>8. OneImports' /\ \A t \in Importers : importer'[t].at # "import"
    BY <2>1, <2>7 DEF OneImports
  <2> QED
    BY <2>2, <2>4, <2>5, <2>7, <2>8, ReportWritten
<1>3. ASSUME NEW s \in Importers, Report!importItem(s)
      PROVE  ReportTypes' /\ OneImports' /\ IndexCovers' /\ NamesApart'
  <2> DEFINE q == importer[s]
             n == Head(q.items)
             clash == n \in DOMAIN q.index
             name == IF clash /\ q.policy = "rename" THEN Report!Renamed(q.index) ELSE n
             cleared == IF clash /\ q.policy = "replace"
                        THEN Report!insertReport(reports, q.index[n],
                                 [reports[q.index[n]] EXCEPT !.live = FALSE, !.rank = q.rank])
                        ELSE reports
  <2>1. /\ q \in ImportSet /\ q.at = "import" /\ q.items # <<>> /\ n # ""
        /\ clash => /\ q.policy # "skip"
                    /\ q.policy = "rename" => ReportNames \ ({""} \union DOMAIN q.index) # {}
        /\ reportMs' = reportMs
    BY <1>3 DEF Report!importItem, ReportTypes
  <2>2. PICK r : /\ r \in Report!NewIds
                 /\ reports' = Report!insertReport(cleared, r,
                        [live |-> TRUE, rank |-> q.rank + 1, name |-> name])
                 /\ importer' = [importer EXCEPT ![s] = [q EXCEPT !.items = Tail(@), !.rank = @ + 2,
                                     !.index = Report!Indexed(@, name, r)]]
    BY <1>3 DEF Report!importItem
  <2>3. /\ q.items \in Seq(ReportNames) /\ q.policy \in {"skip", "rename"} /\ q.rank \in Nat
        /\ q.index \in Indexes
    BY <2>1 DEF ImportSet
  <2>4. n \in ReportNames /\ Tail(q.items) \in Seq(ReportNames)
    <3>1. PICK items : items = q.items
      OBVIOUS
    <3>2. items \in Seq(ReportNames) /\ items # <<>>
      BY <2>1, <2>3, <3>1
    <3>3. Head(items) \in ReportNames /\ Tail(items) \in Seq(ReportNames)
      BY <3>2
    <3> QED
      BY <3>1, <3>3
  <2>5. name \in ReportNames /\ name \notin DOMAIN q.index
    <3>1. CASE clash
      <4>1. name = Report!Renamed(q.index) /\ \E m \in ReportNames \ {""} : m \notin DOMAIN q.index
        BY <2>1, <2>3, <3>1
      <4> HIDE DEF name
      <4> QED
        BY <4>1 DEF Report!Renamed
    <3>2. CASE ~ clash
      BY <2>4, <3>2
    <3> QED
      BY <3>1, <3>2
  <2>6. cleared = reports
    BY <2>3
  <2> DEFINE row == [live |-> TRUE, rank |-> q.rank + 1, name |-> name]
  <2>7. row \in ReportSet /\ row.name = name /\ r \in ReportIds
    <3>1. q.rank + 1 \in Nat /\ r \in ReportIds
      BY <2>2, <2>3 DEF Report!NewIds
    <3> HIDE DEF name, q
    <3> QED
      BY <2>5, <3>1 DEF ReportSet
  <2>8. reports' = Report!insertReport(reports, r, row)
    BY <2>2, <2>6
  <2> HIDE DEF name, row
  <2>9. \A k \in Report!Saved : reports[k].name \in DOMAIN q.index
    BY <2>1 DEF IndexCovers
  <2>10. /\ Report!Indexed(q.index, name, r) \in Indexes
         /\ DOMAIN Report!Indexed(q.index, name, r) = DOMAIN q.index \cup {name}
    <3>1. PICK D : D \in SUBSET (ReportNames \cup {""}) /\ q.index \in [D -> ReportIds]
      BY <2>3 DEF Indexes
    <3>2. D \cup {name} \in SUBSET (ReportNames \cup {""})
      BY <2>5, <3>1
    <3>3. Report!Indexed(q.index, name, r) \in [D \cup {name} -> ReportIds]
      BY <2>7, <3>1 DEF Report!Indexed
    <3> QED
      BY <3>1, <3>2, <3>3 DEF Indexes
  <2>11. PICK c : c = [q EXCEPT !.items = Tail(@), !.rank = @ + 2,
                              !.index = Report!Indexed(@, name, r)]
    OBVIOUS
  <2>12. c \in ImportSet /\ c.index = Report!Indexed(q.index, name, r)
    <3>1. PICK i : i = Report!Indexed(q.index, name, r) /\ i \in Indexes
      BY <2>10
    <3>2. PICK t : t = Tail(q.items) /\ t \in Seq(ReportNames)
      BY <2>4
    <3>3. q.rank + 2 \in Nat
      BY <2>3
    <3> HIDE DEF q
    <3>4. c = [q EXCEPT !.items = t, !.rank = q.rank + 2, !.index = i]
      BY <2>11, <3>1, <3>2
    <3> QED
      BY <2>1, <2>3, <3>1, <3>2, <3>3, <3>4 DEF ImportSet
  <2>13. importer' = [importer EXCEPT ![s] = c]
    BY <2>2, <2>11
  <2>14. /\ importer' \in [Importers -> ImportSet] /\ importer'[s] = c
         /\ \A t \in Importers : t # s => importer'[t] = importer[t]
    BY <2>12, <2>13 DEF ReportTypes
  <2>15. OneImports' /\ \A t \in Importers : t # s => importer'[t].at # "import"
    BY <2>1, <2>14 DEF OneImports
  <2>16. \A t \in Importers : importer'[t].at = "import" =>
             /\ \A k \in Report!Saved : reports[k].name \in DOMAIN importer'[t].index
             /\ name \in DOMAIN importer'[t].index
    BY <2>9, <2>10, <2>12, <2>14, <2>15
  <2>17. \A k \in Report!Saved : reports[k].name # name
    BY <2>5, <2>9
  <2> HIDE DEF q
  <2> QED
    BY <2>1, <2>7, <2>8, <2>14, <2>15, <2>16, <2>17, ReportWritten
<1> QED
  BY <1>1, <1>2, <1>3

\* Reports have names of their own as long as imports skip or rename, no two
\* requests crossed and nobody posted a name that was taken.
THEOREM NamesStayApart ==
  Report!ReportAssumption /\ Report!Spec => []Report!ImportsKeepNamesApart
<1> SUFFICES ASSUME Report!ReportAssumption PROVE Report!Spec => []Report!ImportsKeepNamesApart
  OBVIOUS
<1>1. Report!Init => ReportInv
  <2> SUFFICES ASSUME Report!Init PROVE ReportTypes /\ OneImports /\ IndexCovers /\ NamesApart
    BY DEF ReportInv
  <2>1. /\ reportMs = 1 /\ reports = [r \in ReportIds |-> Report!NoReport]
        /\ importer = [s \in Importers |-> Report!IdleImport]
    BY DEF Report!Init
  <2>2. Report!NoReport \in ReportSet /\ ~ Report!NoReport.live
    BY DEF Report!NoReport, ReportSet
  <2>3. Report!IdleImport \in ImportSet /\ Report!IdleImport.at = "idle"
    BY DEF Report!IdleImport, ImportSet
  <2>4. Report!Saved = {}
    BY <2>1, <2>2 DEF Report!Saved
  <2>5. ReportTypes
    BY <2>1, <2>2, <2>3 DEF ReportTypes
  <2> QED
    BY <2>1, <2>3, <2>4, <2>5 DEF OneImports, IndexCovers, NamesApart
<1>2. ReportInv /\ [Report!Next]_Report!vars => ReportInv'
  <2> SUFFICES ASSUME ReportInv, [Report!Next]_Report!vars, ~ freely'
               PROVE  ReportTypes' /\ OneImports' /\ IndexCovers' /\ NamesApart'
    BY DEF ReportInv
  <2>1. ~ freely
    BY DEF Report!Next, Report!vars, Report!handleApiReports, Report!Millisecond,
           Report!findReport, Report!deleteReport, Report!importReports, Report!skipItem,
           Report!importItem, Report!importDone
  <2>2. ReportTypes /\ OneImports /\ IndexCovers /\ NamesApart
    BY <2>1 DEF ReportInv
  <2>3. CASE UNCHANGED Report!vars \/ Report!Millisecond
    <3>1. UNCHANGED <<reports, importer>> /\ reportMs' \in Nat
      BY <2>2, <2>3 DEF Report!vars, Report!Millisecond, ReportTypes
    <3> QED
      BY <2>2, <3>1 DEF ReportTypes, OneImports, IndexCovers, NamesApart, Report!Saved
  <2>4. CASE Report!handleApiReports
    BY <2>2, <2>4, ReportWrites
  <2>5. ASSUME NEW s \in Importers, Report!deleteReport(s) \/ Report!importItem(s)
        PROVE  ReportTypes' /\ OneImports' /\ IndexCovers' /\ NamesApart'
    BY <2>2, <2>5, ReportWrites
  <2>6. ASSUME NEW s \in Importers,
               \/ Report!findReport(s) \/ Report!importReports(s) \/ Report!skipItem(s)
               \/ Report!importDone(s)
        PROVE  ReportTypes' /\ OneImports' /\ IndexCovers' /\ NamesApart'
    BY <2>2, <2>6, ImporterSteps
  <2> QED
    BY <2>3, <2>4, <2>5, <2>6 DEF Report!Next
<1>3. ReportInv => Report!ImportsKeepNamesApart
  BY DEF ReportInv, NamesApart, Report!ImportsKeepNamesApart
<1> QED
  BY <1>1, <1>2, <1>3, PTL DEF Report!Spec

-----------------------------------------------------------------------------
(* Applications and their releases.                                        *)

\* What rows and requests are.
AppSlugs == Slugs \cup {"", Seed.slug}
AppRow == [live : BOOLEAN, ver : Nat, slug : AppSlugs]
ReleaseRow == [live : BOOLEAN, ver : Nat, app : AppIds \cup {""}]
ClientSet == [at : {"idle", "app", "releases", "cascade", "release", "artifact"},
              op : {"", "create", "patch", "delete"}, id : AppIds \cup ReleaseIds \cup {""},
              row : AppRow \cup ReleaseRow, found : SUBSET ReleaseIds, met : BOOLEAN]
AppTypes ==
    /\ appMs \in Nat /\ gone \in SUBSET AppIds
    /\ apps \in [AppIds -> AppRow] /\ releases \in [ReleaseIds -> ReleaseRow]
    /\ \A a \in AppIds : apps[a].ver <= appMs
    /\ \A r \in ReleaseIds : releases[r].ver <= appMs
    /\ client \in [Clients -> ClientSet]
    /\ boot.at \in {"up", "apps", "releases", "rows"} /\ DOMAIN boot = {"at", "app", "release"}
    /\ boot.at \in {"releases", "rows"} => boot.app \in AppIds
    /\ boot.at = "rows" => boot.release \in ReleaseIds
\* A request at work writes no row from the future, and brings no application or
\* release of a deleted one back, but a request that creates it anew.
RequestFits(q) ==
    /\ q.at \in {"app", "releases", "cascade"} =>
           q.id \in AppIds /\ q.row \in AppRow /\ q.row.ver <= appMs
    /\ q.at \in {"releases", "cascade"} => q.op = "delete"
    /\ q.at = "app" /\ q.row.live => q.op = "create" \/ (q.op = "patch" /\ q.id \notin gone)
    /\ q.at = "release" => /\ q.id \in ReleaseIds /\ q.row \in ReleaseRow /\ q.row.ver <= appMs
                           /\ q.row.app \notin gone
\* A deletion that meets no other request finds its row in force, and all releases.
FitsAlone(q) ==
    q.op = "delete" /\ ~ q.met =>
        /\ q.at \in {"app", "releases", "cascade"} => \A r \in ReleaseIds : releases[r].ver <= q.row.ver
        /\ q.at = "app" => apps[q.id].ver <= q.row.ver
        /\ q.at \in {"releases", "cascade"} => ~ apps[q.id].live
        /\ q.at = "cascade" => q.found = {r \in App!LiveReleases : releases[r].app = q.id}
\* Requests that overlap have met, and none is at work while the server starts.
IsIdle(c) == client[c].at = "idle"
ClientsMeet ==
    /\ boot.at # "up" => \A c \in Clients : IsIdle(c)
    /\ \A c, d \in Clients : c # d /\ ~ IsIdle(c) /\ ~ IsIdle(d) => client[c].met
AppInv ==
    /\ AppTypes /\ ClientsMeet /\ App!DeletionHolds
    /\ \A c \in Clients : RequestFits(client[c]) /\ FitsAlone(client[c])

\* A request begins.
LEMMA RequestBegins ==
  ASSUME AppInv, NEW c \in Clients, NEW request \in ClientSet, App!Begin(c, request), RequestFits(request),
         request.op = "delete" => request.at = "app" /\ request.row.ver = appMs
  PROVE  AppInv'
<1> DEFINE rest == {d \in Clients \ {c} : client[d].at # "idle"}
<1>a. PICK others : others = rest
  OBVIOUS
<1>0. /\ others = {d \in Clients \ {c} : client[d].at # "idle"}
      /\ \A d \in Clients : d \in others <=> (d # c /\ ~ IsIdle(d))
  BY <1>a DEF IsIdle
<1> HIDE DEF rest
<1>1. /\ AppTypes /\ ClientsMeet /\ App!DeletionHolds /\ boot.at = "up" /\ IsIdle(c)
      /\ UNCHANGED <<appMs, apps, releases, boot, gone>>
      /\ client' = [d \in Clients |-> IF d = c THEN [request EXCEPT !.met = others # {}]
                                      ELSE [client[d] EXCEPT !.met = d \in others]]
  BY <1>0 DEF AppInv, App!Begin, App!tables, IsIdle
<1>2. ASSUME NEW d \in Clients
      PROVE  /\ client'[d] \in ClientSet
             /\ d = c => /\ client'[d].at = request.at /\ client'[d].op = request.op
                         /\ client'[d].id = request.id /\ client'[d].row = request.row
                         /\ client'[d].found = request.found
                         /\ client'[d].met <=> others # {}
             /\ d # c => /\ client'[d].at = client[d].at /\ client'[d].op = client[d].op
                         /\ client'[d].id = client[d].id /\ client'[d].row = client[d].row
                         /\ client'[d].found = client[d].found
                         /\ client'[d].met <=> d \in others
  <2>1. client[d] \in ClientSet
    BY <1>1 DEF AppTypes
  <2>2. PICK p \in BOOLEAN : p <=> others # {}
    OBVIOUS
  <2>3. PICK q \in BOOLEAN : q <=> d \in others
    OBVIOUS
  <2>4. client'[d] = IF d = c THEN [request EXCEPT !.met = p] ELSE [client[d] EXCEPT !.met = q]
    BY <1>1, <2>2, <2>3
  <2> QED
    BY <2>1, <2>2, <2>3, <2>4 DEF ClientSet
<1>b. UNCHANGED <<appMs, apps, releases, gone>> /\ App!LiveReleases' = App!LiveReleases
  BY <1>1 DEF App!LiveReleases
<1>3. client' \in [Clients -> ClientSet]
  <2>1. DOMAIN client' = Clients /\ client' = [d \in Clients |-> client'[d]]
    BY <1>1
  <2> QED
    BY <1>2, <2>1
<1>4. AppTypes' /\ App!DeletionHolds'
  BY <1>1, <1>3 DEF AppTypes, App!DeletionHolds, App!LiveApps, App!LiveReleases
<1>5. ClientsMeet'
  <2>1. ASSUME NEW d \in Clients, NEW e \in Clients, d # e, ~ IsIdle(d)', ~ IsIdle(e)'
        PROVE  client'[d].met
    <3>1. CASE d = c
      BY <1>0, <1>2, <2>1, <3>1 DEF IsIdle
    <3>2. CASE d # c
      BY <1>0, <1>1, <1>2, <2>1, <3>2 DEF IsIdle
    <3> QED
      BY <3>1, <3>2
  <2> QED
    BY <1>1, <2>1 DEF ClientsMeet
<1>6. ASSUME NEW d \in Clients
      PROVE  RequestFits(client[d])' /\ FitsAlone(client[d])'
  <2>1. CASE d = c
    <3>1. RequestFits(client[d])'
      BY <1>b, <1>2, <2>1 DEF RequestFits
    <3>2. ASSUME request.op = "delete"
          PROVE  FitsAlone(client[d])'
      <4>1. /\ client'[d].at = "app" /\ client'[d].row.ver = appMs /\ client'[d].id \in AppIds
        BY <1>2, <2>1, <3>2 DEF RequestFits
      <4>2. /\ \A r \in ReleaseIds : releases'[r].ver <= client'[d].row.ver
            /\ apps'[client'[d].id].ver <= client'[d].row.ver
        BY <1>1, <1>b, <4>1 DEF AppTypes
      <4> QED
        BY <4>1, <4>2 DEF FitsAlone
    <3>3. ASSUME request.op # "delete"
          PROVE  FitsAlone(client[d])'
      BY <1>2, <2>1, <3>3 DEF FitsAlone
    <3> QED
      BY <3>1, <3>2, <3>3
  <2>2. CASE d # c
    <3>1. RequestFits(client[d])'
      BY <1>b, <1>2, <2>2 DEF RequestFits, AppInv
    <3>2. FitsAlone(client[d])'
      BY <1>0, <1>2, <2>2 DEF FitsAlone, IsIdle
    <3> QED
      BY <3>1, <3>2
  <2> QED
    BY <2>1, <2>2
<1> QED
  BY <1>4, <1>5, <1>6 DEF AppInv

\* Its first row.
LEMMA RequestIsMade ==
  ASSUME AppInv, NEW c \in Clients,
         \/ App!handleV1Apps(c) \/ App!createSettingsRepository(c) \/ App!handleV1AppPatch(c)
         \/ App!repoUpdate(c) \/ App!repoDelete(c) \/ App!repoAddRelease(c) \/ App!addRelease(c) \/ App!addArtifact(c)
  PROVE  AppInv'
<1>1. /\ AppTypes /\ App!DeletionHolds /\ appMs \in Nat
      /\ \A a \in App!LiveApps : a \in AppIds /\ apps[a] \in AppRow /\ apps[a].live /\ a \notin gone
      /\ App!NewId(apps) \in SUBSET AppIds /\ App!NewId(releases) \in SUBSET ReleaseIds
  BY DEF AppInv, AppTypes, App!DeletionHolds, App!LiveApps, App!NewId
<1>2. App!NoApp \in AppRow /\ App!IdleClient \in ClientSet
  BY DEF App!NoApp, AppRow, AppSlugs, App!IdleClient, ClientSet
<1>3. ASSUME NEW a \in AppIds, NEW slug \in Slugs, NEW op \in {"create", "patch"},
             op = "patch" => a \in App!LiveApps,
             App!Begin(c, [App!IdleClient EXCEPT !.at = "app", !.op = op, !.id = a,
                       !.row = [live |-> TRUE, ver |-> appMs, slug |-> slug]])
      PROVE  AppInv'
  <2>1. PICK row : row = [live |-> TRUE, ver |-> appMs, slug |-> slug]
    OBVIOUS
  <2>2. row \in AppRow /\ row.ver = appMs
    BY <1>1, <2>1 DEF AppRow, AppSlugs
  <2>3. PICK q : q = [App!IdleClient EXCEPT !.at = "app", !.op = op, !.id = a, !.row = row]
    OBVIOUS
  <2>4. q \in ClientSet /\ q.at = "app" /\ q.op = op /\ q.id = a /\ q.row = row
    BY <1>2, <2>2, <2>3 DEF ClientSet
  <2>5. RequestFits(q)
    BY <1>1, <1>3, <2>2, <2>4 DEF RequestFits
  <2> QED
    BY <1>3, <2>1, <2>3, <2>4, <2>5, RequestBegins
<1>4. ASSUME NEW a \in App!LiveApps, NEW live \in BOOLEAN,
             NEW op \in {"patch", "delete"}, live => op = "patch",
             App!Begin(c, [App!IdleClient EXCEPT !.at = "app", !.op = op, !.id = a,
                       !.row = [apps[a] EXCEPT !.live = live, !.ver = appMs]])
      PROVE  AppInv'
  <2>1. PICK row : row = [apps[a] EXCEPT !.live = live, !.ver = appMs]
    OBVIOUS
  <2>2. row \in AppRow /\ row.ver = appMs /\ row.live = live
    BY <1>1, <2>1 DEF AppRow
  <2>3. PICK q : q = [App!IdleClient EXCEPT !.at = "app", !.op = op, !.id = a, !.row = row]
    OBVIOUS
  <2>4. q \in ClientSet /\ q.at = "app" /\ q.op = op /\ q.id = a /\ q.row = row
    BY <1>1, <1>2, <2>2, <2>3 DEF ClientSet
  <2>5. RequestFits(q)
    BY <1>1, <1>4, <2>2, <2>4 DEF RequestFits
  <2> QED
    BY <1>4, <2>1, <2>2, <2>3, <2>4, <2>5, RequestBegins
<1>5. ASSUME NEW a \in App!LiveApps, NEW r \in ReleaseIds,
             App!Begin(c, [App!IdleClient EXCEPT !.at = "release", !.id = r,
                       !.row = [live |-> TRUE, ver |-> appMs, app |-> a]])
      PROVE  AppInv'
  <2>1. PICK row : row = [live |-> TRUE, ver |-> appMs, app |-> a]
    OBVIOUS
  <2>2. row \in ReleaseRow /\ row.ver = appMs /\ row.app = a
    BY <1>1, <2>1 DEF ReleaseRow
  <2>3. PICK q : q = [App!IdleClient EXCEPT !.at = "release", !.id = r, !.row = row]
    OBVIOUS
  <2>4. q \in ClientSet /\ q.at = "release" /\ q.op = "" /\ q.id = r /\ q.row = row
    BY <1>2, <2>2, <2>3 DEF ClientSet, App!IdleClient
  <2>5. a \notin gone /\ row.ver <= appMs
    BY <1>1, <2>2
  <2>6. RequestFits(q)
    BY <2>2, <2>4, <2>5 DEF RequestFits
  <2> QED
    BY <2>6, <1>5, <2>1, <2>3, <2>4, <2>5, RequestBegins
<1>6. CASE App!handleV1Apps(c) \/ App!createSettingsRepository(c) \/ App!handleV1AppPatch(c)
  BY <1>1, <1>3, <1>6 DEF App!handleV1Apps, App!createSettingsRepository, App!handleV1AppPatch
<1>7. CASE App!repoUpdate(c)
  <2>1. PICK a \in App!LiveApps : App!Begin(c, [App!IdleClient EXCEPT !.at = "app", !.op = "patch", !.id = a,
                                        !.row = [apps[a] EXCEPT !.ver = appMs]])
    BY <1>7 DEF App!repoUpdate
  <2>2. [apps[a] EXCEPT !.ver = appMs] = [apps[a] EXCEPT !.live = TRUE, !.ver = appMs]
    BY <1>1 DEF AppRow
  <2> QED
    BY <1>4, <2>1, <2>2
<1>8. CASE App!repoDelete(c)
  BY <1>4, <1>8 DEF App!repoDelete
<1>9. CASE App!repoAddRelease(c) \/ App!addRelease(c)
  BY <1>1, <1>5, <1>9 DEF App!repoAddRelease, App!addRelease
<1>10. CASE App!addArtifact(c)
  <2>1. PICK r \in ReleaseIds : App!Begin(c, [App!IdleClient EXCEPT !.at = "artifact", !.id = r])
    BY <1>10 DEF App!addArtifact, App!LiveReleases
  <2>2. PICK q : q = [App!IdleClient EXCEPT !.at = "artifact", !.id = r]
    OBVIOUS
  <2>3. q \in ClientSet /\ q.at = "artifact" /\ q.op = ""
    BY <1>2, <2>2 DEF ClientSet, App!IdleClient
  <2>4. RequestFits(q)
    BY <2>3 DEF RequestFits
  <2> QED
    BY <2>1, <2>2, <2>3, <2>4, RequestBegins
<1> QED
  BY <1>6, <1>7, <1>8, <1>9, <1>10

\* A request goes on, and those it meets are what they were.
LEMMA RequestGoesOn ==
  ASSUME AppInv, NEW c \in Clients, ~ IsIdle(c), NEW q \in ClientSet, App!Step(c, q),
         q.at = "idle" \/ q.met = client[c].met, UNCHANGED <<appMs, boot>>,
         \A d \in Clients : d = c \/ IsIdle(d) \/ gone' \in SUBSET gone,
         RequestFits(q)', FitsAlone(q)'
  PROVE  /\ client' \in [Clients -> ClientSet] /\ ClientsMeet'
         /\ \A d \in Clients : RequestFits(client[d])' /\ FitsAlone(client[d])'
<1>1. /\ AppTypes /\ ClientsMeet /\ client' = [client EXCEPT ![c] = q]
      /\ \A d \in Clients : RequestFits(client[d]) /\ FitsAlone(client[d])
  BY DEF AppInv, App!Step
<1>2. /\ client' \in [Clients -> ClientSet] /\ client'[c] = q
      /\ \A d \in Clients : d # c => client'[d] = client[d]
  BY <1>1 DEF AppTypes
<1>3. \A d \in Clients : d # c => IsIdle(d) \/ client[d].met
  BY <1>1 DEF ClientsMeet
<1>4. ClientsMeet'
  <2>1. boot'.at = "up"
    BY <1>1 DEF ClientsMeet
  <2>2. ASSUME NEW d \in Clients, NEW e \in Clients, d # e, ~ IsIdle(d)', ~ IsIdle(e)'
        PROVE  client'[d].met
    <3>1. CASE d = c
      BY <1>1, <1>2, <2>2, <3>1 DEF IsIdle, ClientsMeet
    <3>2. CASE d # c
      BY <1>2, <1>3, <2>2, <3>2 DEF IsIdle
    <3> QED
      BY <3>1, <3>2
  <2> QED
    BY <2>1, <2>2 DEF ClientsMeet
<1>5. ASSUME NEW d \in Clients, d # c
      PROVE  RequestFits(client[d])' /\ FitsAlone(client[d])'
  <2>1. client'[d] = client[d] /\ RequestFits(client[d]) /\ (IsIdle(d) \/ client[d].met)
    BY <1>1, <1>2, <1>3, <1>5
  <2>2. RequestFits(client[d])'
    BY <1>5, <2>1 DEF RequestFits, IsIdle
  <2>3. FitsAlone(client[d])'
    BY <2>1 DEF FitsAlone, IsIdle
  <2> QED
    BY <2>2, <2>3
<1>6. RequestFits(client[c])' /\ FitsAlone(client[c])'
  BY <1>2 DEF RequestFits, FitsAlone
<1> QED
  BY <1>2, <1>4, <1>5, <1>6

\* A row goes in, unless one with a greater Version is there.
LEMMA AppRowGoesIn ==
  ASSUME AppTypes, NEW i \in AppIds, NEW row \in AppRow, row.ver <= appMs,
         NEW u, u = App!Put(apps, i, row)
  PROVE  /\ u \in [AppIds -> AppRow] /\ \A j \in AppIds : u[j].ver <= appMs
         /\ \A j \in AppIds : j # i => u[j] = apps[j]
         /\ u[i] = apps[i] \/ u[i] = row
         /\ apps[i].ver <= row.ver => u[i] = row
<1>1. PICK v : v = [apps EXCEPT ![i] = row]
  OBVIOUS
<1>2. /\ apps \in [AppIds -> AppRow] /\ appMs \in Nat /\ \A j \in AppIds : apps[j].ver <= appMs
      /\ \A x \in AppRow : x.ver \in Nat
  BY DEF AppTypes, AppRow
<1>3. v \in [AppIds -> AppRow] /\ v[i] = row /\ \A j \in AppIds : j # i => v[j] = apps[j]
  BY <1>1, <1>2
<1>4. \A j \in AppIds : v[j].ver <= appMs
  BY <1>2, <1>3
<1>5. CASE row.ver < apps[i].ver
  <2>1. u = apps
    BY <1>5 DEF App!Put
  <2> QED
    BY <1>2, <1>5, <2>1
<1>6. CASE ~ (row.ver < apps[i].ver)
  <2>1. u = v
    BY <1>1, <1>6 DEF App!Put
  <2> QED
    BY <1>3, <1>4, <2>1
<1> QED
  BY <1>5, <1>6

\* That of a release likewise.
LEMMA ReleaseRowGoesIn ==
  ASSUME AppTypes, NEW i \in ReleaseIds, NEW row \in ReleaseRow, row.ver <= appMs,
         NEW u, u = App!Put(releases, i, row)
  PROVE  /\ u \in [ReleaseIds -> ReleaseRow] /\ \A j \in ReleaseIds : u[j].ver <= appMs
         /\ \A j \in ReleaseIds : j # i => u[j] = releases[j]
         /\ u[i] = releases[i] \/ u[i] = row
         /\ releases[i].ver <= row.ver => u[i] = row
<1>1. PICK v : v = [releases EXCEPT ![i] = row]
  OBVIOUS
<1>2. /\ releases \in [ReleaseIds -> ReleaseRow] /\ appMs \in Nat /\ \A j \in ReleaseIds : releases[j].ver <= appMs
      /\ \A x \in ReleaseRow : x.ver \in Nat
  BY DEF AppTypes, ReleaseRow
<1>3. v \in [ReleaseIds -> ReleaseRow] /\ v[i] = row /\ \A j \in ReleaseIds : j # i => v[j] = releases[j]
  BY <1>1, <1>2
<1>4. \A j \in ReleaseIds : v[j].ver <= appMs
  BY <1>2, <1>3
<1>5. CASE row.ver < releases[i].ver
  <2>1. u = releases
    BY <1>5 DEF App!Put
  <2> QED
    BY <1>2, <1>5, <2>1
<1>6. CASE ~ (row.ver < releases[i].ver)
  <2>1. u = v
    BY <1>1, <1>6 DEF App!Put
  <2> QED
    BY <1>3, <1>4, <2>1
<1> QED
  BY <1>5, <1>6

\* The row of an application.
LEMMA AppIsInserted ==
  ASSUME AppInv, NEW c \in Clients, App!insertApp(c)
  PROVE  AppInv'
<1>1. /\ AppTypes /\ App!DeletionHolds /\ client[c] \in ClientSet /\ RequestFits(client[c]) /\ FitsAlone(client[c])
      /\ client[c].at = "app" /\ ~ IsIdle(c) /\ UNCHANGED <<appMs, releases, boot>>
  BY DEF AppInv, AppTypes, App!insertApp, IsIdle
<1>2. PICK a \in AppIds, row \in AppRow : a = client[c].id /\ row = client[c].row /\ row.ver <= appMs
  BY <1>1 DEF RequestFits
<1>a. AppTypes /\ a \in AppIds /\ row \in AppRow /\ row.ver <= appMs
  BY <1>1, <1>2
<1>3. App!IdleClient \in ClientSet /\ App!IdleClient.at = "idle" /\ RequestFits(App!IdleClient)' /\ FitsAlone(App!IdleClient)'
  BY DEF App!IdleClient, ClientSet, App!NoApp, AppRow, AppSlugs, RequestFits, FitsAlone
<1>4. (\A x \in AppRow : x.ver \in Nat) /\ apps \in [AppIds -> AppRow] /\ appMs \in Nat
  BY <1>1 DEF AppTypes, AppRow
<1>5. CASE apps' = App!Put(apps, a, row)
  <2>1. /\ apps' \in [AppIds -> AppRow] /\ \A x \in AppIds : apps'[x].ver <= appMs
        /\ \A x \in AppIds : x # a => apps'[x] = apps[x]
        /\ apps'[a] = apps[a] \/ apps'[a] = row
        /\ apps[a].ver <= row.ver => apps'[a] = row
    <3>2. PICK u : u = App!Put(apps, a, row)
      OBVIOUS
    <3>3. /\ u \in [AppIds -> AppRow] /\ \A x \in AppIds : u[x].ver <= appMs
          /\ \A x \in AppIds : x # a => u[x] = apps[x]
          /\ u[a] = apps[a] \/ u[a] = row
          /\ apps[a].ver <= row.ver => u[a] = row
      BY <1>a, <3>2, AppRowGoesIn, SMTT(60)
    <3> QED
      BY <1>5, <3>2, <3>3
  <2>2. CASE apps' = apps /\ gone' = gone /\ App!Answer(c)
    <3>1. /\ client' \in [Clients -> ClientSet] /\ ClientsMeet'
          /\ \A d \in Clients : RequestFits(client[d])' /\ FitsAlone(client[d])'
      BY <1>1, <1>3, <2>2, RequestGoesOn DEF App!Answer
    <3> QED
      BY <1>1, <2>2, <3>1 DEF AppInv, AppTypes, App!DeletionHolds, App!LiveApps, App!LiveReleases
  <2>3. CASE /\ gone' = IF client[c].op = "create" THEN gone \ {a} ELSE gone
             /\ IF client[c].op = "delete" THEN App!Step(c, [client[c] EXCEPT !.at = "releases"])
                ELSE App!Answer(c)
    <3>1. PICK q \in ClientSet :
              /\ App!Step(c, q) /\ (q.at = "idle" \/ q.met = client[c].met)
              /\ q.at # "idle" => /\ q.at = "releases" /\ q.op = "delete" /\ q.id = a /\ q.row = row
                                  /\ client[c].op = "delete"
      <4>1. CASE client[c].op = "delete"
        <5>1. PICK q : q = [client[c] EXCEPT !.at = "releases"]
          OBVIOUS
        <5>2. /\ q \in ClientSet /\ q.at = "releases" /\ q.op = "delete" /\ q.id = a /\ q.row = row
              /\ q.met = client[c].met
          BY <1>1, <1>2, <4>1, <5>1 DEF ClientSet
        <5> QED
          BY <2>3, <4>1, <5>1, <5>2
      <4>2. CASE client[c].op # "delete"
        BY <1>3, <2>3, <4>2 DEF App!Answer
      <4> QED
        BY <4>1, <4>2
    <3>2. RequestFits(q)'
      BY <1>1, <1>2, <1>3, <3>1 DEF RequestFits
    <3>3. FitsAlone(q)'
      BY <1>1, <1>2, <2>1, <3>1 DEF FitsAlone, RequestFits
    <3>4. gone' \in SUBSET gone
      BY <2>3
    <3>5. /\ client' \in [Clients -> ClientSet] /\ ClientsMeet'
          /\ \A d \in Clients : RequestFits(client[d])' /\ FitsAlone(client[d])'
      BY <1>1, <3>1, <3>2, <3>3, <3>4, RequestGoesOn
    <3>6. App!DeletionHolds'
      <4>1. ASSUME apps'[a] = row, row.live
            PROVE  a \notin gone'
        BY <1>1, <1>2, <2>3, <4>1 DEF RequestFits
      <4> QED
        BY <1>1, <2>1, <3>4, <4>1 DEF App!DeletionHolds, App!LiveApps, App!LiveReleases
    <3>7. AppTypes'
      BY <1>1, <2>1, <3>4, <3>5 DEF AppTypes
    <3> QED
      BY <3>5, <3>6, <3>7 DEF AppInv
  <2> QED
    BY <1>2, <2>2, <2>3, <1>5 DEF App!insertApp
<1>6. CASE App!Answer(c) /\ UNCHANGED <<apps, gone>>
  <2>1. /\ client' \in [Clients -> ClientSet] /\ ClientsMeet'
        /\ \A d \in Clients : RequestFits(client[d])' /\ FitsAlone(client[d])'
    BY <1>1, <1>3, <1>6, RequestGoesOn DEF App!Answer
  <2> QED
    BY <1>1, <1>6, <2>1 DEF AppInv, AppTypes, App!DeletionHolds, App!LiveApps, App!LiveReleases
<1> QED
  BY <1>2, <1>5, <1>6 DEF App!insertApp

\* The releases of a deleted application are looked up.
LEMMA ReleasesAreFound ==
  ASSUME AppInv, NEW c \in Clients, App!findReleases(c)
  PROVE  AppInv'
<1>1. /\ AppTypes /\ App!DeletionHolds /\ client[c] \in ClientSet /\ RequestFits(client[c]) /\ FitsAlone(client[c])
      /\ client[c].at = "releases" /\ ~ IsIdle(c) /\ UNCHANGED <<appMs, apps, releases, boot, gone>>
  BY DEF AppInv, AppTypes, App!findReleases, IsIdle, App!tables
<1>2. PICK q \in ClientSet :
          /\ App!Step(c, q) /\ (q.at = "idle" \/ q.met = client[c].met)
          /\ q.at # "idle" =>
                 /\ q.at = "cascade" /\ q.op = client[c].op /\ q.id = client[c].id
                 /\ q.row = client[c].row
                 /\ q.found = {r \in App!LiveReleases : releases[r].app = client[c].id}
  <2>1. CASE App!Answer(c)
    <3>1. App!IdleClient \in ClientSet /\ App!IdleClient.at = "idle"
      BY DEF App!IdleClient, ClientSet, App!NoApp, AppRow, AppSlugs
    <3> QED
      BY <2>1, <3>1 DEF App!Answer
  <2>2. CASE App!Step(c, [client[c] EXCEPT !.at = "cascade",
                      !.found = {r \in App!LiveReleases : releases[r].app = client[c].id}])
    <3>1. PICK theirs : theirs = {r \in App!LiveReleases : releases[r].app = client[c].id}
      OBVIOUS
    <3>2. theirs \in SUBSET ReleaseIds
      BY <3>1 DEF App!LiveReleases
    <3>3. PICK q : q = [client[c] EXCEPT !.at = "cascade", !.found = theirs]
      OBVIOUS
    <3>4. /\ q \in ClientSet /\ q.at = "cascade" /\ q.op = client[c].op /\ q.id = client[c].id
          /\ q.row = client[c].row /\ q.found = theirs /\ q.met = client[c].met
      BY <1>1, <3>2, <3>3 DEF ClientSet
    <3> QED
      BY <2>2, <3>1, <3>3, <3>4
  <2> QED
    BY <2>1, <2>2 DEF App!findReleases
<1>3. App!LiveReleases' = App!LiveReleases
  BY <1>1 DEF App!LiveReleases
<1>4. RequestFits(q)'
  BY <1>1, <1>2 DEF RequestFits
<1>5. FitsAlone(q)'
  BY <1>1, <1>2, <1>3 DEF FitsAlone
<1>6. /\ client' \in [Clients -> ClientSet] /\ ClientsMeet'
      /\ \A d \in Clients : RequestFits(client[d])' /\ FitsAlone(client[d])'
  BY <1>1, <1>2, <1>4, <1>5, RequestGoesOn
<1>7. AppTypes' /\ App!DeletionHolds'
  BY <1>1, <1>3, <1>6 DEF AppTypes, App!DeletionHolds, App!LiveApps
<1> QED
  BY <1>6, <1>7 DEF AppInv

\* They end.
LEMMA ReleasesEnd ==
  ASSUME AppInv, NEW c \in Clients, App!endReleases(c)
  PROVE  AppInv'
<1>1. /\ AppTypes /\ App!DeletionHolds /\ ClientsMeet /\ client[c] \in ClientSet
      /\ RequestFits(client[c]) /\ FitsAlone(client[c]) /\ client[c].at = "cascade" /\ ~ IsIdle(c)
      /\ UNCHANGED <<appMs, apps, boot>> /\ App!Answer(c)
  BY DEF AppInv, AppTypes, App!endReleases, IsIdle
<1>2. PICK a \in AppIds, ver \in Nat, theirs \in SUBSET ReleaseIds :
          /\ a = client[c].id /\ ver = client[c].row.ver /\ ver <= appMs /\ theirs = client[c].found
          /\ client[c].op = "delete"
  BY <1>1 DEF RequestFits, AppRow, ClientSet
<1>3. App!IdleClient \in ClientSet /\ App!IdleClient.at = "idle" /\ RequestFits(App!IdleClient)' /\ FitsAlone(App!IdleClient)'
  BY DEF App!IdleClient, ClientSet, App!NoApp, AppRow, AppSlugs, RequestFits, FitsAlone
<1>4. CASE releases' = releases /\ gone' = gone
  <2>1. /\ client' \in [Clients -> ClientSet] /\ ClientsMeet'
        /\ \A d \in Clients : RequestFits(client[d])' /\ FitsAlone(client[d])'
    BY <1>1, <1>3, <1>4, RequestGoesOn DEF App!Answer
  <2> QED
    BY <1>1, <1>4, <2>1 DEF AppInv, AppTypes, App!DeletionHolds, App!LiveApps, App!LiveReleases
<1>5. CASE /\ releases' = [r \in ReleaseIds |->
                IF r \in theirs /\ releases[r].ver <= ver
                THEN [releases[r] EXCEPT !.live = FALSE, !.ver = ver]
                ELSE releases[r]]
           /\ gone' = IF client[c].met THEN gone ELSE gone \cup {a}
  <2>1. ASSUME NEW r \in ReleaseIds
        PROVE  /\ releases'[r] \in ReleaseRow /\ releases'[r].ver <= appMs
               /\ releases'[r].live => releases[r].live /\ releases'[r].app = releases[r].app
               /\ releases'[r].live => ~ (r \in theirs /\ releases[r].ver <= ver)
    <3>1. releases[r] \in ReleaseRow /\ releases[r].ver <= appMs
      BY <1>1 DEF AppTypes
    <3>2. PICK u : u = [releases[r] EXCEPT !.live = FALSE, !.ver = ver]
      OBVIOUS
    <3>3. u \in ReleaseRow /\ u.ver = ver /\ ~ u.live
      BY <3>1, <3>2 DEF ReleaseRow
    <3>4. releases'[r] = IF r \in theirs /\ releases[r].ver <= ver THEN u ELSE releases[r]
      BY <1>5, <3>2
    <3> QED
      BY <1>2, <3>1, <3>3, <3>4
  <2>2. releases' \in [ReleaseIds -> ReleaseRow]
    <3>1. releases' = [r \in ReleaseIds |-> releases'[r]]
      BY <1>5
    <3> QED
      BY <2>1, <3>1
  <2>3. \A d \in Clients : d = c \/ IsIdle(d) \/ gone' \in SUBSET gone
    BY <1>1, <1>5 DEF ClientsMeet
  <2>4. /\ client' \in [Clients -> ClientSet] /\ ClientsMeet'
        /\ \A d \in Clients : RequestFits(client[d])' /\ FitsAlone(client[d])'
    BY <1>1, <1>3, <2>3, RequestGoesOn DEF App!Answer
  <2>5. App!DeletionHolds'
    <3>1. CASE client[c].met
      BY <1>1, <1>5, <2>1, <3>1 DEF App!DeletionHolds, App!LiveApps, App!LiveReleases
    <3>2. CASE ~ client[c].met
      <4>1. /\ ~ apps[a].live /\ \A r \in ReleaseIds : releases[r].ver <= ver
            /\ \A r \in App!LiveReleases : releases[r].app = a => r \in theirs
        BY <1>1, <1>2, <3>2 DEF FitsAlone
      <4>2. gone' \cap App!LiveApps' = {}
        BY <1>1, <1>5, <4>1 DEF App!DeletionHolds, App!LiveApps
      <4>3. ASSUME NEW r \in ReleaseIds, releases'[r].live
            PROVE  releases'[r].app \notin gone'
        BY <1>1, <1>5, <2>1, <4>1, <4>3 DEF App!DeletionHolds, App!LiveReleases
      <4> QED
        BY <4>2, <4>3 DEF App!DeletionHolds, App!LiveReleases
    <3> QED
      BY <3>1, <3>2
  <2>6. AppTypes'
    BY <1>1, <1>2, <1>5, <2>1, <2>2, <2>4 DEF AppTypes
  <2> QED
    BY <2>4, <2>5, <2>6 DEF AppInv
<1> QED
  BY <1>2, <1>4, <1>5 DEF App!endReleases, App!Deleted

\* The row of a release, and that of an artifact.
LEMMA ReleaseIsInserted ==
  ASSUME AppInv, NEW c \in Clients, App!insertRelease(c) \/ App!insertArtifact(c)
  PROVE  AppInv'
<1>1. /\ AppTypes /\ App!DeletionHolds /\ client[c] \in ClientSet /\ RequestFits(client[c]) /\ ~ IsIdle(c)
      /\ UNCHANGED <<appMs, apps, boot, gone>> /\ App!Answer(c)
      /\ \/ releases' = releases
         \/ client[c].at = "release" /\ releases' = App!Put(releases, client[c].id, client[c].row)
  BY DEF AppInv, AppTypes, App!insertRelease, App!insertArtifact, IsIdle
<1>2. App!IdleClient \in ClientSet /\ App!IdleClient.at = "idle" /\ RequestFits(App!IdleClient)' /\ FitsAlone(App!IdleClient)'
  BY DEF App!IdleClient, ClientSet, App!NoApp, AppRow, AppSlugs, RequestFits, FitsAlone
<1>3. /\ client' \in [Clients -> ClientSet] /\ ClientsMeet'
      /\ \A d \in Clients : RequestFits(client[d])' /\ FitsAlone(client[d])'
  BY <1>1, <1>2, RequestGoesOn DEF App!Answer
<1>4. CASE releases' = releases
  BY <1>1, <1>3, <1>4 DEF AppInv, AppTypes, App!DeletionHolds, App!LiveApps, App!LiveReleases
<1>5. CASE client[c].at = "release" /\ releases' = App!Put(releases, client[c].id, client[c].row)
  <2>1. PICK r \in ReleaseIds, row \in ReleaseRow :
            r = client[c].id /\ row = client[c].row /\ row.ver <= appMs /\ row.app \notin gone
    BY <1>1, <1>5 DEF RequestFits
  <2>a. AppTypes /\ r \in ReleaseIds /\ row \in ReleaseRow /\ row.ver <= appMs
    BY <1>1, <2>1
  <2>2. /\ \A x \in ReleaseRow : x.ver \in Nat
        /\ releases \in [ReleaseIds -> ReleaseRow] /\ appMs \in Nat
        /\ \A x \in ReleaseIds : releases[x].ver <= appMs
    BY <1>1 DEF AppTypes, ReleaseRow
  <2>3. /\ releases' \in [ReleaseIds -> ReleaseRow] /\ \A x \in ReleaseIds : releases'[x].ver <= appMs
        /\ \A x \in ReleaseIds : x # r => releases'[x] = releases[x]
        /\ releases'[r] = releases[r] \/ releases'[r] = row
    <3>1. PICK u : u = App!Put(releases, r, row)
      OBVIOUS
    <3>2. /\ u \in [ReleaseIds -> ReleaseRow] /\ \A x \in ReleaseIds : u[x].ver <= appMs
          /\ \A x \in ReleaseIds : x # r => u[x] = releases[x]
          /\ u[r] = releases[r] \/ u[r] = row
      BY <2>a, <3>1, ReleaseRowGoesIn, SMTT(60)
    <3> QED
      BY <1>5, <2>1, <3>1, <3>2
  <2>4. App!DeletionHolds'
    BY <1>1, <2>1, <2>3 DEF App!DeletionHolds, App!LiveApps, App!LiveReleases
  <2>5. AppTypes'
    BY <1>1, <1>3, <2>3 DEF AppTypes
  <2> QED
    BY <1>3, <2>4, <2>5 DEF AppInv
<1> QED
  BY <1>1, <1>4, <1>5

\* While the server starts there are no requests.
LEMMA NobodyIsServed ==
  ASSUME client' \in [Clients -> ClientSet], \A c \in Clients : client'[c].at = "idle"
  PROVE  ClientsMeet' /\ \A c \in Clients : RequestFits(client[c])' /\ FitsAlone(client[c])'
BY DEF ClientsMeet, RequestFits, FitsAlone, IsIdle

\* Rows of a start.
LEMMA SeedIsWritten ==
  ASSUME AppInv, App!seedAppRegistry
  PROVE  AppInv'
<1>1. /\ AppTypes /\ App!DeletionHolds /\ UNCHANGED <<appMs, client>> /\ appMs \in Nat
      /\ boot.app \in AppIds /\ boot.release \in ReleaseIds /\ boot' = App!Up
      /\ gone' = gone \ {boot.app} /\ \A c \in Clients : client'[c].at = "idle"
      /\ client' \in [Clients -> ClientSet]
  BY DEF AppInv, AppTypes, ClientsMeet, IsIdle, App!seedAppRegistry
<1>2. PICK appRow : appRow = [live |-> TRUE, ver |-> appMs, slug |-> Seed.slug]
  OBVIOUS
<1>3. PICK releaseRow : releaseRow = [live |-> TRUE, ver |-> appMs, app |-> boot.app]
  OBVIOUS
<1>4. appRow \in AppRow /\ releaseRow \in ReleaseRow /\ releaseRow.app = boot.app
      /\ appRow.ver <= appMs /\ releaseRow.ver <= appMs
  <2>1. appRow \in AppRow /\ appRow.ver = appMs
    BY <1>1, <1>2 DEF AppRow, AppSlugs
  <2>2. releaseRow \in ReleaseRow /\ releaseRow.ver = appMs /\ releaseRow.app = boot.app
    BY <1>1, <1>3 DEF ReleaseRow
  <2> QED
    BY <1>1, <2>1, <2>2
<1>a. /\ AppTypes /\ boot.app \in AppIds /\ appRow \in AppRow /\ appRow.ver <= appMs
      /\ boot.release \in ReleaseIds /\ releaseRow \in ReleaseRow /\ releaseRow.ver <= appMs
  BY <1>1, <1>4
<1>5. /\ apps' \in {apps, App!Put(apps, boot.app, appRow)}
      /\ releases' \in {releases, App!Put(releases, boot.release, releaseRow)}
  BY <1>2, <1>3 DEF App!seedAppRegistry
<1>6. /\ \A x \in AppRow : x.ver \in Nat
      /\ \A x \in ReleaseRow : x.ver \in Nat
      /\ apps \in [AppIds -> AppRow] /\ releases \in [ReleaseIds -> ReleaseRow]
      /\ \A x \in AppIds : apps[x].ver <= appMs
      /\ \A x \in ReleaseIds : releases[x].ver <= appMs
  BY <1>1 DEF AppTypes, AppRow, ReleaseRow
<1>7. /\ apps' \in [AppIds -> AppRow] /\ \A x \in AppIds : apps'[x].ver <= appMs
      /\ \A x \in AppIds : x # boot.app => apps'[x] = apps[x]
  <2>1. PICK u : u = App!Put(apps, boot.app, appRow)
    OBVIOUS
  <2>2. /\ u \in [AppIds -> AppRow] /\ \A x \in AppIds : u[x].ver <= appMs
        /\ \A x \in AppIds : x # boot.app => u[x] = apps[x]
    BY <1>a, <2>1, AppRowGoesIn, SMTT(60)
  <2> QED
    BY <1>5, <1>6, <2>1, <2>2
<1>8. /\ releases' \in [ReleaseIds -> ReleaseRow] /\ \A x \in ReleaseIds : releases'[x].ver <= appMs
      /\ \A x \in ReleaseIds : x # boot.release => releases'[x] = releases[x]
      /\ releases'[boot.release] = releases[boot.release] \/ releases'[boot.release] = releaseRow
  <2>1. PICK u : u = App!Put(releases, boot.release, releaseRow)
    OBVIOUS
  <2>2. /\ u \in [ReleaseIds -> ReleaseRow] /\ \A x \in ReleaseIds : u[x].ver <= appMs
        /\ \A x \in ReleaseIds : x # boot.release => u[x] = releases[x]
        /\ u[boot.release] = releases[boot.release] \/ u[boot.release] = releaseRow
    BY <1>a, <2>1, ReleaseRowGoesIn, SMTT(60)
  <2> QED
    BY <1>5, <1>6, <2>1, <2>2
<1>9. App!DeletionHolds'
  BY <1>1, <1>4, <1>7, <1>8 DEF App!DeletionHolds, App!LiveApps, App!LiveReleases
<1>10. AppTypes'
  BY <1>1, <1>7, <1>8 DEF AppTypes, App!Up
<1> QED
  BY <1>1, <1>9, <1>10, NobodyIsServed DEF AppInv

\* The other steps of a start, and the clock.
LEMMA ServerStarts ==
  ASSUME AppInv, App!Restart \/ App!lookupAppIDBySlug \/ App!lookupReleaseID \/ App!Tick
  PROVE  AppInv'
<1>1. /\ AppTypes /\ App!DeletionHolds /\ ClientsMeet /\ UNCHANGED <<apps, releases, gone>>
      /\ \A c \in Clients : RequestFits(client[c]) /\ FitsAlone(client[c])
  BY DEF AppInv, App!Restart, App!lookupAppIDBySlug, App!lookupReleaseID, App!Tick, App!tables
<1>2. App!DeletionHolds' /\ App!LiveReleases' = App!LiveReleases /\ App!LiveApps' = App!LiveApps
  BY <1>1 DEF App!DeletionHolds, App!LiveApps, App!LiveReleases
<1>3. CASE App!Restart
  <2>1. /\ UNCHANGED appMs /\ boot' = [App!Up EXCEPT !.at = "apps"] /\ client' = [c \in Clients |-> App!IdleClient]
    BY <1>3 DEF App!Restart
  <2>2. App!IdleClient \in ClientSet /\ App!IdleClient.at = "idle"
    BY DEF App!IdleClient, ClientSet, App!NoApp, AppRow, AppSlugs
  <2>3. client' \in [Clients -> ClientSet] /\ \A c \in Clients : client'[c].at = "idle"
    BY <2>1, <2>2
  <2>4. AppTypes'
    BY <1>1, <2>1, <2>3 DEF AppTypes, App!Up
  <2> QED
    BY <1>2, <2>3, <2>4, NobodyIsServed DEF AppInv
<1>4. CASE App!lookupAppIDBySlug \/ App!lookupReleaseID
  <2>1. UNCHANGED <<appMs, client>> /\ \A c \in Clients : client'[c].at = "idle"
    BY <1>1, <1>4 DEF App!lookupAppIDBySlug, App!lookupReleaseID, ClientsMeet, IsIdle
  <2>2. client' \in [Clients -> ClientSet]
    BY <1>1, <2>1 DEF AppTypes
  <2>3. DOMAIN boot = {"at", "app", "release"} /\ (boot.at \in {"releases", "rows"} => boot.app \in AppIds)
    BY <1>1 DEF AppTypes
  <2>4. /\ DOMAIN boot' = {"at", "app", "release"} /\ boot'.at \in {"releases", "rows"}
        /\ boot'.app \in AppIds /\ (boot'.at = "rows" => boot'.release \in ReleaseIds)
    <3>1. CASE App!lookupAppIDBySlug
      <4>1. PICK a \in AppIds : boot' = [boot EXCEPT !.at = "releases", !.app = a]
        BY <1>1, <3>1, FormsAssumption DEF App!lookupAppIDBySlug, App!LiveApps, App!NewId, AppTypes, App!AppAssumption
      <4> QED
        BY <2>3, <4>1
    <3>2. CASE App!lookupReleaseID
      <4>1. PICK r \in ReleaseIds : boot' = [boot EXCEPT !.at = "rows", !.release = r]
        BY <1>1, <3>2, FormsAssumption DEF App!lookupReleaseID, App!LiveReleases, App!NewId, AppTypes, App!AppAssumption
      <4>2. boot.at = "releases"
        BY <3>2 DEF App!lookupReleaseID
      <4> QED
        BY <2>3, <4>1, <4>2
    <3> QED
      BY <1>4, <3>1, <3>2
  <2>5. AppTypes'
    BY <1>1, <2>1, <2>4 DEF AppTypes
  <2> QED
    BY <1>2, <2>1, <2>2, <2>5, NobodyIsServed DEF AppInv
<1>5. CASE App!Tick
  <2>1. UNCHANGED <<client, boot>> /\ appMs' \in Nat /\ appMs <= appMs' /\ appMs \in Nat
    BY <1>1, <1>5 DEF App!Tick, AppTypes
  <2>2. AppTypes'
    <3>1. \A x \in AppIds : apps[x].ver \in Nat /\ apps[x].ver <= appMs
      BY <1>1 DEF AppTypes, AppRow
    <3>2. \A x \in ReleaseIds : releases[x].ver \in Nat /\ releases[x].ver <= appMs
      BY <1>1 DEF AppTypes, ReleaseRow
    <3>3. (\A x \in AppIds : apps'[x].ver <= appMs') /\ \A x \in ReleaseIds : releases'[x].ver <= appMs'
      BY <1>1, <2>1, <3>1, <3>2
    <3> QED
      BY <1>1, <2>1, <3>3 DEF AppTypes
  <2>3. ASSUME NEW c \in Clients
        PROVE  RequestFits(client[c])' /\ FitsAlone(client[c])'
    <3>1. \A x \in AppRow \cup ReleaseRow : x.ver \in Nat
      BY DEF AppRow, ReleaseRow
    <3>2. RequestFits(client[c])'
      BY <1>1, <2>1, <3>1 DEF RequestFits
    <3>3. FitsAlone(client[c])'
      BY <1>1, <1>2, <2>1 DEF FitsAlone
    <3> QED
      BY <3>2, <3>3
  <2>4. ClientsMeet'
    BY <1>1, <2>1 DEF ClientsMeet, IsIdle
  <2> QED
    BY <1>2, <2>2, <2>3, <2>4 DEF AppInv
<1> QED
  BY <1>3, <1>4, <1>5

\* In the first state nothing is there.
LEMMA AppsStart == App!Init => AppInv
<1> SUFFICES ASSUME App!Init
             PROVE  AppInv
  OBVIOUS
<1>1. App!NoApp \in AppRow /\ App!NoRelease \in ReleaseRow /\ ~ App!NoApp.live /\ ~ App!NoRelease.live
          /\ App!NoApp.ver = 0 /\ App!NoRelease.ver = 0
  BY DEF App!NoApp, AppRow, AppSlugs, App!NoRelease, ReleaseRow
<1>2. App!IdleClient \in ClientSet /\ App!IdleClient.at = "idle"
  BY DEF App!IdleClient, ClientSet, App!NoApp, AppRow, AppSlugs
<1>3. \A a \in AppIds : apps[a] = App!NoApp
  BY DEF App!Init
<1>4. \A r \in ReleaseIds : releases[r] = App!NoRelease
  BY DEF App!Init
<1>5. client \in [Clients -> ClientSet] /\ \A c \in Clients : client[c].at = "idle"
  BY <1>2 DEF App!Init
<1>6. AppTypes
  <2>1. apps \in [AppIds -> AppRow] /\ releases \in [ReleaseIds -> ReleaseRow]
    BY <1>1 DEF App!Init
  <2>2. boot.at = "apps" /\ DOMAIN boot = {"at", "app", "release"}
    BY DEF App!Init, App!Up
  <2>3. appMs = 1 /\ gone = {}
    BY DEF App!Init
  <2> QED
    BY <1>1, <1>3, <1>4, <1>5, <2>1, <2>2, <2>3 DEF AppTypes
<1>7. App!DeletionHolds
  BY DEF App!Init, App!DeletionHolds, App!LiveApps, App!LiveReleases, App!NoRelease
<1>8. ClientsMeet /\ \A c \in Clients : RequestFits(client[c]) /\ FitsAlone(client[c])
  BY <1>5 DEF ClientsMeet, RequestFits, FitsAlone, IsIdle
<1> QED
  BY <1>6, <1>7, <1>8 DEF AppInv

\* Every step keeps it.
LEMMA AppsGoOn == AppInv /\ [App!Next]_App!vars => AppInv'
<1> SUFFICES ASSUME AppInv, [App!Next]_App!vars
             PROVE  AppInv'
  OBVIOUS
<1>1. ASSUME NEW c \in Clients,
             \/ App!handleV1Apps(c) \/ App!createSettingsRepository(c) \/ App!handleV1AppPatch(c)
             \/ App!repoUpdate(c) \/ App!repoDelete(c) \/ App!insertApp(c)
             \/ App!findReleases(c) \/ App!endReleases(c)
             \/ App!repoAddRelease(c) \/ App!addRelease(c) \/ App!insertRelease(c) \/ App!addArtifact(c)
             \/ App!insertArtifact(c)
      PROVE  AppInv'
  BY <1>1, RequestIsMade, AppIsInserted, ReleasesAreFound, ReleasesEnd, ReleaseIsInserted
<1>2. CASE App!Restart \/ App!lookupAppIDBySlug \/ App!lookupReleaseID \/ App!seedAppRegistry \/ App!Tick
  BY <1>2, SeedIsWritten, ServerStarts
<1>3. CASE UNCHANGED App!vars
  BY <1>3 DEF App!vars, App!tables, AppInv, AppTypes, ClientsMeet, App!DeletionHolds, RequestFits, FitsAlone, IsIdle,
                  App!LiveApps, App!LiveReleases
<1> QED
  BY <1>1, <1>2, <1>3 DEF App!Next

\* What was deleted, with no other request at work, is gone.
THEOREM AppsStayDeleted == App!Spec => []App!DeletionHolds
<1>1. AppInv => App!DeletionHolds
  BY DEF AppInv
<1> QED
  BY <1>1, AppsStart, AppsGoOn, PTL DEF App!Spec

-----------------------------------------------------------------------------
(* Retention, prunes and backups.                                          *)

\* Lists of statements, and what is in them.
LEMMA TodoGoes ==
  ASSUME NEW S, NEW s \in Seq(S), s # <<>>
  PROVE  /\ Tail(s) \in Seq(S) /\ Head(s) \in S /\ Len(Tail(s)) = Len(s) - 1
         /\ Managed!Range(s) = {Head(s)} \cup Managed!Range(Tail(s))
<1>1. /\ Head(s) = s[1] /\ Head(s) \in S /\ Tail(s) \in Seq(S) /\ Len(Tail(s)) = Len(s) - 1
      /\ Len(s) \in Nat /\ Len(s) > 0 /\ DOMAIN s = 1..Len(s)
      /\ \A i \in 1..Len(Tail(s)) : Tail(s)[i] = s[i + 1]
  BY HeadTailProperties, EmptySeq, LenProperties
<1>2. DOMAIN Tail(s) = 1..(Len(s) - 1)
  BY <1>1, LenProperties
<1>3. ASSUME NEW x \in Managed!Range(s)
      PROVE  x \in {Head(s)} \cup Managed!Range(Tail(s))
  <2>1. PICK i \in 1..Len(s) : x = s[i]
    BY <1>1, <1>3 DEF Managed!Range
  <2>2. CASE i = 1
    BY <1>1, <2>1, <2>2
  <2>3. CASE i # 1
    <3>1. i - 1 \in 1..(Len(s) - 1) /\ s[(i - 1) + 1] = x
      BY <1>1, <2>1, <2>3
    <3> QED
      BY <1>1, <1>2, <3>1 DEF Managed!Range
  <2> QED
    BY <2>2, <2>3
<1>4. ASSUME NEW x \in {Head(s)} \cup Managed!Range(Tail(s))
      PROVE  x \in Managed!Range(s)
  <2>1. CASE x = Head(s)
    BY <1>1, <2>1 DEF Managed!Range
  <2>2. CASE x \in Managed!Range(Tail(s))
    <3>1. PICK i \in 1..(Len(s) - 1) : x = Tail(s)[i]
      BY <1>2, <2>2 DEF Managed!Range
    <3>2. i + 1 \in 1..Len(s) /\ x = s[i + 1]
      BY <1>1, <3>1
    <3> QED
      BY <1>1, <3>2 DEF Managed!Range
  <2> QED
    BY <2>1, <2>2, <1>4
<1> QED
  BY <1>1, <1>3, <1>4

LEMMA TodoJoins ==
  ASSUME NEW S, NEW s \in Seq(S), NEW t \in Seq(S)
  PROVE  s \o t \in Seq(S) /\ Managed!Range(s \o t) = Managed!Range(s) \cup Managed!Range(t)
<1>1. /\ s \o t \in Seq(S) /\ Len(s \o t) = Len(s) + Len(t) /\ Len(s) \in Nat /\ Len(t) \in Nat
      /\ DOMAIN s = 1..Len(s) /\ DOMAIN t = 1..Len(t) /\ DOMAIN (s \o t) = 1..(Len(s) + Len(t))
      /\ \A i \in 1..(Len(s) + Len(t)) : (s \o t)[i] = IF i <= Len(s) THEN s[i] ELSE t[i - Len(s)]
  BY ConcatProperties, LenProperties
<1>2. ASSUME NEW x \in Managed!Range(s \o t)
      PROVE  x \in Managed!Range(s) \cup Managed!Range(t)
  <2>1. PICK i \in 1..(Len(s) + Len(t)) : x = (s \o t)[i]
    BY <1>1, <1>2 DEF Managed!Range
  <2>2. CASE i <= Len(s)
    BY <1>1, <2>1, <2>2 DEF Managed!Range
  <2>3. CASE ~ (i <= Len(s))
    <3>1. i - Len(s) \in 1..Len(t) /\ x = t[i - Len(s)]
      BY <1>1, <2>1, <2>3
    <3> QED
      BY <1>1, <3>1 DEF Managed!Range
  <2> QED
    BY <2>2, <2>3
<1>3. ASSUME NEW x \in Managed!Range(s) \cup Managed!Range(t)
      PROVE  x \in Managed!Range(s \o t)
  <2>1. CASE x \in Managed!Range(s)
    <3>1. PICK i \in 1..Len(s) : x = s[i]
      BY <1>1, <2>1 DEF Managed!Range
    <3>2. i \in 1..(Len(s) + Len(t)) /\ x = (s \o t)[i]
      BY <1>1, <3>1
    <3> QED
      BY <1>1, <3>2 DEF Managed!Range
  <2>2. CASE x \in Managed!Range(t)
    <3>1. PICK i \in 1..Len(t) : x = t[i]
      BY <1>1, <2>2 DEF Managed!Range
    <3>2. i + Len(s) \in 1..(Len(s) + Len(t)) /\ ~ (i + Len(s) <= Len(s)) /\ i + Len(s) - Len(s) = i
      BY <1>1, <3>1
    <3>3. x = (s \o t)[i + Len(s)]
      BY <1>1, <3>1, <3>2
    <3> QED
      BY <1>1, <3>2, <3>3 DEF Managed!Range
  <2> QED
    BY <2>1, <2>2, <1>3
<1> QED
  BY <1>1, <1>2, <1>3

LEMMA TodoOfEach ==
  ASSUME NEW S, NEW list \in Seq(S), NEW w, NEW W, \A x \in S : Managed!Statement(w, x) \in W
  PROVE  /\ Managed!ForEach(w, list) \in Seq(W)
         /\ \A x \in Managed!Range(list) : Managed!Statement(w, x) \in Managed!Range(Managed!ForEach(w, list))
<1>1. DOMAIN list = 1..Len(list) /\ Len(list) \in Nat /\ \A i \in 1..Len(list) : list[i] \in S
  BY LenProperties, ElementOfSeq
<1>2. Managed!ForEach(w, list) = [i \in 1..Len(list) |-> Managed!Statement(w, list[i])]
  BY <1>1 DEF Managed!ForEach
<1>3. Managed!ForEach(w, list) \in Seq(W)
  <2>1. Managed!ForEach(w, list) \in [1..Len(list) -> W]
    BY <1>1, <1>2
  <2> QED
    BY <1>1, <2>1, SeqDef
<1>4. \A x \in Managed!Range(list) : Managed!Statement(w, x) \in Managed!Range(Managed!ForEach(w, list))
  BY <1>1, <1>2 DEF Managed!Range
<1> QED
  BY <1>3, <1>4

\* The tables, and the fields of a form.
DmTables == {"otel_logs", "metrics_gauge"}
DmKeys == {"place", "encrypt", "password", "days", "hours"}
LEMMA ListsHold ==
  /\ Managed!DayTables \in Seq(DmTables) /\ Managed!Range(Managed!DayTables) = {"otel_logs"}
  /\ Managed!MetricTables \in Seq(DmTables) /\ Managed!Range(Managed!MetricTables) = {"metrics_gauge"}
  /\ Managed!AllTables \in Seq(DmTables) /\ Managed!Range(Managed!AllTables) = DmTables
  /\ Managed!FormKeys \in Seq(DmKeys) /\ Managed!Range(Managed!FormKeys) = DmKeys
  /\ \A f : Managed!Retention("otel_logs", f) = f.days /\ Managed!Retention("metrics_gauge", f) = f.hours
<1>1. Managed!DayTables \in Seq(DmTables) /\ Managed!Range(Managed!DayTables) = {"otel_logs"}
  <2>1. DOMAIN <<"otel_logs">> = {1} /\ <<"otel_logs">>[1] = "otel_logs"
    OBVIOUS
  <2> QED
    BY <2>1 DEF Managed!DayTables, DmTables, Managed!Range
<1>2. Managed!MetricTables \in Seq(DmTables) /\ Managed!Range(Managed!MetricTables) = {"metrics_gauge"}
  <2>1. DOMAIN <<"metrics_gauge">> = {1} /\ <<"metrics_gauge">>[1] = "metrics_gauge"
    OBVIOUS
  <2> QED
    BY <2>1 DEF Managed!MetricTables, DmTables, Managed!Range
<1>3. Managed!AllTables \in Seq(DmTables) /\ Managed!Range(Managed!AllTables) = DmTables
  BY <1>1, <1>2, TodoJoins DEF Managed!AllTables, DmTables
<1>4. Managed!FormKeys \in Seq(DmKeys) /\ Managed!Range(Managed!FormKeys) = DmKeys
  <2>1. PICK s : s = <<"place", "encrypt", "password", "days", "hours">>
    OBVIOUS
  <2>2. /\ DOMAIN s = {1, 2, 3, 4, 5} /\ s[1] = "place" /\ s[2] = "encrypt" /\ s[3] = "password"
        /\ s[4] = "days" /\ s[5] = "hours" /\ s \in Seq(DmKeys)
    BY <2>1 DEF DmKeys
  <2> QED
    BY <2>1, <2>2 DEF Managed!FormKeys, DmKeys, Managed!Range
<1>5. \A f : Managed!Retention("otel_logs", f) = f.days /\ Managed!Retention("metrics_gauge", f) = f.hours
  BY <1>1 DEF Managed!Retention
<1> QED
  BY <1>1, <1>2, <1>3, <1>4, <1>5

\* The statements of each kind of request.
SaveSteps == {Managed!Statement("save", k) : k \in DmKeys}
TtlSteps == {Managed!Statement("ttl", t) : t \in DmTables}
PruneSteps == {Managed!Statement(w, t) : w \in {"delete", "optimize"}, t \in DmTables}
BackupSteps == {Managed!Statement(w, 0) : w \in {"list", "encrypt", "backup", "finish"}}
BackupKinds == {"full", "incremental"}
LEMMA TodosHold ==
  /\ \A f : /\ Managed!FormTodo(f) \in Seq(SaveSteps \cup TtlSteps) /\ SaveSteps \in SUBSET Managed!Range(Managed!FormTodo(f))
            /\ f.apply => \A t \in DmTables :
                   Managed!Retention(t, f) # 0 => Managed!Statement("ttl", t) \in Managed!Range(Managed!FormTodo(f))
  /\ \A p : Managed!PruneTodo(p) \in Seq(PruneSteps)
<1>1. ASSUME NEW f
      PROVE  /\ Managed!FormTodo(f) \in Seq(SaveSteps \cup TtlSteps) /\ SaveSteps \in SUBSET Managed!Range(Managed!FormTodo(f))
             /\ f.apply => \A t \in DmTables :
                    Managed!Retention(t, f) # 0 => Managed!Statement("ttl", t) \in Managed!Range(Managed!FormTodo(f))
  <2> DEFINE All == SaveSteps \cup TtlSteps
             saves == Managed!ForEach("save", Managed!FormKeys)
             days == Managed!Filled(Managed!DayTables, f.days)
             hours == Managed!Filled(Managed!MetricTables, f.hours)
             ttls == IF f.apply THEN days \o hours ELSE <<>>
  <2>1. saves \in Seq(All) /\ SaveSteps \in SUBSET Managed!Range(saves)
    <3>1. \A k \in DmKeys : Managed!Statement("save", k) \in All
      BY DEF SaveSteps
    <3>2. Managed!FormKeys \in Seq(DmKeys) /\ Managed!Range(Managed!FormKeys) = DmKeys
      BY ListsHold
    <3> HIDE DEF All
    <3>3. saves \in Seq(All) /\ \A k \in Managed!Range(Managed!FormKeys) : Managed!Statement("save", k) \in Managed!Range(saves)
      BY <3>1, <3>2, TodoOfEach
    <3> QED
      BY <3>2, <3>3 DEF SaveSteps
  <2>2. <<>> \in Seq(All) /\ Managed!Range(<<>>) = {}
    BY EmptySeq DEF Managed!Range
  <2>3. days \in Seq(All) /\ (f.days # 0 => Managed!Statement("ttl", "otel_logs") \in Managed!Range(days))
    <3>1. \A t \in DmTables : Managed!Statement("ttl", t) \in All
      BY DEF TtlSteps
    <3>2. Managed!DayTables \in Seq(DmTables) /\ Managed!Range(Managed!DayTables) = {"otel_logs"}
      BY ListsHold
    <3> HIDE DEF All
    <3>3. /\ Managed!ForEach("ttl", Managed!DayTables) \in Seq(All)
          /\ \A t \in Managed!Range(Managed!DayTables) : Managed!Statement("ttl", t) \in Managed!Range(Managed!ForEach("ttl", Managed!DayTables))
      BY <3>1, <3>2, TodoOfEach
    <3> QED
      BY <2>2, <3>2, <3>3 DEF Managed!Filled
  <2>4. hours \in Seq(All) /\ (f.hours # 0 => Managed!Statement("ttl", "metrics_gauge") \in Managed!Range(hours))
    <3>1. \A t \in DmTables : Managed!Statement("ttl", t) \in All
      BY DEF TtlSteps
    <3>2. Managed!MetricTables \in Seq(DmTables) /\ Managed!Range(Managed!MetricTables) = {"metrics_gauge"}
      BY ListsHold
    <3> HIDE DEF All
    <3>3. /\ Managed!ForEach("ttl", Managed!MetricTables) \in Seq(All)
          /\ \A t \in Managed!Range(Managed!MetricTables) : Managed!Statement("ttl", t) \in Managed!Range(Managed!ForEach("ttl", Managed!MetricTables))
      BY <3>1, <3>2, TodoOfEach
    <3> QED
      BY <2>2, <3>2, <3>3 DEF Managed!Filled
  <2> HIDE DEF All, saves, days, hours
  <2>5. ttls \in Seq(All) /\ (f.apply => Managed!Range(ttls) = Managed!Range(days) \cup Managed!Range(hours))
    BY <2>2, <2>3, <2>4, TodoJoins
  <2>6. Managed!FormTodo(f) = saves \o ttls
    BY DEF Managed!FormTodo, saves, days, hours
  <2> HIDE DEF ttls
  <2>7. saves \o ttls \in Seq(All) /\ Managed!Range(saves \o ttls) = Managed!Range(saves) \cup Managed!Range(ttls)
    BY <2>1, <2>5, TodoJoins
  <2>8. Managed!FormTodo(f) \in Seq(SaveSteps \cup TtlSteps) /\ SaveSteps \in SUBSET Managed!Range(Managed!FormTodo(f))
    BY <2>1, <2>6, <2>7 DEF All
  <2>9. ASSUME f.apply, NEW t \in DmTables, Managed!Retention(t, f) # 0
        PROVE  Managed!Statement("ttl", t) \in Managed!Range(Managed!FormTodo(f))
    <3>1. CASE t = "otel_logs"
      BY <2>3, <2>5, <2>6, <2>7, <2>9, <3>1, ListsHold
    <3>2. CASE t = "metrics_gauge"
      BY <2>4, <2>5, <2>6, <2>7, <2>9, <3>2, ListsHold
    <3> QED
      BY <2>9, <3>1, <3>2 DEF DmTables
  <2> QED
    BY <2>8, <2>9
<1>2. ASSUME NEW p
      PROVE  Managed!PruneTodo(p) \in Seq(PruneSteps)
  <2>1. /\ Managed!ForEach("delete", Managed!AllTables) \in Seq(PruneSteps)
        /\ Managed!ForEach("optimize", Managed!AllTables) \in Seq(PruneSteps)
    <3>1. Managed!AllTables \in Seq(DmTables)
      BY ListsHold
    <3>2. \A w \in {"delete", "optimize"}, t \in DmTables : Managed!Statement(w, t) \in PruneSteps
      BY DEF PruneSteps
    <3> QED
      BY <3>1, <3>2, TodoOfEach
  <2>2. <<>> \in Seq(PruneSteps)
    BY EmptySeq
  <2> QED
    BY <2>1, <2>2, TodoJoins DEF Managed!PruneTodo
<1> QED
  BY <1>1, <1>2

\* What is left of a backup, from its list of backups to nothing.
Todo4 == <<Managed!Statement("list", 0), Managed!Statement("encrypt", 0), Managed!Statement("backup", 0), Managed!Statement("finish", 0)>>
Todo3 == <<Managed!Statement("encrypt", 0), Managed!Statement("backup", 0), Managed!Statement("finish", 0)>>
Todo2 == <<Managed!Statement("backup", 0), Managed!Statement("finish", 0)>>
Todo1 == <<Managed!Statement("finish", 0)>>
BackupRests == {Todo4, Todo3, Todo2, Todo1, <<>>}
LEMMA BackupTodos ==
  /\ \A kind \in BackupKinds : Managed!BackupTodo(kind) \in {Todo4, Todo3}
  /\ Tail(Todo4) = Todo3 /\ Tail(Todo3) = Todo2 /\ Tail(Todo2) = Todo1 /\ Tail(Todo1) = <<>>
  /\ Head(Todo4) = Managed!Statement("list", 0) /\ Head(Todo3) = Managed!Statement("encrypt", 0)
  /\ Head(Todo2) = Managed!Statement("backup", 0) /\ Head(Todo1) = Managed!Statement("finish", 0)
  /\ SubSeq(Todo3, 1, 1) = <<Managed!Statement("encrypt", 0)>> /\ Tail(<<Managed!Statement("encrypt", 0)>>) = <<>>
  /\ Todo4 # <<>> /\ Todo3 # <<>> /\ Todo2 # <<>> /\ Todo1 # <<>>
  /\ BackupRests \in SUBSET Seq(BackupSteps)
<1>1. \A kind \in BackupKinds : Managed!BackupTodo(kind) \in {Todo4, Todo3}
  <2>1. PICK a, b, d, e : /\ a = Managed!Statement("list", 0) /\ b = Managed!Statement("encrypt", 0)
                          /\ d = Managed!Statement("backup", 0) /\ e = Managed!Statement("finish", 0)
    OBVIOUS
  <2>2. <<a>> \o <<b, d, e>> = <<a, b, d, e>>
    <3>1. PICK S : S = {a, b, d, e}
      OBVIOUS
    <3>2. PICK s, t, u : s = <<a>> /\ t = <<b, d, e>> /\ u = <<a, b, d, e>>
      OBVIOUS
    <3>3. /\ s \in Seq(S) /\ Len(s) = 1 /\ s[1] = a /\ t \in Seq(S) /\ Len(t) = 3
          /\ t[1] = b /\ t[2] = d /\ t[3] = e
          /\ u \in Seq(S) /\ Len(u) = 4 /\ u[1] = a /\ u[2] = b /\ u[3] = d /\ u[4] = e
      BY <3>1, <3>2
    <3>4. /\ s \o t \in Seq(S) /\ Len(s \o t) = Len(s) + Len(t)
          /\ \A i \in 1..Len(s) + Len(t) : (s \o t)[i] = IF i <= Len(s) THEN s[i] ELSE t[i - Len(s)]
      BY <3>3, ConcatProperties
    <3>5. \A i \in 1..4 : (s \o t)[i] = u[i]
      <4>1. \A i \in 1..4 : i \in {1, 2, 3, 4}
        OBVIOUS
      <4>2. /\ (s \o t)[1] = s[1] /\ (s \o t)[2] = t[1] /\ (s \o t)[3] = t[2]
            /\ (s \o t)[4] = t[3]
        BY <3>3, <3>4
      <4>3. /\ (s \o t)[1] = u[1] /\ (s \o t)[2] = u[2] /\ (s \o t)[3] = u[3]
            /\ (s \o t)[4] = u[4]
        BY <3>3, <4>2
      <4> QED
        BY <4>1, <4>3
    <3>6. s \o t = u
      <4>1. /\ s \o t \in Seq(S) /\ u \in Seq(S) /\ Len(s \o t) = 4 /\ Len(u) = 4
        BY <3>3, <3>4
      <4>2. Len(s \o t) = Len(u) /\ \A i \in 1..Len(s \o t) : (s \o t)[i] = u[i]
        BY <3>5, <4>1
      <4> QED
        BY <4>1, <4>2, SeqEqual
    <3> QED
      BY <3>2, <3>6
  <2>3. <<>> \o <<b, d, e>> = <<b, d, e>>
    OBVIOUS
  <2> QED
    BY <2>1, <2>2, <2>3 DEF BackupKinds, Managed!BackupTodo, Todo4, Todo3
<1>2. Tail(Todo4) = Todo3 /\ Tail(Todo3) = Todo2 /\ Tail(Todo2) = Todo1 /\ Tail(Todo1) = <<>>
  BY DEF Todo4, Todo3, Todo2, Todo1
<1>3. /\ Head(Todo4) = Managed!Statement("list", 0) /\ Head(Todo3) = Managed!Statement("encrypt", 0)
      /\ Head(Todo2) = Managed!Statement("backup", 0) /\ Head(Todo1) = Managed!Statement("finish", 0)
  BY DEF Todo4, Todo3, Todo2, Todo1
<1>4. SubSeq(Todo3, 1, 1) = <<Managed!Statement("encrypt", 0)>> /\ Tail(<<Managed!Statement("encrypt", 0)>>) = <<>>
  <2>1. PICK b, d, e : /\ b = Managed!Statement("encrypt", 0)
                       /\ d = Managed!Statement("backup", 0) /\ e = Managed!Statement("finish", 0)
    OBVIOUS
  <2>2. SubSeq(<<b, d, e>>, 1, 1) = <<b>>
    <3>1. PICK S : S = {b, d, e}
      OBVIOUS
    <3>2. PICK s, t : s = <<b, d, e>> /\ t = <<b>>
      OBVIOUS
    <3>3. s[1] = b /\ t \in Seq(S) /\ Len(t) = 1 /\ t[1] = b /\ \A i \in 1..1 : s[i] \in S
      BY <3>1, <3>2
    <3>4. /\ SubSeq(s, 1, 1) \in Seq(S) /\ Len(SubSeq(s, 1, 1)) = 1
          /\ \A i \in 1..1 : SubSeq(s, 1, 1)[i] = s[1 + i - 1]
      BY <3>3, SubSeqProperties
    <3>5. \A i \in 1..1 : SubSeq(s, 1, 1)[i] = t[i]
      BY <3>3, <3>4
    <3>6. SubSeq(s, 1, 1) = t
      <4>1. SubSeq(s, 1, 1) \in Seq(S) /\ t \in Seq(S) /\ Len(SubSeq(s, 1, 1)) = 1 /\ Len(t) = 1
        BY <3>3, <3>4
      <4>2. /\ Len(SubSeq(s, 1, 1)) = Len(t)
            /\ \A i \in 1..Len(SubSeq(s, 1, 1)) : SubSeq(s, 1, 1)[i] = t[i]
        BY <3>5, <4>1
      <4> QED
        BY <4>1, <4>2, SeqEqual
    <3> QED
      BY <3>2, <3>6
  <2>3. Tail(<<b>>) = <<>>
    OBVIOUS
  <2> QED
    BY <2>1, <2>2, <2>3 DEF Todo3
<1>5. Todo4 # <<>> /\ Todo3 # <<>> /\ Todo2 # <<>> /\ Todo1 # <<>>
  BY DEF Todo4, Todo3, Todo2, Todo1
<1>6. BackupRests \in SUBSET Seq(BackupSteps)
  BY DEF BackupRests, Todo4, Todo3, Todo2, Todo1, BackupSteps
<1> QED
  BY <1>1, <1>2, <1>3, <1>4, <1>5, <1>6

\* What a request at work is, whatever the rest of the state.
JobFields == {"kind", "todo", "form", "period", "errors", "done", "base", "row", "place", "basePlace",
              "encrypted", "without", "clean"}
JobShape(j) ==
    /\ DOMAIN j = JobFields /\ j.clean \in BOOLEAN
    /\ j.kind \in {"none", "form", "prune"} \cup BackupKinds
    /\ j.kind = "none" => j = Managed!NoJob
    /\ j.kind = "form" => j.todo \in Seq(SaveSteps \cup TtlSteps)
    /\ j.kind = "prune" => /\ j.todo \in Seq(PruneSteps)
                           /\ ~ j.errors => j.done \cup Managed!Range(j.todo) = Managed!Range(Managed!PruneTodo(j.period))
    /\ j.kind \in BackupKinds => j.todo \in BackupRests
\* What it has done, as long as nothing overlapped it and no statement failed.
FormHolds(j) ==
    /\ \A k \in {"days", "hours"} : Managed!Statement("save", k) \in Managed!Range(j.todo) \/ setting[k] = j.form[k]
    /\ j.form.apply => \A t \in DmTables : Managed!Retention(t, j.form) # 0 =>
           Managed!Statement("ttl", t) \in Managed!Range(j.todo) \/ ttlOf[t] = Managed!Retention(t, j.form)
BackupHolds(j) ==
    /\ j.todo # <<>> => /\ ~ j.errors /\ ~ j.without
                        /\ j.base # 0 => j.base \in DOMAIN backups /\ backups[j.base].status = "complete"
    /\ j.todo \in {Todo2, Todo1, <<>>} /\ ~ j.without => (j.encrypted <=> setting.encrypt = 1)
    /\ j.todo = Todo1 => j.row \in DOMAIN backups
    /\ j.todo = <<>> /\ j.errors => \/ j.without
                                    \/ j.base # 0 /\ backups[j.base].place # j.basePlace
JobHolds(j) ==
    j.clean => (j.kind = "form" => FormHolds(j)) /\ (j.kind \in BackupKinds => BackupHolds(j))
DmTypes ==
    /\ DOMAIN setting = DmKeys /\ DOMAIN ttlOf = DmTables /\ DOMAIN job = Clerks
    /\ \E S : backups \in Seq(S) /\ \A r \in S : DOMAIN r = {"status", "place"}
\* Who is at work with nothing overlapping is alone, and prunes are.
AtWorkAlone ==
    /\ \A c, d \in Clerks : c # d /\ job[c].clean /\ job[c].kind # "none" => job[d] = Managed!NoJob
    /\ \A c \in Clerks : job[c].kind = "prune" => pruneLock
    /\ \A c, d \in Clerks : job[c].kind = "prune" /\ job[d].kind = "prune" => c = d
\* While an answer is looked at that nothing overlapped, nobody is at work.
LookedAt ==
    /\ replied.kind = "prune" /\ ~ replied.errors => replied.done = Managed!Range(Managed!PruneTodo(replied.period))
    /\ replied.kind # "none" /\ replied.clean => \A c \in Clerks : job[c] = Managed!NoJob
    /\ Managed!RetentionIsInForce /\ Managed!BackupsGoOn
DmInv ==
    /\ DmTypes /\ AtWorkAlone /\ LookedAt /\ Managed!SecretStays
    /\ \A c \in Clerks : JobShape(job[c]) /\ JobHolds(job[c])

LEMMA NoJobHolds == JobShape(Managed!NoJob) /\ JobHolds(Managed!NoJob) /\ Managed!NoJob.todo = <<>> /\ Managed!NoJob.kind = "none"
BY DEF JobShape, JobHolds, Managed!NoJob, JobFields, BackupKinds

LEMMA NoJobStays ==
  ASSUME NEW b, b = Managed!NoJob.clean
  PROVE  [Managed!NoJob EXCEPT !.clean = b] = Managed!NoJob
<1>1. Managed!NoJob \in [kind : {"none"}, todo : {<<>>}, form : {Managed!NoForm}, period : {FALSE}, errors : {FALSE},
                 done : {{}}, base : {0}, row : {0}, place : {0}, basePlace : {0},
                 encrypted : {FALSE}, without : {FALSE}, clean : {TRUE}]
  BY DEF Managed!NoJob
<1> QED
  BY <1>1

\* A statement is made, and the request goes on.
LEMMA JobGoesOn ==
  ASSUME DmInv, NEW c \in Clerks, NEW j, job' = [job EXCEPT ![c] = j], job[c].todo # <<>>,
         UNCHANGED <<pruneLock, replied>>, JobShape(j), JobHolds(j)', j.kind = job[c].kind,
         j.clean => job[c].clean, DmTypes', Managed!SecretStays'
  PROVE  DmInv'
<1>1. /\ job[c].kind # "none" /\ job[c] # Managed!NoJob /\ job'[c] = j
      /\ \A d \in Clerks : d # c => job'[d] = job[d]
  BY NoJobHolds DEF DmInv, DmTypes, JobShape
<1>2. \A d \in Clerks : d # c => job[d].kind = "none" \/ ~ job[d].clean
  BY <1>1 DEF DmInv, AtWorkAlone
<1>3. ASSUME NEW d \in Clerks
      PROVE  (JobShape(job[d]) /\ JobHolds(job[d]))'
  <2>1. CASE d = c
    BY <1>1, <2>1 DEF JobShape, JobHolds, FormHolds, BackupHolds
  <2>2. CASE d # c
    <3>1. JobShape(job[d])'
      BY <1>1, <2>2 DEF DmInv, JobShape
    <3>2. JobHolds(job[d])'
      BY <1>1, <1>2, <2>2 DEF JobHolds, BackupKinds
    <3> QED
      BY <3>1, <3>2
  <2> QED
    BY <2>1, <2>2
<1>4. AtWorkAlone'
  BY <1>1, <1>2 DEF DmInv, AtWorkAlone
<1>5. LookedAt'
  <2>1. replied' = replied /\ LookedAt /\ ~ (replied.kind # "none" /\ replied.clean)
    BY <1>1 DEF DmInv, LookedAt
  <2> QED
    BY <2>1 DEF LookedAt, Managed!RetentionIsInForce, Managed!BackupsGoOn
<1> QED
  BY <1>3, <1>4, <1>5 DEF DmInv

\* A request begins; those that are at work are then overlapped.
LEMMA JobBegins ==
  ASSUME DmInv, NEW c \in Clerks, NEW j, Managed!Start(c, j), JobShape(j), JobHolds(j), j.clean, j.kind # "none",
         IF j.kind = "prune" THEN ~ pruneLock /\ pruneLock' ELSE pruneLock' = pruneLock
  PROVE  DmInv'
<1>1. PICK alone \in BOOLEAN : alone <=> \A d \in Clerks : job[d] = Managed!NoJob
  OBVIOUS
<1>2. /\ job' = [d \in Clerks |-> IF d = c THEN [j EXCEPT !.clean = alone]
                                  ELSE [job[d] EXCEPT !.clean = @ /\ job[d] = Managed!NoJob]]
      /\ job[c] = Managed!NoJob /\ UNCHANGED <<setting, ttlOf, backups, secret>> /\ replied' = Managed!NoJob
  BY <1>1 DEF Managed!Start
<1>3. PICK q : q = [j EXCEPT !.clean = alone]
  OBVIOUS
<1>4. /\ q.clean = alone /\ DOMAIN q = JobFields /\ \A k \in JobFields \ {"clean"} : q[k] = j[k]
  BY <1>3 DEF JobShape, JobFields
<1>5. JobShape(q) /\ JobHolds(q)' /\ q.kind = j.kind
  <2>1. JobShape(q) /\ q.kind = j.kind
    BY <1>4 DEF JobShape, JobFields
  <2>2. JobHolds(q)'
    BY <1>2, <1>4 DEF JobHolds, FormHolds, BackupHolds, JobFields
  <2> QED
    BY <2>1, <2>2
<1>6. ASSUME NEW d \in Clerks, d # c
      PROVE  /\ JobShape(job[d])' /\ job'[d].kind = job[d].kind
             /\ job'[d] = Managed!NoJob \/ (~ job'[d].clean /\ job'[d].kind # "none")
             /\ alone => job'[d] = Managed!NoJob
  <2>1. JobShape(job[d])
    BY DEF DmInv
  <2>2. CASE job[d] = Managed!NoJob
    <3>1. PICK b \in BOOLEAN : b <=> (job[d].clean /\ job[d] = Managed!NoJob)
      OBVIOUS
    <3>2. b = Managed!NoJob.clean
      BY <2>2, <3>1 DEF Managed!NoJob
    <3>3. job'[d] = [Managed!NoJob EXCEPT !.clean = b]
      BY <1>2, <1>6, <2>2, <3>1
    <3>4. job'[d] = Managed!NoJob
      BY <3>2, <3>3, NoJobStays
    <3> QED
      BY <2>1, <2>2, <3>4, NoJobHolds
  <2>3. CASE job[d] # Managed!NoJob
    <3>1. job'[d] = [job[d] EXCEPT !.clean = FALSE]
      BY <1>2, <1>6, <2>3
    <3>2. /\ job'[d].clean = FALSE /\ DOMAIN job'[d] = JobFields
          /\ \A k \in JobFields \ {"clean"} : job'[d][k] = job[d][k]
      BY <2>1, <3>1 DEF JobShape, JobFields
    <3>3. job[d].kind # "none" /\ ~ alone
      BY <1>1, <2>1, <2>3 DEF JobShape
    <3> QED
      BY <2>1, <3>2, <3>3 DEF JobShape, JobFields
  <2> QED
    BY <2>2, <2>3
<1>7. job'[c] = q
  BY <1>2, <1>3
<1>8. \A d \in Clerks : JobShape(job[d])' /\ JobHolds(job[d])'
  <2>1. JobShape(job[c])' /\ JobHolds(job[c])'
    BY <1>5, <1>7 DEF JobShape, JobHolds, FormHolds, BackupHolds
  <2>2. ASSUME NEW d \in Clerks, d # c
        PROVE  JobShape(job[d])' /\ JobHolds(job[d])'
    <3>1. job'[d].kind = "none" \/ ~ job'[d].clean
      BY <1>6, <2>2, NoJobHolds
    <3> QED
      BY <1>6, <2>2, <3>1 DEF JobHolds, BackupKinds
  <2> QED
    BY <2>1, <2>2
<1>9. AtWorkAlone'
  <2>1. /\ \A d \in Clerks : d # c => job'[d].kind = job[d].kind
        /\ job'[c].kind = j.kind /\ job'[c].clean = alone
    BY <1>4, <1>5, <1>6, <1>7
  <2>2. /\ \A d \in Clerks : d # c => job'[d].kind = "none" \/ ~ job'[d].clean
        /\ alone => \A d \in Clerks : d # c => job'[d] = Managed!NoJob
    BY <1>6, NoJobHolds
  <2>3. \A d, e \in Clerks : d # e /\ job'[d].clean /\ job'[d].kind # "none" => job'[e] = Managed!NoJob
    BY <2>1, <2>2
  <2>4. /\ \A d \in Clerks : job[d].kind = "prune" => pruneLock
        /\ \A d, e \in Clerks : job[d].kind = "prune" /\ job[e].kind = "prune" => d = e
    BY DEF DmInv, AtWorkAlone
  <2>5. /\ \A d \in Clerks : job'[d].kind = "prune" => pruneLock'
        /\ \A d, e \in Clerks : job'[d].kind = "prune" /\ job'[e].kind = "prune" => d = e
    BY <2>1, <2>4
  <2> QED
    BY <2>3, <2>5 DEF AtWorkAlone
<1>10. LookedAt' /\ Managed!SecretStays' /\ DmTypes'
  BY <1>2, NoJobHolds DEF DmInv, LookedAt, Managed!SecretStays, DmTypes, Managed!RetentionIsInForce, Managed!BackupsGoOn
<1> QED
  BY <1>8, <1>9, <1>10 DEF DmInv

\* Requests begin.
LEMMA RequestsBegin ==
  ASSUME DmInv, NEW c \in Clerks,
         \/ \E f \in Saves : Managed!StartForm(c, f)
         \/ \E period \in BOOLEAN : Managed!StartPrune(c, period)
         \/ \E kind \in BackupKinds : Managed!StartBackup(c, kind)
  PROVE  DmInv'
<1>1. Managed!NoJob.clean = TRUE /\ DOMAIN Managed!NoJob = JobFields /\ Managed!NoJob.done = {} /\ Managed!NoJob.base = 0
              /\ ~ Managed!NoJob.errors /\ ~ Managed!NoJob.without
  BY DEF Managed!NoJob, JobFields
<1>2. ASSUME NEW f \in Saves, Managed!StartForm(c, f)
      PROVE  DmInv'
  <2>1. PICK todo : todo = Managed!FormTodo(f)
    OBVIOUS
  <2>2. PICK j : j = [Managed!NoJob EXCEPT !.kind = "form", !.todo = todo, !.form = f]
    OBVIOUS
  <2>3. /\ DOMAIN j = JobFields /\ j.kind = "form" /\ j.todo = todo /\ j.form = f /\ j.clean = TRUE
    BY <1>1, <2>2 DEF JobFields
  <2>4. /\ todo \in Seq(SaveSteps \cup TtlSteps) /\ SaveSteps \in SUBSET Managed!Range(todo)
        /\ f.apply => \A t \in DmTables : Managed!Retention(t, f) # 0 => Managed!Statement("ttl", t) \in Managed!Range(todo)
    BY <2>1, TodosHold
  <2>5. \A k \in {"days", "hours"} : Managed!Statement("save", k) \in Managed!Range(todo)
    BY <2>4 DEF SaveSteps, DmKeys
  <2>6. FormHolds(j)
    BY <2>3, <2>4, <2>5 DEF FormHolds
  <2>7. JobShape(j) /\ JobHolds(j)
    BY <2>3, <2>4, <2>6 DEF JobShape, JobHolds, BackupKinds
  <2>8. Managed!Start(c, j) /\ pruneLock' = pruneLock
    BY <1>2, <2>1, <2>2 DEF Managed!StartForm
  <2> QED
    BY <2>3, <2>7, <2>8, JobBegins
<1>3. ASSUME NEW period \in BOOLEAN, Managed!StartPrune(c, period)
      PROVE  DmInv'
  <2>1. PICK todo : todo = Managed!PruneTodo(period)
    OBVIOUS
  <2>2. PICK j : j = [Managed!NoJob EXCEPT !.kind = "prune", !.todo = todo, !.period = period]
    OBVIOUS
  <2>3. /\ DOMAIN j = JobFields /\ j.kind = "prune" /\ j.todo = todo /\ j.period = period
        /\ j.clean = TRUE /\ j.done = {}
    BY <1>1, <2>2 DEF JobFields
  <2>4. JobShape(j) /\ JobHolds(j)
    BY <2>1, <2>3, TodosHold DEF JobShape, JobHolds, BackupKinds
  <2>5. Managed!Start(c, j) /\ ~ pruneLock /\ pruneLock'
    BY <1>3, <2>1, <2>2 DEF Managed!StartPrune
  <2> QED
    BY <2>3, <2>4, <2>5, JobBegins
<1>4. ASSUME NEW kind \in BackupKinds, Managed!StartBackup(c, kind)
      PROVE  DmInv'
  <2>1. PICK todo : todo = Managed!BackupTodo(kind)
    OBVIOUS
  <2>2. PICK j : j = [Managed!NoJob EXCEPT !.kind = kind, !.todo = todo, !.place = setting.place]
    OBVIOUS
  <2>3. /\ DOMAIN j = JobFields /\ j.kind = kind /\ j.todo = todo
        /\ j.clean = TRUE /\ j.base = 0 /\ ~ j.errors /\ ~ j.without
    BY <1>1, <2>2 DEF JobFields
  <2>4. todo \in {Todo4, Todo3} /\ todo \notin {Todo2, Todo1, <<>>}
    <3>1. /\ Head(Todo4) = Managed!Statement("list", 0) /\ Head(Todo3) = Managed!Statement("encrypt", 0)
          /\ Head(Todo2) = Managed!Statement("backup", 0) /\ Head(Todo1) = Managed!Statement("finish", 0)
          /\ Todo4 # <<>> /\ Todo3 # <<>> /\ todo \in {Todo4, Todo3}
      BY <2>1, BackupTodos
    <3>2. /\ Managed!Statement("list", 0)[1] = "list" /\ Managed!Statement("encrypt", 0)[1] = "encrypt"
          /\ Managed!Statement("backup", 0)[1] = "backup" /\ Managed!Statement("finish", 0)[1] = "finish"
      BY DEF Managed!Statement
    <3> QED
      BY <3>1, <3>2
  <2>5. BackupHolds(j)
    BY <2>3, <2>4 DEF BackupHolds
  <2>6. JobShape(j) /\ JobHolds(j)
    BY <2>3, <2>4, <2>5 DEF JobShape, JobHolds, BackupKinds, BackupRests
  <2>7. Managed!Start(c, j) /\ pruneLock' = pruneLock
    BY <1>4, <2>1, <2>2 DEF Managed!StartBackup
  <2>8. j.kind # "none" /\ j.kind # "prune"
    BY <2>3 DEF BackupKinds
  <2> QED
    BY <2>3, <2>6, <2>7, <2>8, JobBegins
<1> QED
  BY <1>2, <1>3, <1>4

\* The word of a statement tells the kind of its request.
LEMMA WordsTell ==
  ASSUME NEW j, JobShape(j), j.todo # <<>>
  PROVE  /\ Head(j.todo)[1] \in {"save", "ttl"} => j.kind = "form"
         /\ Head(j.todo)[1] \in {"delete", "optimize"} => j.kind = "prune"
         /\ Head(j.todo)[1] \in {"list", "encrypt", "backup", "finish"} => j.kind \in BackupKinds
         /\ Head(j.todo)[1] = "save" => Head(j.todo) = Managed!Statement("save", Head(j.todo)[2]) /\ Head(j.todo)[2] \in DmKeys
         /\ Head(j.todo)[1] = "ttl" => Head(j.todo) = Managed!Statement("ttl", Head(j.todo)[2]) /\ Head(j.todo)[2] \in DmTables
         /\ j.kind \in BackupKinds => /\ Head(j.todo)[1] = "list" => j.todo = Todo4
                                      /\ Head(j.todo)[1] = "encrypt" => j.todo = Todo3
                                      /\ Head(j.todo)[1] = "backup" => j.todo = Todo2
                                      /\ Head(j.todo)[1] = "finish" => j.todo = Todo1
<1>1. CASE j.kind = "form"
  <2>1. Head(j.todo) \in SaveSteps \cup TtlSteps
    <3>1. PICK s : s = j.todo
      OBVIOUS
    <3>2. s \in Seq(SaveSteps \cup TtlSteps) /\ s # <<>>
      BY <1>1, <3>1 DEF JobShape
    <3>3. Head(s) \in SaveSteps \cup TtlSteps
      BY <3>2
    <3> QED
      BY <3>1, <3>3
  <2> QED
    BY <1>1, <2>1 DEF SaveSteps, TtlSteps, Managed!Statement, BackupKinds
<1>2. CASE j.kind = "prune"
  <2>1. Head(j.todo) \in PruneSteps
    <3>1. PICK s : s = j.todo
      OBVIOUS
    <3>2. s \in Seq(PruneSteps) /\ s # <<>>
      BY <1>2, <3>1 DEF JobShape
    <3>3. Head(s) \in PruneSteps
      BY <3>2
    <3> QED
      BY <3>1, <3>3
  <2> QED
    BY <1>2, <2>1 DEF PruneSteps, Managed!Statement, BackupKinds
<1>3. CASE j.kind \in BackupKinds
  <2>1. j.todo \in {Todo4, Todo3, Todo2, Todo1}
    BY <1>3 DEF JobShape, BackupRests
  <2>2. /\ Head(Todo4) = <<"list", 0>> /\ Head(Todo3) = <<"encrypt", 0>>
        /\ Head(Todo2) = <<"backup", 0>> /\ Head(Todo1) = <<"finish", 0>>
    BY BackupTodos DEF Managed!Statement
  <2> QED
    BY <1>3, <2>1, <2>2
<1>4. j.kind # "none"
  BY NoJobHolds DEF JobShape
<1> QED
  BY <1>1, <1>2, <1>3, <1>4 DEF JobShape

\* What remains of a request after a statement.
WithoutStatement(j, fails) == [j EXCEPT !.todo = Tail(@), !.clean = @ /\ ~fails]
LEMMA StatementLeaves ==
  ASSUME NEW j, DOMAIN j = JobFields, j.clean \in BOOLEAN, NEW fails \in BOOLEAN
  PROVE  /\ DOMAIN WithoutStatement(j, fails) = JobFields /\ WithoutStatement(j, fails).todo = Tail(j.todo)
         /\ WithoutStatement(j, fails).clean \in BOOLEAN /\ (WithoutStatement(j, fails).clean <=> (j.clean /\ ~fails))
         /\ \A k \in JobFields \ {"todo", "clean"} : WithoutStatement(j, fails)[k] = j[k]
<1>1. PICK b \in BOOLEAN : b <=> (j.clean /\ ~fails)
  OBVIOUS
<1>2. WithoutStatement(j, fails) = [j EXCEPT !.todo = Tail(@), !.clean = b]
  BY <1>1 DEF WithoutStatement
<1> QED
  BY <1>1, <1>2 DEF JobFields

\* The statements of a form.
LEMMA FormGoesOn ==
  ASSUME DmInv, NEW c \in Clerks, NEW fails \in BOOLEAN,
         Managed!handleSettingsDataManagement(c, fails) \/ Managed!applyDMTTL(c, fails)
  PROVE  DmInv'
<1>1. JobShape(job[c]) /\ JobHolds(job[c]) /\ job[c].todo # <<>> /\ DmTypes /\ Managed!SecretStays
  BY DEF DmInv, Managed!handleSettingsDataManagement, Managed!applyDMTTL, Managed!At
<1>2. CASE Managed!handleSettingsDataManagement(c, fails)
  <2>1. PICK key : key = Head(job[c].todo)[2]
    OBVIOUS
  <2>2. /\ job[c].kind = "form" /\ Head(job[c].todo) = Managed!Statement("save", key) /\ key \in DmKeys
    BY <1>1, <1>2, <2>1, WordsTell DEF Managed!handleSettingsDataManagement, Managed!At
  <2>3. PICK f : f = job[c].form
    OBVIOUS
  <2>4. /\ setting' = IF fails THEN setting ELSE [setting EXCEPT ![key] = Managed!saved(f, key)]
        /\ secret' = IF key # "password" \/ fails THEN secret
                     ELSE ~f.clear /\ (f.password # 0 \/ secret)
        /\ job' = [job EXCEPT ![c] = WithoutStatement(job[c], fails)]
        /\ UNCHANGED <<ttlOf, backups, pruneLock, replied>>
    BY <1>2, <2>1, <2>3 DEF Managed!handleSettingsDataManagement, Managed!About, Managed!Goes, WithoutStatement
  <2>5. PICK q : q = WithoutStatement(job[c], fails)
    OBVIOUS
  <2>6. /\ DOMAIN q = JobFields /\ q.todo = Tail(job[c].todo) /\ q.clean \in BOOLEAN
        /\ q.clean <=> (job[c].clean /\ ~fails)
        /\ \A k \in JobFields \ {"todo", "clean"} : q[k] = job[c][k]
    BY <1>1, <2>5, StatementLeaves DEF JobShape
  <2>7. q.kind = "form" /\ q.form = f
    BY <2>2, <2>3, <2>6 DEF JobFields
  <2>8. /\ q.todo \in Seq(SaveSteps \cup TtlSteps)
        /\ Managed!Range(job[c].todo) = {Managed!Statement("save", key)} \cup Managed!Range(q.todo)
    <3>1. job[c].todo \in Seq(SaveSteps \cup TtlSteps)
      BY <1>1, <2>2 DEF JobShape
    <3> QED
      BY <1>1, <2>2, <2>6, <3>1, TodoGoes
  <2>9. JobShape(q)
    BY <2>6, <2>7, <2>8 DEF JobShape, BackupKinds
  <2>10. DmTypes'
    <3>1. DOMAIN setting' = DmKeys /\ DOMAIN job' = Clerks
      BY <1>1, <2>4 DEF DmTypes
    <3> QED
      BY <1>1, <2>4, <3>1 DEF DmTypes
  <2>11. Managed!SecretStays'
    <3>1. CASE fails \/ key # "password"
      BY <1>1, <2>4, <2>10, <3>1 DEF Managed!SecretStays, DmTypes, DmKeys
    <3>2. CASE ~ fails /\ key = "password"
      <4>1. setting'.password = Managed!saved(f, "password")
        BY <1>1, <2>4, <3>2 DEF DmTypes, DmKeys
      <4> QED
        BY <1>1, <2>4, <3>2, <4>1 DEF Managed!SecretStays, Managed!saved
    <3> QED
      BY <3>1, <3>2
  <2>12. JobHolds(q)'
    <3>1. SUFFICES ASSUME q.clean
                   PROVE  FormHolds(q)'
      BY <2>7 DEF JobHolds, BackupKinds
    <3>2. FormHolds(job[c]) /\ ~ fails
      BY <1>1, <2>2, <2>6, <3>1 DEF JobHolds
    <3>3. setting' = [setting EXCEPT ![key] = Managed!saved(f, key)] /\ DOMAIN setting = DmKeys
      BY <1>1, <2>4, <3>2 DEF DmTypes
    <3>4. ASSUME NEW k \in {"days", "hours"}
          PROVE  Managed!Statement("save", k) \in Managed!Range(q.todo) \/ setting'[k] = f[k]
      <4>1. CASE key = k
        BY <3>3, <3>4, <4>1 DEF Managed!saved, DmKeys
      <4>2. CASE key # k
        <5>1. Managed!Statement("save", k) # Managed!Statement("save", key) /\ setting'[k] = setting[k]
          BY <3>3, <3>4, <4>2 DEF Managed!Statement, DmKeys
        <5> QED
          BY <2>3, <2>8, <3>2, <5>1 DEF FormHolds
      <4> QED
        BY <4>1, <4>2
    <3>5. \A t \in DmTables : Managed!Statement("ttl", t) # Managed!Statement("save", key)
      BY DEF Managed!Statement
    <3>6. f.apply => \A t \in DmTables : Managed!Retention(t, f) # 0 =>
              Managed!Statement("ttl", t) \in Managed!Range(q.todo) \/ ttlOf'[t] = Managed!Retention(t, f)
      BY <2>3, <2>4, <2>8, <3>2, <3>5 DEF FormHolds
    <3> QED
      BY <2>7, <3>4, <3>6 DEF FormHolds
  <2>13. job' = [job EXCEPT ![c] = q] /\ q.kind = job[c].kind
    BY <2>2, <2>4, <2>5, <2>7
  <2> QED
    BY <1>1, <2>4, <2>6, <2>9, <2>10, <2>11, <2>12, <2>13, JobGoesOn
<1>3. CASE Managed!applyDMTTL(c, fails)
  <2>1. PICK t : t = Head(job[c].todo)[2]
    OBVIOUS
  <2>2. /\ job[c].kind = "form" /\ Head(job[c].todo) = Managed!Statement("ttl", t) /\ t \in DmTables
    BY <1>1, <1>3, <2>1, WordsTell DEF Managed!applyDMTTL, Managed!At
  <2>3. PICK f : f = job[c].form
    OBVIOUS
  <2>4. /\ ttlOf' = IF fails THEN ttlOf ELSE [ttlOf EXCEPT ![t] = Managed!Retention(t, f)]
        /\ job' = [job EXCEPT ![c] = WithoutStatement(Managed!Noted(job[c], fails), fails)]
        /\ UNCHANGED <<setting, backups, secret, pruneLock, replied>>
    BY <1>3, <2>1, <2>3 DEF Managed!applyDMTTL, Managed!About, Managed!Goes, WithoutStatement
  <2>5. PICK j : j = Managed!Noted(job[c], fails)
    OBVIOUS
  <2>6. DOMAIN j = JobFields /\ j.clean = job[c].clean /\ j.kind = "form" /\ j.form = f
        /\ j.todo = job[c].todo
    BY <1>1, <2>2, <2>3, <2>5 DEF Managed!Noted, JobShape, JobFields
  <2>7. PICK q : q = WithoutStatement(j, fails)
    OBVIOUS
  <2>8. /\ DOMAIN q = JobFields /\ q.todo = Tail(j.todo) /\ q.clean \in BOOLEAN
        /\ q.clean <=> (j.clean /\ ~fails)
        /\ \A k \in JobFields \ {"todo", "clean"} : q[k] = j[k]
    BY <1>1, <2>6, <2>7, StatementLeaves DEF JobShape
  <2>9. q.kind = "form" /\ q.form = f
    BY <2>6, <2>8 DEF JobFields
  <2>10. /\ q.todo \in Seq(SaveSteps \cup TtlSteps)
         /\ Managed!Range(job[c].todo) = {Managed!Statement("ttl", t)} \cup Managed!Range(q.todo)
    <3>1. job[c].todo \in Seq(SaveSteps \cup TtlSteps)
      BY <1>1, <2>2 DEF JobShape
    <3> QED
      BY <1>1, <2>2, <2>6, <2>8, <3>1, TodoGoes
  <2>11. JobShape(q)
    BY <2>8, <2>9, <2>10 DEF JobShape, BackupKinds
  <2>12. DmTypes' /\ Managed!SecretStays'
    <3>1. DOMAIN ttlOf' = DmTables /\ DOMAIN job' = Clerks
      BY <1>1, <2>4 DEF DmTypes
    <3> QED
      BY <1>1, <2>4, <3>1 DEF DmTypes, Managed!SecretStays
  <2>13. JobHolds(q)'
    <3>1. SUFFICES ASSUME q.clean
                   PROVE  FormHolds(q)'
      BY <2>9 DEF JobHolds, BackupKinds
    <3>2. FormHolds(job[c]) /\ ~ fails
      BY <1>1, <2>2, <2>6, <2>8, <3>1 DEF JobHolds
    <3>3. ttlOf' = [ttlOf EXCEPT ![t] = Managed!Retention(t, f)] /\ DOMAIN ttlOf = DmTables
      BY <1>1, <2>4, <3>2 DEF DmTypes
    <3>4. \A k \in {"days", "hours"} : Managed!Statement("save", k) # Managed!Statement("ttl", t)
      BY DEF Managed!Statement
    <3>5. \A k \in {"days", "hours"} : Managed!Statement("save", k) \in Managed!Range(q.todo) \/ setting'[k] = f[k]
      BY <2>3, <2>4, <2>10, <3>2, <3>4 DEF FormHolds
    <3>6. ASSUME f.apply, NEW u \in DmTables, Managed!Retention(u, f) # 0
          PROVE  Managed!Statement("ttl", u) \in Managed!Range(q.todo) \/ ttlOf'[u] = Managed!Retention(u, f)
      <4>1. CASE u = t
        BY <2>2, <3>3, <4>1
      <4>2. CASE u # t
        <5>1. Managed!Statement("ttl", u) # Managed!Statement("ttl", t) /\ ttlOf'[u] = ttlOf[u]
          BY <3>3, <4>2 DEF Managed!Statement
        <5> QED
          BY <2>3, <2>10, <3>2, <3>6, <5>1 DEF FormHolds
      <4> QED
        BY <4>1, <4>2
    <3> QED
      BY <2>9, <3>5, <3>6 DEF FormHolds
  <2>14. job' = [job EXCEPT ![c] = q] /\ q.kind = job[c].kind /\ (q.clean => job[c].clean)
    BY <2>2, <2>4, <2>5, <2>6, <2>7, <2>8, <2>9
  <2> QED
    BY <1>1, <2>4, <2>11, <2>12, <2>13, <2>14, JobGoesOn
<1> QED
  BY <1>2, <1>3

\* Those of a prune.
LEMMA PruneGoesOn ==
  ASSUME DmInv, NEW c \in Clerks, NEW fails \in BOOLEAN, Managed!runDmPrune(c, fails)
  PROVE  DmInv'
<1>1. JobShape(job[c]) /\ job[c].todo # <<>> /\ DmTypes /\ Managed!SecretStays /\ job[c].kind = "prune"
  BY WordsTell DEF DmInv, Managed!runDmPrune, Managed!At
<1>2. PICK done : done = IF fails THEN job[c].done ELSE job[c].done \cup {Head(job[c].todo)}
  OBVIOUS
<1>3. PICK i : i = [job[c] EXCEPT !.done = done]
  OBVIOUS
<1>4. PICK j : j = Managed!Noted(i, fails)
  OBVIOUS
<1>5. /\ DOMAIN j = JobFields /\ j.clean = job[c].clean /\ j.kind = "prune" /\ j.done = done
      /\ j.period = job[c].period /\ j.todo = job[c].todo
      /\ j.errors <=> (job[c].errors \/ fails)
  BY <1>1, <1>3, <1>4 DEF Managed!Noted, JobShape, JobFields
<1>6. PICK q : q = WithoutStatement(j, fails)
  OBVIOUS
<1>7. /\ DOMAIN q = JobFields /\ q.todo = Tail(j.todo) /\ q.clean \in BOOLEAN
      /\ q.clean <=> (j.clean /\ ~fails)
      /\ \A k \in JobFields \ {"todo", "clean"} : q[k] = j[k]
  BY <1>1, <1>5, <1>6, StatementLeaves DEF JobShape
<1>8. /\ job' = [job EXCEPT ![c] = q]
      /\ UNCHANGED <<setting, ttlOf, backups, secret, pruneLock, replied>>
  BY <1>2, <1>3, <1>4, <1>6 DEF Managed!runDmPrune, Managed!Goes, WithoutStatement
<1>9. q.kind = "prune" /\ q.done = done /\ q.period = job[c].period /\ q.errors = j.errors
  BY <1>5, <1>7 DEF JobFields
<1>10. /\ q.todo \in Seq(PruneSteps)
       /\ Managed!Range(job[c].todo) = {Head(job[c].todo)} \cup Managed!Range(q.todo)
  <2>1. job[c].todo \in Seq(PruneSteps)
    BY <1>1 DEF JobShape
  <2> QED
    BY <1>1, <1>5, <1>7, <2>1, TodoGoes
<1>11. ~ q.errors => q.done \cup Managed!Range(q.todo) = Managed!Range(Managed!PruneTodo(q.period))
  <2>1. SUFFICES ASSUME ~ q.errors
                 PROVE  done \cup Managed!Range(q.todo) = Managed!Range(Managed!PruneTodo(job[c].period))
    BY <1>9
  <2>2. ~ job[c].errors /\ ~ fails
    BY <1>5, <1>9, <2>1
  <2>3. job[c].done \cup Managed!Range(job[c].todo) = Managed!Range(Managed!PruneTodo(job[c].period))
    BY <1>1, <2>2 DEF JobShape
  <2> QED
    BY <1>2, <1>10, <2>2, <2>3
<1>12. JobShape(q)
  BY <1>7, <1>9, <1>10, <1>11 DEF JobShape, BackupKinds
<1>13. JobHolds(q)'
  BY <1>9 DEF JobHolds, BackupKinds
<1>14. DmTypes' /\ Managed!SecretStays'
  <2>1. DOMAIN job' = Clerks
    BY <1>1, <1>8 DEF DmTypes
  <2> QED
    BY <1>1, <1>8, <2>1 DEF DmTypes, Managed!SecretStays
<1> QED
  BY <1>1, <1>5, <1>7, <1>8, <1>9, <1>12, <1>13, <1>14, JobGoesOn

\* What is left of a backup is one of five lists, all different.
LEMMA TodosApart ==
  /\ Todo4 # Todo3 /\ Todo4 # Todo2 /\ Todo4 # Todo1 /\ Todo4 # <<>> /\ Todo3 # Todo2
  /\ Todo3 # Todo1 /\ Todo3 # <<>> /\ Todo2 # Todo1 /\ Todo2 # <<>> /\ Todo1 # <<>>
<1>1. /\ Head(Todo4)[1] = "list" /\ Head(Todo3)[1] = "encrypt" /\ Head(Todo2)[1] = "backup"
      /\ Head(Todo1)[1] = "finish"
  BY BackupTodos DEF Managed!Statement
<1> QED
  BY <1>1, BackupTodos

\* A list of backups is looked for, and a password.
LEMMA BackupIsPrepared ==
  ASSUME DmInv, NEW c \in Clerks, NEW fails \in BOOLEAN,
         Managed!listDmBackups(c, fails) \/ Managed!Encrypt(c, fails)
  PROVE  DmInv'
<1>1. /\ JobShape(job[c]) /\ JobHolds(job[c]) /\ job[c].todo # <<>> /\ DmTypes /\ Managed!SecretStays
      /\ job[c].kind \in BackupKinds /\ UNCHANGED <<setting, ttlOf, backups, secret, pruneLock, replied>>
  BY WordsTell DEF DmInv, Managed!listDmBackups, Managed!Encrypt, Managed!At, Managed!Goes
<1>2. CASE Managed!listDmBackups(c, fails)
  <2>1. job[c].todo = Todo4
    BY <1>1, <1>2, WordsTell DEF Managed!listDmBackups, Managed!At
  <2>2. PICK base : base = IF fails THEN 0 ELSE Managed!newestComplete
    OBVIOUS
  <2>3. PICK j : j = [job[c] EXCEPT !.base = base, !.basePlace = setting.place]
    OBVIOUS
  <2>4. /\ DOMAIN j = JobFields /\ j.clean = job[c].clean /\ j.kind = job[c].kind /\ j.base = base
        /\ j.todo = Todo4 /\ j.errors = job[c].errors /\ j.without = job[c].without
    BY <1>1, <2>1, <2>3 DEF JobShape, JobFields
  <2>5. PICK q : q = WithoutStatement(j, fails)
    OBVIOUS
  <2>6. /\ DOMAIN q = JobFields /\ q.todo = Tail(j.todo) /\ q.clean \in BOOLEAN
        /\ q.clean <=> (j.clean /\ ~fails)
        /\ \A k \in JobFields \ {"todo", "clean"} : q[k] = j[k]
    BY <1>1, <2>4, <2>5, StatementLeaves DEF JobShape
  <2>7. /\ q.kind = job[c].kind /\ q.base = base /\ q.todo = Todo3
        /\ q.errors = job[c].errors /\ q.without = job[c].without
    BY <2>4, <2>6, BackupTodos DEF JobFields
  <2>8. base # 0 => base \in DOMAIN backups /\ backups[base].status = "complete"
    <3>1. SUFFICES ASSUME base # 0
                   PROVE  base \in DOMAIN backups /\ backups[base].status = "complete"
      OBVIOUS
    <3>2. PICK S : backups \in Seq(S)
      BY <1>1 DEF DmTypes
    <3>3. PICK complete : complete = {i \in DOMAIN backups : backups[i].status = "complete"}
      OBVIOUS
    <3>4. /\ complete # {} /\ base = CHOOSE i \in complete : \A k \in complete : k <= i
          /\ complete \in SUBSET (1..Len(backups)) /\ Len(backups) \in Nat
      BY <2>2, <3>1, <3>2, <3>3 DEF Managed!newestComplete
    <3>5. \E i \in complete : \A k \in complete : k <= i
      <4>1. complete \in SUBSET (0..Len(backups))
        BY <3>4
      <4> QED
        BY <3>4, <4>1, MaxExists
    <3>6. base \in complete
      BY <3>4, <3>5
    <3> QED
      BY <3>3, <3>6
  <2>9. JobShape(q)
    BY <1>1, <2>6, <2>7 DEF JobShape, BackupKinds, BackupRests
  <2>10. JobHolds(q)'
    <3>1. SUFFICES ASSUME q.clean
                   PROVE  BackupHolds(q)'
      BY <1>1, <2>7 DEF JobHolds, BackupKinds
    <3>2. BackupHolds(job[c])
      BY <1>1, <2>4, <2>6, <3>1 DEF JobHolds
    <3> QED
      BY <1>1, <2>1, <2>7, <2>8, <3>2, TodosApart DEF BackupHolds
  <2>11. job' = [job EXCEPT ![c] = q]
    BY <1>2, <2>2, <2>3, <2>5 DEF Managed!listDmBackups, Managed!Goes, WithoutStatement
  <2>12. DmTypes' /\ Managed!SecretStays'
    <3>1. DOMAIN job' = Clerks
      BY <1>1, <2>11 DEF DmTypes
    <3> QED
      BY <1>1, <3>1 DEF DmTypes, Managed!SecretStays
  <2> QED
    BY <1>1, <2>4, <2>6, <2>7, <2>9, <2>10, <2>11, <2>12, JobGoesOn
<1>3. CASE Managed!Encrypt(c, fails)
  <2>1. job[c].todo = Todo3
    BY <1>1, <1>3, WordsTell DEF Managed!Encrypt, Managed!At
  <2>2. PICK on \in BOOLEAN, without \in BOOLEAN :
            /\ on <=> (~fails /\ setting.encrypt = 1)
            /\ without <=> (on /\ setting.password = 0)
    OBVIOUS
  <2>3. PICK todo : todo = IF without THEN SubSeq(job[c].todo, 1, 1) ELSE job[c].todo
    OBVIOUS
  <2>4. PICK j : j = [job[c] EXCEPT !.errors = without, !.without = without, !.encrypted = on, !.todo = todo]
    OBVIOUS
  <2>5. /\ DOMAIN j = JobFields /\ j.clean = job[c].clean /\ j.kind = job[c].kind /\ j.base = job[c].base
        /\ j.todo = todo /\ j.errors = without /\ j.without = without /\ j.encrypted = on
    BY <1>1, <2>4 DEF JobShape, JobFields
  <2>6. PICK q : q = WithoutStatement(j, fails)
    OBVIOUS
  <2>7. /\ DOMAIN q = JobFields /\ q.todo = Tail(j.todo) /\ q.clean \in BOOLEAN
        /\ q.clean <=> (j.clean /\ ~fails)
        /\ \A k \in JobFields \ {"todo", "clean"} : q[k] = j[k]
    <3>1. DOMAIN j = JobFields /\ j.clean \in BOOLEAN
      BY <1>1, <2>5 DEF JobShape
    <3> QED
      BY <2>6, <3>1, StatementLeaves
  <2>8. /\ q.kind = job[c].kind /\ q.base = job[c].base
        /\ q.errors = without /\ q.without = without /\ q.encrypted = on
    BY <2>5, <2>7 DEF JobFields
  <2>9. q.todo = IF without THEN <<>> ELSE Todo2
    BY <2>1, <2>3, <2>5, <2>7, BackupTodos
  <2>10. JobShape(q)
    BY <1>1, <2>7, <2>8, <2>9 DEF JobShape, BackupKinds, BackupRests
  <2>11. JobHolds(q)'
    <3>1. SUFFICES ASSUME q.clean
                   PROVE  BackupHolds(q)'
      BY <1>1, <2>8 DEF JobHolds, BackupKinds
    <3>2. BackupHolds(job[c]) /\ ~ fails
      BY <1>1, <2>5, <2>7, <3>1 DEF JobHolds
    <3>3. job[c].base # 0 => job[c].base \in DOMAIN backups /\ backups[job[c].base].status = "complete"
      BY <1>1, <3>2 DEF BackupHolds
    <3> QED
      BY <1>1, <2>2, <2>8, <2>9, <3>2, <3>3, TodosApart DEF BackupHolds
  <2>12. job' = [job EXCEPT ![c] = q]
    <3>1. j = [job[c] EXCEPT !.errors = (~fails /\ setting.encrypt = 1) /\ setting.password = 0,
                             !.without = (~fails /\ setting.encrypt = 1) /\ setting.password = 0,
                             !.encrypted = ~fails /\ setting.encrypt = 1,
                             !.todo = IF (~fails /\ setting.encrypt = 1) /\ setting.password = 0
                                      THEN SubSeq(@, 1, 1) ELSE @]
      BY <2>2, <2>3, <2>4
    <3> QED
      BY <1>3, <2>6, <3>1 DEF Managed!Encrypt, Managed!Goes, WithoutStatement
  <2>13. DmTypes' /\ Managed!SecretStays'
    <3>1. DOMAIN job' = Clerks
      BY <1>1, <2>12 DEF DmTypes
    <3> QED
      BY <1>1, <3>1 DEF DmTypes, Managed!SecretStays
  <2> QED
    BY <1>1, <2>5, <2>7, <2>8, <2>10, <2>11, <2>12, <2>13, JobGoesOn
<1> QED
  BY <1>2, <1>3

\* A backup is made, and ends.
LEMMA BackupIsMade ==
  ASSUME DmInv, NEW c \in Clerks, Managed!Backup(c)
  PROVE  DmInv'
<1>1. /\ JobShape(job[c]) /\ JobHolds(job[c]) /\ job[c].todo # <<>> /\ DmTypes /\ Managed!SecretStays
      /\ job[c].kind \in BackupKinds /\ job[c].todo = Todo2
      /\ UNCHANGED <<setting, ttlOf, secret, pruneLock, replied>>
  BY WordsTell DEF DmInv, Managed!Backup, Managed!At, Managed!Goes
<1>2. PICK row : row = [status |-> "creating", place |-> job[c].place]
  OBVIOUS
<1>3. PICK S : backups \in Seq(S) /\ \A r \in S : DOMAIN r = {"status", "place"}
  BY <1>1 DEF DmTypes
<1>4. /\ backups' = Append(backups, row) /\ DOMAIN row = {"status", "place"}
      /\ backups' \in Seq(S \cup {row}) /\ Len(backups') = Len(backups) + 1 /\ Len(backups) \in Nat
      /\ DOMAIN backups = 1..Len(backups) /\ DOMAIN backups' = 1..(Len(backups) + 1)
      /\ \A i \in DOMAIN backups : backups'[i] = backups[i]
  BY <1>2, <1>3 DEF Managed!Backup
<1>5. PICK j : j = [job[c] EXCEPT !.row = Len(backups')]
  OBVIOUS
<1>6. /\ DOMAIN j = JobFields /\ j.clean = job[c].clean /\ j.kind = job[c].kind /\ j.base = job[c].base
      /\ j.todo = Todo2 /\ j.errors = job[c].errors /\ j.without = job[c].without
      /\ j.encrypted = job[c].encrypted /\ j.row = Len(backups')
  BY <1>1, <1>5 DEF JobShape, JobFields
<1>7. PICK q : q = WithoutStatement(j, FALSE)
  OBVIOUS
<1>8. /\ DOMAIN q = JobFields /\ q.todo = Tail(j.todo) /\ q.clean \in BOOLEAN
      /\ q.clean <=> j.clean
      /\ \A k \in JobFields \ {"todo", "clean"} : q[k] = j[k]
  <2>1. DOMAIN j = JobFields /\ j.clean \in BOOLEAN /\ FALSE \in BOOLEAN
    BY <1>1, <1>6 DEF JobShape
  <2>2. /\ DOMAIN WithoutStatement(j, FALSE) = JobFields /\ WithoutStatement(j, FALSE).todo = Tail(j.todo)
        /\ WithoutStatement(j, FALSE).clean \in BOOLEAN /\ (WithoutStatement(j, FALSE).clean <=> (j.clean /\ ~FALSE))
        /\ \A k \in JobFields \ {"todo", "clean"} : WithoutStatement(j, FALSE)[k] = j[k]
    BY <2>1, StatementLeaves
  <2> QED
    BY <1>7, <2>2
<1>9. /\ q.kind = job[c].kind /\ q.base = job[c].base /\ q.todo = Todo1 /\ q.row = Len(backups')
      /\ q.errors = job[c].errors /\ q.without = job[c].without /\ q.encrypted = job[c].encrypted
  BY <1>6, <1>8, BackupTodos DEF JobFields
<1>10. JobShape(q)
  BY <1>1, <1>8, <1>9 DEF JobShape, BackupKinds, BackupRests
<1>11. JobHolds(q)'
  <2>1. SUFFICES ASSUME q.clean
                 PROVE  BackupHolds(q)'
    BY <1>1, <1>9 DEF JobHolds, BackupKinds
  <2>2. BackupHolds(job[c])
    BY <1>1, <1>6, <1>8, <2>1 DEF JobHolds
  <2>3. /\ ~ job[c].errors /\ ~ job[c].without
        /\ job[c].base # 0 => job[c].base \in DOMAIN backups /\ backups[job[c].base].status = "complete"
        /\ job[c].encrypted <=> setting.encrypt = 1
    BY <1>1, <2>2 DEF BackupHolds
  <2>4. job[c].base # 0 => job[c].base \in DOMAIN backups' /\ backups'[job[c].base].status = "complete"
    BY <1>4, <2>3
  <2>5. Len(backups') \in DOMAIN backups'
    BY <1>4
  <2> QED
    BY <1>1, <1>9, <2>3, <2>4, <2>5, TodosApart DEF BackupHolds
<1>12. job' = [job EXCEPT ![c] = q]
  BY <1>5, <1>7 DEF Managed!Backup, Managed!Goes, WithoutStatement
<1>13. DmTypes' /\ Managed!SecretStays'
  <2>1. DOMAIN job' = Clerks
    BY <1>1, <1>12 DEF DmTypes
  <2>2. \A r \in S \cup {row} : DOMAIN r = {"status", "place"}
    BY <1>3, <1>4
  <2> QED
    BY <1>1, <1>4, <2>1, <2>2 DEF DmTypes, Managed!SecretStays
<1> QED
  BY <1>1, <1>6, <1>8, <1>9, <1>10, <1>11, <1>12, <1>13, JobGoesOn

LEMMA BackupEnds ==
  ASSUME DmInv, NEW c \in Clerks, NEW fails \in BOOLEAN, Managed!Finish(c, fails)
  PROVE  DmInv'
<1>1. /\ JobShape(job[c]) /\ JobHolds(job[c]) /\ job[c].todo # <<>> /\ DmTypes /\ Managed!SecretStays
      /\ job[c].kind \in BackupKinds /\ job[c].todo = Todo1
      /\ UNCHANGED <<setting, ttlOf, secret, pruneLock, replied>>
  BY WordsTell DEF DmInv, Managed!Finish, Managed!At, Managed!Goes
<1>2. PICK based \in BOOLEAN :
          based <=> (job[c].base # 0 => /\ backups[job[c].base].status = "complete"
                                        /\ backups[job[c].base].place = job[c].basePlace)
  OBVIOUS
<1>3. PICK ends : ends = IF based /\ ~fails THEN "complete" ELSE "failed"
  OBVIOUS
<1>4. PICK failed \in BOOLEAN : failed <=> ends = "failed"
  OBVIOUS
<1>5. PICK row : row = job[c].row
  OBVIOUS
<1>6. /\ backups' = [backups EXCEPT ![row].status = ends]
      /\ job' = [job EXCEPT ![c] = WithoutStatement([job[c] EXCEPT !.errors = failed], fails)]
  <2>1. /\ backups' = [backups EXCEPT ![job[c].row].status =
                          IF (job[c].base # 0 => /\ backups[job[c].base].status = "complete"
                                                 /\ backups[job[c].base].place = job[c].basePlace) /\ ~fails
                          THEN "complete" ELSE "failed"]
        /\ job' = [job EXCEPT ![c] = WithoutStatement([job[c] EXCEPT !.errors =
                          (IF (job[c].base # 0 => /\ backups[job[c].base].status = "complete"
                                                  /\ backups[job[c].base].place = job[c].basePlace) /\ ~fails
                           THEN "complete" ELSE "failed") = "failed"], fails)]
    BY <1>1 DEF Managed!Finish, Managed!Goes, WithoutStatement
  <2>2. ends = IF (job[c].base # 0 => /\ backups[job[c].base].status = "complete"
                                      /\ backups[job[c].base].place = job[c].basePlace) /\ ~fails
               THEN "complete" ELSE "failed"
    BY <1>2, <1>3
  <2>3. backups' = [backups EXCEPT ![row].status = ends]
    BY <2>1, <2>2, <1>5
  <2>4. job' = [job EXCEPT ![c] = WithoutStatement([job[c] EXCEPT !.errors = (ends = "failed")], fails)]
    BY <2>1, <2>2
  <2>5. failed = (ends = "failed")
    BY <1>4
  <2>6. job' = [job EXCEPT ![c] = WithoutStatement([job[c] EXCEPT !.errors = failed], fails)]
    BY <2>4, <2>5
  <2> QED
    BY <2>3, <2>6
<1>7. PICK j : j = [job[c] EXCEPT !.errors = failed]
  OBVIOUS
<1>8. /\ DOMAIN j = JobFields /\ j.clean = job[c].clean /\ j.kind = job[c].kind /\ j.base = job[c].base
      /\ j.todo = Todo1 /\ j.errors = failed /\ j.without = job[c].without
      /\ j.encrypted = job[c].encrypted /\ j.basePlace = job[c].basePlace
  BY <1>1, <1>7 DEF JobShape, JobFields
<1>9. PICK q : q = WithoutStatement(j, fails)
  OBVIOUS
<1>10. /\ DOMAIN q = JobFields /\ q.todo = Tail(j.todo) /\ q.clean \in BOOLEAN
       /\ q.clean <=> (j.clean /\ ~fails)
       /\ \A k \in JobFields \ {"todo", "clean"} : q[k] = j[k]
  <2>1. DOMAIN j = JobFields /\ j.clean \in BOOLEAN
    BY <1>1, <1>8 DEF JobShape
  <2> QED
    BY <1>9, <2>1, StatementLeaves
<1>11. /\ q.kind = job[c].kind /\ q.base = job[c].base /\ q.todo = <<>> /\ q.basePlace = job[c].basePlace
       /\ q.errors = failed /\ q.without = job[c].without /\ q.encrypted = job[c].encrypted
  BY <1>8, <1>10, BackupTodos DEF JobFields
<1>12. JobShape(q)
  BY <1>1, <1>10, <1>11 DEF JobShape, BackupKinds, BackupRests
<1>13. PICK S : backups \in Seq(S) /\ \A r \in S : DOMAIN r = {"status", "place"}
  BY <1>1 DEF DmTypes
<1>14. /\ DOMAIN backups = 1..Len(backups) /\ Len(backups) \in Nat
       /\ \A i \in 1..Len(backups) : backups[i] \in S
  BY <1>13, LenProperties, ElementOfSeq
<1>15. /\ DOMAIN backups' = DOMAIN backups
       /\ \A i \in DOMAIN backups : /\ backups'[i].place = backups[i].place
                                    /\ DOMAIN backups'[i] = {"status", "place"}
  <2>1. DOMAIN backups' = DOMAIN backups
    BY <1>6
  <2>2. ASSUME NEW i \in DOMAIN backups
        PROVE  backups'[i].place = backups[i].place /\ DOMAIN backups'[i] = {"status", "place"}
    <3>1. DOMAIN backups[i] = {"status", "place"}
      BY <1>13, <1>14
    <3>2. CASE i = row
      <4>1. backups'[i] = [backups[i] EXCEPT !.status = ends]
        BY <1>6, <3>2
      <4> QED
        BY <3>1, <4>1
    <3>3. CASE i # row
      <4>1. backups'[i] = backups[i]
        BY <1>6, <3>3
      <4> QED
        BY <3>1, <4>1
    <3> QED
      BY <3>2, <3>3
  <2> QED
    BY <2>1, <2>2
<1>16. JobHolds(q)'
  <2>1. SUFFICES ASSUME q.clean
                 PROVE  BackupHolds(q)'
    BY <1>1, <1>11 DEF JobHolds, BackupKinds
  <2>2. BackupHolds(job[c]) /\ ~ fails
    BY <1>1, <1>8, <1>10, <2>1 DEF JobHolds
  <2>3. /\ ~ job[c].without /\ (job[c].encrypted <=> setting.encrypt = 1)
        /\ job[c].base # 0 => job[c].base \in DOMAIN backups /\ backups[job[c].base].status = "complete"
    BY <1>1, <2>2 DEF BackupHolds
  <2>4. failed => job[c].base # 0 /\ backups'[job[c].base].place # job[c].basePlace
    BY <1>2, <1>3, <1>4, <1>15, <2>2, <2>3
  <2> QED
    BY <1>1, <1>11, <2>3, <2>4, TodosApart DEF BackupHolds
<1>17. DmTypes' /\ Managed!SecretStays'
  <2>1. DOMAIN job' = Clerks
    BY <1>1, <1>6 DEF DmTypes
  <2>2. PICK T : T = {backups'[i] : i \in DOMAIN backups}
    OBVIOUS
  <2>3. /\ backups' \in Seq(T) /\ \A r \in T : DOMAIN r = {"status", "place"}
    <3>1. \A r \in T : DOMAIN r = {"status", "place"}
      BY <1>15, <2>2
    <3>2. backups' \in [1..Len(backups) -> T]
      BY <1>6, <1>14, <2>2
    <3> QED
      BY <1>14, <3>1, <3>2, SeqDef
  <2>4. DOMAIN setting' = DmKeys /\ DOMAIN ttlOf' = DmTables /\ Managed!SecretStays'
    BY <1>1 DEF DmTypes, Managed!SecretStays
  <2> QED
    BY <2>1, <2>3, <2>4 DEF DmTypes
<1>18. job' = [job EXCEPT ![c] = q]
  BY <1>6, <1>7, <1>9
<1> QED
  BY <1>1, <1>8, <1>10, <1>11, <1>12, <1>16, <1>17, <1>18, JobGoesOn

\* The answer, a crash, and the start.
LEMMA AnswerIsGiven ==
  ASSUME DmInv, NEW c \in Clerks, Managed!Answer(c)
  PROVE  DmInv'
<1>1. /\ JobShape(job[c]) /\ JobHolds(job[c]) /\ DmTypes /\ AtWorkAlone /\ job[c].kind # "none" /\ job[c].todo = <<>>
      /\ replied' = job[c] /\ job' = [job EXCEPT ![c] = Managed!NoJob]
      /\ pruneLock' = (pruneLock /\ job[c].kind # "prune")
      /\ UNCHANGED <<setting, ttlOf, backups, secret>>
  BY DEF DmInv, Managed!Answer
<1>2. job'[c] = Managed!NoJob /\ \A d \in Clerks : d # c => job'[d] = job[d]
  BY <1>1 DEF DmTypes
<1>3. \A d \in Clerks : JobShape(job[d])' /\ JobHolds(job[d])'
  <2>1. \A d \in Clerks : JobShape(job'[d]) /\ JobHolds(job'[d])
    BY <1>2, NoJobHolds DEF DmInv
  <2> QED
    BY <1>1, <2>1 DEF JobShape, JobHolds, FormHolds, BackupHolds
<1>4. AtWorkAlone'
  <2>1. \A d, e \in Clerks : d # e /\ job'[d].clean /\ job'[d].kind # "none" => job'[e] = Managed!NoJob
    BY <1>1, <1>2, NoJobHolds DEF AtWorkAlone
  <2>2. \A d, e \in Clerks : job'[d].kind = "prune" /\ job'[e].kind = "prune" => d = e
    BY <1>1, <1>2, NoJobHolds DEF AtWorkAlone
  <2>3. ASSUME NEW d \in Clerks, job'[d].kind = "prune"
        PROVE  pruneLock'
    <3>1. d # c /\ job[d].kind = "prune"
      BY <1>2, <2>3, NoJobHolds
    <3>2. pruneLock /\ job[c].kind # "prune"
      BY <1>1, <3>1 DEF AtWorkAlone
    <3> QED
      BY <1>1, <3>2
  <2> QED
    BY <2>1, <2>2, <2>3 DEF AtWorkAlone
<1>5. LookedAt'
  <2>1. job[c].clean => \A d \in Clerks : job'[d] = Managed!NoJob
    BY <1>1, <1>2 DEF AtWorkAlone
  <2>2. job[c].kind = "prune" /\ ~ job[c].errors => job[c].done = Managed!Range(Managed!PruneTodo(job[c].period))
    <3>1. Managed!Range(<<>>) = {}
      BY DEF Managed!Range
    <3> QED
      BY <1>1, <3>1 DEF JobShape
  <2>3. job[c].kind = "form" /\ job[c].clean /\ job[c].form.apply =>
            \A t \in DmTables : Managed!Retention(t, setting) # 0 => ttlOf[t] = Managed!Retention(t, setting)
    <3>1. SUFFICES ASSUME job[c].kind = "form", job[c].clean, job[c].form.apply, NEW t \in DmTables,
                          Managed!Retention(t, setting) # 0
                   PROVE  ttlOf[t] = Managed!Retention(t, setting)
      OBVIOUS
    <3>2. FormHolds(job[c]) /\ Managed!Range(job[c].todo) = {}
      BY <1>1, <3>1 DEF JobHolds, Managed!Range
    <3>3. setting.days = job[c].form.days /\ setting.hours = job[c].form.hours
      BY <3>2 DEF FormHolds
    <3>4. Managed!Retention(t, setting) = Managed!Retention(t, job[c].form)
      BY <3>3, ListsHold DEF DmTables
    <3> QED
      BY <3>1, <3>2, <3>4 DEF FormHolds
  <2>4. job[c].kind \in BackupKinds /\ job[c].clean =>
            /\ ~ job[c].without => (job[c].encrypted <=> setting.encrypt = 1)
            /\ job[c].errors => \/ job[c].without
                                \/ job[c].base # 0 /\ backups[job[c].base].place # job[c].basePlace
    BY <1>1 DEF JobHolds, BackupHolds
  <2>5. Managed!Range(Managed!AllTables) = DmTables
    BY ListsHold
  <2>6. Managed!RetentionIsInForce'
    BY <1>1, <2>3, <2>5 DEF Managed!RetentionIsInForce, Managed!Retention
  <2>7. Managed!BackupsGoOn'
    BY <1>1, <2>4 DEF Managed!BackupsGoOn, BackupKinds
  <2> QED
    BY <1>1, <2>1, <2>2, <2>6, <2>7 DEF LookedAt
<1>6. DmTypes' /\ Managed!SecretStays'
  BY <1>1 DEF DmInv, DmTypes, Managed!SecretStays
<1> QED
  BY <1>3, <1>4, <1>5, <1>6 DEF DmInv

LEMMA NobodyIsAtWork ==
  ASSUME job = [c \in Clerks |-> Managed!NoJob], replied = Managed!NoJob, ~ pruneLock, Managed!SecretStays,
         DOMAIN setting = DmKeys, DOMAIN ttlOf = DmTables, backups = <<>>
  PROVE  DmInv
<1>1. DmTypes
  <2>1. \E S : <<>> \in Seq(S) /\ \A r \in S : DOMAIN r = {"status", "place"}
    <3>1. PICK S : S = {}
      OBVIOUS
    <3>2. <<>> \in Seq(S) /\ \A r \in S : DOMAIN r = {"status", "place"}
      BY <3>1, EmptySeq
    <3> QED
      BY <3>2
  <2> QED
    BY <2>1 DEF DmTypes
<1>2. AtWorkAlone /\ LookedAt
  BY NoJobHolds DEF AtWorkAlone, LookedAt, Managed!RetentionIsInForce, Managed!BackupsGoOn
<1> QED
  BY <1>1, <1>2, NoJobHolds DEF DmInv

LEMMA ServerEnds ==
  ASSUME DmInv, Managed!Crash
  PROVE  DmInv'
<1>1. /\ job' = [c \in Clerks |-> Managed!NoJob] /\ replied' = Managed!NoJob /\ ~ pruneLock' /\ Managed!SecretStays'
      /\ DOMAIN setting' = DmKeys /\ DOMAIN ttlOf' = DmTables /\ backups' = <<>>
  BY DEF DmInv, Managed!Crash, Managed!SecretStays, DmTypes
<1>2. DmTypes'
  <2>1. \E S : <<>> \in Seq(S) /\ \A r \in S : DOMAIN r = {"status", "place"}
    <3>1. PICK S : S = {}
      OBVIOUS
    <3>2. <<>> \in Seq(S) /\ \A r \in S : DOMAIN r = {"status", "place"}
      BY <3>1, EmptySeq
    <3> QED
      BY <3>2
  <2> QED
    BY <1>1, <2>1 DEF DmTypes
<1>3. AtWorkAlone' /\ LookedAt'
  BY <1>1, NoJobHolds DEF AtWorkAlone, LookedAt, Managed!RetentionIsInForce, Managed!BackupsGoOn
<1>4. \A c \in Clerks : JobShape(job[c])' /\ JobHolds(job[c])'
  BY <1>1, NoJobHolds DEF JobShape, JobHolds, FormHolds, BackupHolds, BackupKinds
<1> QED
  BY <1>1, <1>2, <1>3, <1>4 DEF DmInv

LEMMA ManagementStarts == Managed!Init => DmInv
<1> SUFFICES ASSUME Managed!Init PROVE DmInv
  OBVIOUS
<1>1. PICK s : s = [place |-> 1, encrypt |-> 0, password |-> 0, days |-> 0, hours |-> 0]
  OBVIOUS
<1>2. DOMAIN setting = DmKeys
  BY DEF Managed!Init, DmKeys
<1>3. DOMAIN ttlOf = DmTables
  BY ListsHold DEF Managed!Init
<1> QED
  BY <1>2, <1>3, NobodyIsAtWork DEF Managed!Init, Managed!SecretStays

LEMMA ManagementGoesOn == DmInv /\ [Managed!Next]_Managed!vars => DmInv'
<1> SUFFICES ASSUME DmInv, [Managed!Next]_Managed!vars PROVE DmInv'
  OBVIOUS
<1>1. CASE Managed!Crash
  BY <1>1, ServerEnds
<1>2. ASSUME NEW c \in Clerks,
             \/ \E f \in Saves : Managed!StartForm(c, f)
             \/ \E period \in BOOLEAN : Managed!StartPrune(c, period)
             \/ \E kind \in BackupKinds : Managed!StartBackup(c, kind)
      PROVE  DmInv'
  BY <1>2, RequestsBegin
<1>3. ASSUME NEW c \in Clerks, NEW fails \in BOOLEAN,
             Managed!handleSettingsDataManagement(c, fails) \/ Managed!applyDMTTL(c, fails)
      PROVE  DmInv'
  BY <1>3, FormGoesOn
<1>4. ASSUME NEW c \in Clerks, NEW fails \in BOOLEAN, Managed!runDmPrune(c, fails)
      PROVE  DmInv'
  BY <1>4, PruneGoesOn
<1>5. ASSUME NEW c \in Clerks, NEW fails \in BOOLEAN, Managed!listDmBackups(c, fails) \/ Managed!Encrypt(c, fails)
      PROVE  DmInv'
  BY <1>5, BackupIsPrepared
<1>6. ASSUME NEW c \in Clerks, Managed!Backup(c) \/ \E fails \in BOOLEAN : Managed!Finish(c, fails)
      PROVE  DmInv'
  BY <1>6, BackupIsMade, BackupEnds
<1>7. ASSUME NEW c \in Clerks, Managed!Answer(c)
      PROVE  DmInv'
  BY <1>7, AnswerIsGiven
<1>8. CASE UNCHANGED Managed!vars
  BY <1>8 DEF DmInv, DmTypes, AtWorkAlone, LookedAt, Managed!SecretStays, Managed!RetentionIsInForce, Managed!BackupsGoOn,
              JobShape, JobHolds, FormHolds, BackupHolds, Managed!vars
<1> QED
  BY <1>1, <1>2, <1>3, <1>4, <1>5, <1>6, <1>7, <1>8 DEF Managed!Next, BackupKinds

\* A prune that says it went well was whole, a retention that was saved is in force, a
\* password stays, and backups go on.
ManagedWell ==
    Managed!PrunesAreWhole /\ Managed!RetentionIsInForce /\ Managed!SecretStays /\ Managed!BackupsGoOn

\* So it is however many requests overlap and statements fail.
THEOREM ManagementHolds == Managed!Spec => []ManagedWell
<1>1. DmInv => ManagedWell
  BY DEF DmInv, LookedAt, AtWorkAlone, Managed!PrunesAreWhole, ManagedWell
<1> QED
  BY <1>1, ManagementStarts, ManagementGoesOn, PTL DEF Managed!Spec

-----------------------------------------------------------------------------
(* The parts together: the one that is at work stays so, and its steps are  *)
(* those of the part alone.                                                *)

LEMMA PartStays == [FormsNext]_formVars => part' = part
BY DEF FormsNext, KeptOnly, formVars

LEMMA ScanIsAlone ==
  /\ KeptInit /\ part = "scan" => Scan!Init
  /\ [FormsNext]_formVars /\ part = "scan" => [Scan!Next]_Scan!vars
BY DEF KeptInit, FormsNext, KeptOnly, formVars, scanVars, Scan!vars, Scan!tables

LEMMA VerdictIsAlone ==
  /\ KeptInit /\ part = "verdict" => Verdict!Init
  /\ [FormsNext]_formVars /\ part = "verdict" => [Verdict!Next]_Verdict!vars
BY DEF KeptInit, FormsNext, KeptOnly, formVars, verdictVars, Verdict!vars

LEMMA ReportIsAlone ==
  /\ KeptInit /\ part = "report" => Report!Init
  /\ [FormsNext]_formVars /\ part = "report" => [Report!Next]_Report!vars
BY DEF KeptInit, FormsNext, KeptOnly, formVars, reportVars, Report!vars

LEMMA BoardIsAlone ==
  /\ KeptInit /\ part = "board" => Board!Init
  /\ [FormsNext]_formVars /\ part = "board" => [Board!Next]_Board!vars
BY DEF KeptInit, FormsNext, KeptOnly, formVars, boardVars, Board!vars, Board!rows

LEMMA CiIsAlone ==
  /\ KeptInit /\ part = "ci" => Ci!Init
  /\ [FormsNext]_formVars /\ part = "ci" => [Ci!Next]_Ci!keyVars
BY DEF KeptInit, FormsNext, KeptOnly, formVars, ciVars, Ci!keyVars

LEMMA AppIsAlone ==
  /\ KeptInit /\ part = "app" => App!Init
  /\ [FormsNext]_formVars /\ part = "app" => [App!Next]_App!vars
BY DEF KeptInit, FormsNext, KeptOnly, formVars, appVars, App!vars, App!tables

LEMMA ManagedIsAlone ==
  /\ KeptInit /\ part = "managed" => Managed!Init
  /\ [FormsNext]_formVars /\ part = "managed" => [Managed!Next]_Managed!vars
BY DEF KeptInit, FormsNext, KeptOnly, formVars, managedVars, Managed!vars

\* However many releases, libraries and scans: scans whose backfills do not overlap
\* bring a release's lockfile at most once, and once more for each of them that could
\* not read which releases have one (fetchReleaseDepsFromGithub).
THEOREM BackfillsAreKept == FormsSpec => []BackfilledOnce
<1>1. Scan!Spec => []Scan!BackfilledOnce
  BY ScansBackfillOnce, FormsAssumption
<1>2. KeptInit /\ part = "scan" => Scan!Init
  BY ScanIsAlone
<1>3. [FormsNext]_formVars /\ part = "scan" => [Scan!Next]_Scan!vars
  BY ScanIsAlone
<1>4. (part = "scan" => Scan!BackfilledOnce) => BackfilledOnce
  BY DEF BackfilledOnce
<1>5. [FormsNext]_formVars /\ part = "scan" => (part = "scan")'
  BY PartStays
<1>6. [FormsNext]_formVars /\ ~ (part = "scan") => ~ (part = "scan")'
  BY PartStays
<1> QED
  BY <1>1, <1>2, <1>3, <1>4, <1>5, <1>6, PTL DEF FormsSpec, Scan!Spec

\* However many verdicts on versions, and however the clock moves: the verdict that was
\* answered last is the one that counts (handleCveDispositionSub).
THEOREM LastWordsAreKept == FormsSpec => []LastWordCounts
<1>1. Verdict!Spec => []Verdict!LastWordCounts
  BY VerdictsRise, FormsAssumption
<1>2. KeptInit /\ part = "verdict" => Verdict!Init
  BY VerdictIsAlone
<1>3. [FormsNext]_formVars /\ part = "verdict" => [Verdict!Next]_Verdict!vars
  BY VerdictIsAlone
<1>4. (part = "verdict" => Verdict!LastWordCounts) => LastWordCounts
  BY DEF LastWordCounts
<1>5. [FormsNext]_formVars /\ part = "verdict" => (part = "verdict")'
  BY PartStays
<1>6. [FormsNext]_formVars /\ ~ (part = "verdict") => ~ (part = "verdict")'
  BY PartStays
<1> QED
  BY <1>1, <1>2, <1>3, <1>4, <1>5, <1>6, PTL DEF FormsSpec, Verdict!Spec

\* Whatever is imported: reports imported one after the other have names of their own
\* (importReports).
THEOREM NamesAreKeptApart == FormsSpec => []ImportsKeepNamesApart
<1>1. Report!Spec => []Report!ImportsKeepNamesApart
  BY NamesStayApart, FormsAssumption
<1>2. KeptInit /\ part = "report" => Report!Init
  BY ReportIsAlone
<1>3. [FormsNext]_formVars /\ part = "report" => [Report!Next]_Report!vars
  BY ReportIsAlone
<1>4. (part = "report" => Report!ImportsKeepNamesApart) => ImportsKeepNamesApart
  BY DEF ImportsKeepNamesApart
<1>5. [FormsNext]_formVars /\ part = "report" => (part = "report")'
  BY PartStays
<1>6. [FormsNext]_formVars /\ ~ (part = "report") => ~ (part = "report")'
  BY PartStays
<1> QED
  BY <1>1, <1>2, <1>3, <1>4, <1>5, <1>6, PTL DEF FormsSpec, Report!Spec

\* However many charts: those saved one after the other have places of their own on a
\* dashboard (nextChartPosition).
THEOREM PositionsAreKeptApart == FormsSpec => []PositionsApart
<1>1. Board!Spec => []Board!PositionsApart
  BY ChartsStayApart
<1>2. KeptInit /\ part = "board" => Board!Init
  BY BoardIsAlone
<1>3. [FormsNext]_formVars /\ part = "board" => [Board!Next]_Board!vars
  BY BoardIsAlone
<1>4. (part = "board" => Board!PositionsApart) => PositionsApart
  BY DEF PositionsApart
<1>5. [FormsNext]_formVars /\ part = "board" => (part = "board")'
  BY PartStays
<1>6. [FormsNext]_formVars /\ ~ (part = "board") => ~ (part = "board")'
  BY PartStays
<1> QED
  BY <1>1, <1>2, <1>3, <1>4, <1>5, <1>6, PTL DEF FormsSpec, Board!Spec

\* However many callers, keys and faults: a push with a key that was revoked or replaced
\* is turned away once that was written, and one without a key while one is in force,
\* unless no static key is set and the gate could not read (enforceAPIKey).
THEOREM KeysKeepGoverning == FormsSpec => []KeysGovernPushes
<1>1. Ci!Spec => []Ci!KeysGovernPushes
  BY KeysGovern
<1>2. KeptInit /\ part = "ci" => Ci!Init
  BY CiIsAlone
<1>3. [FormsNext]_formVars /\ part = "ci" => [Ci!Next]_Ci!keyVars
  BY CiIsAlone
<1>4. (part = "ci" => Ci!KeysGovernPushes) => KeysGovernPushes
  BY DEF KeysGovernPushes
<1>5. [FormsNext]_formVars /\ part = "ci" => (part = "ci")'
  BY PartStays
<1>6. [FormsNext]_formVars /\ ~ (part = "ci") => ~ (part = "ci")'
  BY PartStays
<1> QED
  BY <1>1, <1>2, <1>3, <1>4, <1>5, <1>6, PTL DEF FormsSpec, Ci!Spec

\* However many requests that overlap, and statements of them that fail: a deleted app does
\* not come back, nor do its releases; a prune that went well pruned everything, retentions
\* are in force, and secrets and backups survive blank fields and failures (repoDelete,
\* runDmPrune, handleSettingsDataManagement, runDmBackup).
THEOREM DeletionsKeepHolding == FormsSpec => []DeletionHolds
<1>1. App!Spec => []App!DeletionHolds
  BY AppsStayDeleted
<1>2. Managed!Spec => []ManagedWell
  BY ManagementHolds
<1>3. /\ KeptInit /\ part = "app" => App!Init
      /\ KeptInit /\ part = "managed" => Managed!Init
  BY AppIsAlone, ManagedIsAlone
<1>4. /\ [FormsNext]_formVars /\ part = "app" => [App!Next]_App!vars
      /\ [FormsNext]_formVars /\ part = "managed" => [Managed!Next]_Managed!vars
  BY AppIsAlone, ManagedIsAlone
<1>5. (part = "app" => App!DeletionHolds) /\ (part = "managed" => ManagedWell) => DeletionHolds
  BY DEF DeletionHolds, ManagedWell
<1>6. /\ [FormsNext]_formVars /\ part = "app" => (part = "app")'
      /\ [FormsNext]_formVars /\ part = "managed" => (part = "managed")'
  BY PartStays
<1>7. /\ [FormsNext]_formVars /\ ~ (part = "app") => ~ (part = "app")'
      /\ [FormsNext]_formVars /\ ~ (part = "managed") => ~ (part = "managed")'
  BY PartStays
<1> QED
  BY <1>1, <1>2, <1>3, <1>4, <1>5, <1>6, <1>7, PTL DEF FormsSpec, App!Spec, Managed!Spec
=============================================================================
