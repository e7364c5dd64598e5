------------------------------ MODULE RawWindows ------------------------------
(***************************************************************************)
(* Preservation of raw metrics around signals: rule outcomes register      *)
(* windows (raw_window.go), one background goroutine copies the raw rows   *)
(* inside them to the pinned tables (background_tasks.go) before the raw   *)
(* tables' TTL (metrics_retention.go) drops them; src/go/cmd/sobs.  Every  *)
(* statement is atomic: the embedded database runs one at a time.  A       *)
(* statement may fail, and the process may die, between any two of them.   *)
(***************************************************************************)
EXTENDS Integers, Sequences, FiniteSets

CONSTANTS
    Signals,      \* what triggers windows: (SignalType, SignalRef, ServiceName)
    Scope,        \* Scope[g]: the service the window is restricted to, or "all"
    Samples,      \* metric samples: records [table, service, at]
    Tables,       \* rawMetricTables, a sequence
    Half,         \* rawMetricsWindowMinutes
    Minute,       \* ticks in the minute the window Ids are bucketed by
    RawTTL,       \* SOBS_RAW_METRICS_TTL_HOURS
    Limit,        \* windows read in a run, rawWindowCopyMaxPerRun*20
    MaxPerRun,    \* rawWindowCopyMaxPerRun
    MaxTime,      \* bound on the clock
    MaxWindows,   \* bound on the windows registered
    MaxSent,      \* bound on the times a sample is ingested
    MaxFaults     \* bound on failing statements and deaths

ASSUME RawWindowsAssumption ==
    /\ {Half, Minute, RawTTL, Limit, MaxPerRun} \subseteq Nat \ {0}
    /\ {MaxTime, MaxWindows, MaxSent, MaxFaults} \subseteq Nat
    /\ Signals # {}
    /\ Tables \in Seq({Tables[i] : i \in DOMAIN Tables}) \ {<<>>}
    /\ \A x \in Samples : x.at \in Nat /\ \E i \in DOMAIN Tables : x.table = Tables[i]

VARIABLES
    now,         \* the clock
    raw,         \* raw[x]: rows of sample x in its raw table
    pinned,      \* pinned[x]: rows of sample x in its pinned table
    windows,     \* sobs_raw_windows FINAL: records [signal, at]
    copied,      \* sobs_raw_window_copy_state FINAL: <<window id, table>>
    pc,          \* where the worker is
    todo,        \* windows of this run still to visit
    cur,         \* the window at hand
    ti,          \* the index of the table at hand
    attempted,   \* copiesAttempted
    sent,        \* history: times sample x was ingested
    counted,     \* history: samples the count query of the pair at hand saw
    faults       \* failures so far

worker == <<pc, todo, cur, ti, attempted>>
vars == <<now, raw, pinned, windows, copied, worker, sent, counted, faults>>

Windows == [signal : Signals, at : 0..MaxTime]
NoWindow == [signal |-> CHOOSE g \in Signals : TRUE, at |-> 0]

\* The Id hashes the minute of the signal; WindowStart and WindowEnd, which
\* are in the table's sorting key, have its millisecond.
Id(w) == <<w.signal, w.at \div Minute>>

\* The WHERE clause a window stands for.
Matches(w, x) ==
    /\ w.at - Half <= x.at /\ x.at <= w.at + Half
    /\ Scope[w.signal] \in {"all", x.service}

InWindow(w, t) == {x \in Samples : x.table = t /\ Matches(w, x)}
Matched(w, t) == {x \in InWindow(w, t) : raw[x] > 0}

\* NOT IN (SELECT ServiceName, MetricName, AttrFingerprint, TimeUnix FROM pinned)
Missing(w, t) == {x \in Matched(w, t) : pinned[x] = 0}

Pin(S) == pinned' = [x \in Samples |-> pinned[x] + IF x \in S THEN raw[x] ELSE 0]

Init ==
    /\ now = 0
    /\ raw = [x \in Samples |-> 0]
    /\ pinned = [x \in Samples |-> 0]
    /\ windows = {}
    /\ copied = {}
    /\ pc = "sleep"
    /\ todo = {}
    /\ cur = NoWindow
    /\ ti = 1
    /\ attempted = 0
    /\ sent = [x \in Samples |-> 0]
    /\ counted = {}
    /\ faults = 0

-----------------------------------------------------------------------------
(* The rest of the process and the database.                               *)

Tick ==
    /\ now < MaxTime
    /\ now' = now + 1
    /\ UNCHANGED <<raw, pinned, windows, copied, worker, sent, counted, faults>>

\* A sample is stored some time after it was taken, more than once if its
\* sender retried.
Ingest(x) ==
    /\ x.at <= now
    /\ sent[x] < MaxSent
    /\ sent' = [sent EXCEPT ![x] = @ + 1]
    /\ raw' = [raw EXCEPT ![x] = @ + 1]
    /\ UNCHANGED <<now, pinned, windows, copied, worker, counted, faults>>

\* A part-drop of the raw table's TTL.
Expire(x) ==
    /\ raw[x] > 0
    /\ now - x.at > RawTTL
    /\ raw' = [raw EXCEPT ![x] = 0]
    /\ UNCHANGED <<now, pinned, windows, copied, worker, sent, counted, faults>>

\* registerRawWindow: a second trigger of the signal in the same instant
\* replaces its row.
Register(g) ==
    /\ Cardinality(windows) < MaxWindows
    /\ windows' = windows \cup {[signal |-> g, at |-> now]}
    /\ UNCHANGED <<now, raw, pinned, copied, worker, sent, counted, faults>>

-----------------------------------------------------------------------------
(* Faulty forms of definitions below: bugs the properties must catch.      *)

\* The copy is not restricted to the missing rows.
CopyEverything ==
    /\ pc = "insert"
    /\ Pin(Matched(cur, Tables[ti]))
    /\ pc' = "mark"
    /\ UNCHANGED <<now, raw, windows, copied, todo, cur, ti, attempted, sent, counted, faults>>

\* A failed copy is marked as well.
CopyFailsMarks ==
    /\ pc = "insert"
    /\ faults < MaxFaults
    /\ pc' = "mark"
    /\ faults' = faults + 1
    /\ UNCHANGED <<now, raw, pinned, windows, copied, todo, cur, ti, attempted, sent, counted>>

\* A pair that was copied before counts as an attempt.
SkipCounts ==
    /\ pc = "check"
    /\ \/ <<Id(cur), Tables[ti]>> \in copied
       \/ faults < MaxFaults
    /\ faults' = IF <<Id(cur), Tables[ti]>> \in copied THEN faults ELSE faults + 1
    /\ attempted' = attempted + 1
    /\ ti' = ti + 1
    /\ pc' = IF ti = Len(Tables) \/ attempted + 1 >= MaxPerRun THEN "window" ELSE "check"
    /\ UNCHANGED <<now, raw, pinned, windows, copied, todo, cur, sent, counted>>

\* An empty window is marked as copied.
CountNothingMarks ==
    /\ pc = "count"
    /\ Matched(cur, Tables[ti]) = {}
    /\ pc' = "mark"
    /\ UNCHANGED <<now, raw, pinned, windows, copied, todo, cur, ti, attempted, sent, counted, faults>>

\* The inner loop does not look at the cap.
NextPairUncapped(n) ==
    /\ attempted' = attempted + n
    /\ ti' = ti + 1
    /\ pc' = IF ti = Len(Tables) THEN "window" ELSE "check"

-----------------------------------------------------------------------------
(* runRawWindowCopyWorker, one statement a step.                           *)

\* On to the next table of the window, n attempts later.
NextPair(n) ==
    /\ attempted' = attempted + n
    /\ ti' = ti + 1
    /\ pc' = IF ti = Len(Tables) \/ attempted + n >= MaxPerRun THEN "window" ELSE "check"

Fault == faults < MaxFaults /\ faults' = faults + 1

\* SELECT ... FROM sobs_raw_windows FINAL ORDER BY WindowStart DESC LIMIT
Wake ==
    /\ pc = "sleep"
    /\ \E S \in SUBSET windows :
           /\ Cardinality(S) = IF Cardinality(windows) < Limit
                               THEN Cardinality(windows) ELSE Limit
           /\ \A w \in S, v \in windows \ S : w.at >= v.at
           /\ todo' = S
    /\ todo' # {}
    /\ attempted' = 0
    /\ pc' = "window"
    /\ UNCHANGED <<now, raw, pinned, windows, copied, cur, ti, sent, counted, faults>>

\* The newest window left, or the end of the run.
NextWindow ==
    /\ pc = "window"
    /\ IF todo = {} \/ attempted >= MaxPerRun
       THEN /\ pc' = "sleep"
            /\ todo' = {}
            /\ UNCHANGED <<cur, ti>>
       ELSE /\ \E w \in todo :
                   /\ \A v \in todo : w.at >= v.at
                   /\ cur' = w
                   /\ todo' = todo \ {w}
            /\ ti' = 1
            /\ pc' = "check"
    /\ UNCHANGED <<now, raw, pinned, windows, copied, attempted, sent, counted, faults>>

\* The copy state has the pair, or cannot be read.
Skip ==
    /\ pc = "check"
    /\ \/ <<Id(cur), Tables[ti]>> \in copied /\ UNCHANGED faults
       \/ Fault
    /\ NextPair(0)
    /\ UNCHANGED <<now, raw, pinned, windows, copied, todo, cur, sent, counted>>

NotCopied ==
    /\ pc = "check"
    /\ <<Id(cur), Tables[ti]>> \notin copied
    /\ pc' = "count"
    /\ counted' = {}
    /\ UNCHANGED <<now, raw, pinned, windows, copied, todo, cur, ti, attempted, sent, faults>>

\* No row matches: the pair stays open and the attempt does not count.
CountNothing ==
    /\ pc = "count"
    /\ Matched(cur, Tables[ti]) = {}
    /\ NextPair(0)
    /\ UNCHANGED <<now, raw, pinned, windows, copied, todo, cur, sent, counted, faults>>

CountRows ==
    /\ pc = "count"
    /\ Matched(cur, Tables[ti]) # {}
    /\ counted' = Matched(cur, Tables[ti])
    /\ pc' = "missing"
    /\ UNCHANGED <<now, raw, pinned, windows, copied, todo, cur, ti, attempted, sent, faults>>

CountMissing ==
    /\ pc = "missing"
    /\ pc' = IF Missing(cur, Tables[ti]) = {} THEN "mark" ELSE "insert"
    /\ UNCHANGED <<now, raw, pinned, windows, copied, todo, cur, ti, attempted, sent, counted, faults>>

\* INSERT INTO pinned SELECT ... FROM raw
Copy ==
    /\ pc = "insert"
    /\ Pin(Missing(cur, Tables[ti]))
    /\ pc' = "mark"
    /\ UNCHANGED <<now, raw, windows, copied, todo, cur, ti, attempted, sent, counted, faults>>

\* The statement fails after it stored some of its blocks.
CopyFails ==
    /\ pc = "insert"
    /\ \E S \in SUBSET Missing(cur, Tables[ti]) : Pin(S)
    /\ Fault
    /\ NextPair(1)
    /\ UNCHANGED <<now, raw, windows, copied, todo, cur, sent, counted>>

CountFails ==
    /\ pc \in {"count", "missing"}
    /\ Fault
    /\ NextPair(1)
    /\ UNCHANGED <<now, raw, pinned, windows, copied, todo, cur, sent, counted>>

\* markCopied, whose error is discarded.
Mark ==
    /\ pc = "mark"
    /\ \/ copied' = copied \cup {<<Id(cur), Tables[ti]>>} /\ UNCHANGED faults
       \/ Fault /\ UNCHANGED copied
    /\ NextPair(1)
    /\ UNCHANGED <<now, raw, pinned, windows, todo, cur, sent, counted>>

\* The process dies and starts again: the tables are what is left.
Crash ==
    /\ pc # "sleep"
    /\ Fault
    /\ pc' = "sleep"
    /\ todo' = {}
    /\ cur' = NoWindow
    /\ ti' = 1
    /\ attempted' = 0
    /\ UNCHANGED <<now, raw, pinned, windows, copied, sent, counted>>

Worker ==
    \/ Wake \/ NextWindow \/ Skip \/ NotCopied
    \/ CountNothing \/ CountRows \/ CountMissing \/ CountFails
    \/ Copy \/ CopyFails \/ Mark

Next ==
    \/ Tick
    \/ \E x \in Samples : Ingest(x) \/ Expire(x)
    \/ \E g \in Signals : Register(g)
    \/ Worker
    \/ Crash

Spec == Init /\ [][Next]_vars

\* The worker's loop runs for ever.
FairSpec == Spec /\ WF_vars(Worker)

-----------------------------------------------------------------------------
(* Properties.                                                             *)

\* Types, and the cap on a run's copies.
TypeOK ==
    /\ now \in 0..MaxTime
    /\ raw \in [Samples -> 0..MaxSent]
    /\ pinned \in [Samples -> Nat]
    /\ windows \subseteq Windows
    /\ copied \subseteq {Id(w) : w \in Windows} \X {Tables[i] : i \in DOMAIN Tables}
    /\ pc \in {"sleep", "window", "check", "count", "missing", "insert", "mark"}
    /\ todo \subseteq windows
    /\ cur \in Windows
    /\ ti \in 1 .. Len(Tables) + 1
    /\ attempted \in 0..MaxPerRun
    /\ sent \in [Samples -> 0..MaxSent]
    /\ counted \subseteq Samples
    /\ faults \in 0..MaxFaults

\* "Keep copy worker idempotent": however windows overlap and wherever a run
\* fails or dies, no row is pinned more often than it was ingested.
PinnedOnce == \A x \in Samples : pinned[x] <= sent[x]

\* A pair is marked only when every row its count saw is pinned, or is
\* one the TTL drops.
MarkedIsPinned ==
    [][\A p \in copied' \ copied :
          \A x \in counted : pinned[x] > 0 \/ now - x.at > RawTTL]_vars

\* "zero-row windows remain eligible for later runs": a pair is closed only
\* when it had rows, and they are pinned unless the TTL came first.
CopiedHadRows ==
    \A p \in copied : \E w \in windows :
        /\ Id(w) = p[1]
        /\ \E x \in InWindow(w, p[2]) :
               \/ pinned[x] > 0
               \/ sent[x] > 0 /\ now - x.at > RawTTL

\* Rows are pinned once however windows overlap, and a pair is closed only over
\* rows that were there (runRawWindowCopyWorker).
PinnedOnceAndTrue == TypeOK /\ PinnedOnce /\ CopiedHadRows

\* The rows of every window are copied, or go with the TTL first, though a
\* run copies the newest windows first and only MaxPerRun of them.
WindowsAreCopied ==
    \A w \in Windows : \A i \in DOMAIN Tables :
        w \in windows /\ Matched(w, Tables[i]) # {}
            ~> <<Id(w), Tables[i]>> \in copied \/ Matched(w, Tables[i]) = {}

\* "preserves full-fidelity raw slices around alerts/anomalies/errors": a row
\* of a window is pinned, or the pair is still open.
SlicesAreComplete ==
    \A w \in windows : \A i \in DOMAIN Tables :
        <<Id(w), Tables[i]>> \in copied =>
            \A x \in Matched(w, Tables[i]) : pinned[x] > 0

\* "repeated triggers within the same minute collapse onto a single row"
MinuteIsOneRow == \A v, w \in windows : Id(v) = Id(w) => v = w
=============================================================================
