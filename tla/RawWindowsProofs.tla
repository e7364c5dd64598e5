--------------------------- MODULE RawWindowsProofs ---------------------------
(***************************************************************************)
(* Proofs about RawWindows: for any number of windows, tables, samples and *)
(* faults, no row is pinned more often than it was ingested, a pair of a   *)
(* window and a table is closed only over rows that were there, and what   *)
(* its count saw is pinned by then, or was dropped by the TTL.             *)
(***************************************************************************)
EXTENDS RawWindows, TLAPS

Visiting == {"check", "count", "missing", "insert", "mark"}

\* A row the raw table's TTL may have dropped.
Expired(x) == now - x.at > RawTTL

\* Neither table holds more of a sample than was ingested.
NoMoreThanSent == \A x \in Samples : raw[x] <= sent[x] /\ pinned[x] <= sent[x]

\* Where the worker's two loops are.
InTheLoop ==
    pc \in Visiting =>
        cur \in windows /\ ti \in 1..Len(Tables) /\ attempted < MaxPerRun

\* The rows the count saw, while their pair is worked on: each is still there,
\* was pinned, or is old enough for the TTL; at the end it is not just there.
CountedRows ==
    pc \in {"missing", "insert", "mark"} =>
        /\ counted # {}
        /\ \A x \in counted :
               /\ x \in InWindow(cur, Tables[ti])
               /\ sent[x] > 0
               /\ pinned[x] > 0 \/ Expired(x) \/ (raw[x] > 0 /\ pc # "mark")

IInv == TypeOK /\ NoMoreThanSent /\ InTheLoop /\ CountedRows /\ CopiedHadRows

-----------------------------------------------------------------------------
(* Lemmas about the model's operators.                                     *)

\* What the assumption says of the constants.
LEMMA Constants ==
  /\ Half \in Nat /\ Minute \in Nat \ {0} /\ RawTTL \in Nat /\ MaxPerRun \in Nat \ {0}
  /\ MaxTime \in Nat /\ MaxSent \in Nat /\ MaxFaults \in Nat
  /\ Signals # {} /\ Len(Tables) \in Nat \ {0} /\ DOMAIN Tables = 1..Len(Tables)
  /\ \A x \in Samples : x.at \in Nat
<1> DEFINE T == {Tables[i] : i \in DOMAIN Tables}
<1>1. Tables \in Seq(T) /\ Tables # <<>>
  BY RawWindowsAssumption
<1> HIDE DEF T
<1>2. Len(Tables) \in Nat \ {0} /\ DOMAIN Tables = 1..Len(Tables)
  BY <1>1
<1> QED
  BY <1>2, RawWindowsAssumption

\* An insert of missing rows (Copy, CopyFails): a row that was not pinned is
\* pinned as often as its raw table has it, any other stays as it is.
LEMMA Pinning ==
  ASSUME TypeOK, NoMoreThanSent, NEW S \in SUBSET Missing(cur, Tables[ti]), Pin(S)
  PROVE  /\ pinned' \in [Samples -> Nat]
         /\ \A x \in Samples :
                /\ pinned[x] <= pinned'[x] /\ pinned'[x] <= sent[x]
                /\ x \in S => pinned'[x] > 0
<1>1. \A x \in S : x \in Samples /\ raw[x] > 0 /\ pinned[x] = 0
  BY DEF Missing, Matched, InWindow
<1>2. \A x \in Samples : raw[x] \in Nat /\ sent[x] \in Nat /\ pinned[x] \in Nat
  BY Constants DEF TypeOK
<1>3. \A x \in Samples : pinned'[x] = IF x \in S THEN raw[x] ELSE pinned[x]
  BY <1>1, <1>2 DEF Pin
<1>4. DOMAIN pinned' = Samples /\ pinned' = [x \in Samples |-> pinned'[x]]
  BY DEF Pin
<1>5. \A x \in Samples : pinned'[x] \in Nat
  BY <1>2, <1>3
<1> QED
  BY <1>1, <1>2, <1>3, <1>4, <1>5 DEF NoMoreThanSent

\* On to the next pair: the caps hold and the loop's invariant with them.
LEMMA NextPairStep ==
  ASSUME TypeOK, InTheLoop, pc \in Visiting, NEW n \in {0, 1}, NextPair(n)
  PROVE  /\ pc' \in {"window", "check"} /\ attempted' \in 0..MaxPerRun
         /\ ti' \in 1..Len(Tables) + 1
         /\ pc' = "check" => ti' \in 1..Len(Tables) /\ attempted' < MaxPerRun
BY Constants DEF TypeOK, InTheLoop, NextPair

-----------------------------------------------------------------------------
(* A step, one part of the invariant at a time.                            *)

\* The initial states satisfy the invariant.
LEMMA InitIInv == Init => IInv
<1> SUFFICES ASSUME Init PROVE IInv
  OBVIOUS
<1>1. NoWindow \in Windows
  BY Constants DEF NoWindow, Windows
<1>2. TypeOK
  BY <1>1, Constants DEF Init, TypeOK
<1> QED
  BY <1>2 DEF Init, IInv, NoMoreThanSent, InTheLoop, CountedRows, CopiedHadRows, Visiting

\* What every step does to the tables and to the clock.
LEMMA TableStep ==
  ASSUME TypeOK, NoMoreThanSent, [Next]_vars
  PROVE  /\ now' \in 0..MaxTime /\ now <= now'
         /\ raw' \in [Samples -> 0..MaxSent] /\ sent' \in [Samples -> 0..MaxSent]
         /\ pinned' \in [Samples -> Nat]
         /\ \A x \in Samples : /\ sent[x] <= sent'[x] /\ pinned[x] <= pinned'[x]
                               /\ raw[x] <= raw'[x] \/ Expired(x)
         /\ windows \subseteq windows' /\ windows' \subseteq Windows
         /\ faults' \in 0..MaxFaults
         /\ NoMoreThanSent'
<1> DEFINE Goal ==
         /\ now' \in 0..MaxTime /\ now <= now'
         /\ raw' \in [Samples -> 0..MaxSent] /\ sent' \in [Samples -> 0..MaxSent]
         /\ pinned' \in [Samples -> Nat]
         /\ \A x \in Samples : /\ sent[x] <= sent'[x] /\ pinned[x] <= pinned'[x]
                               /\ raw[x] <= raw'[x] \/ Expired(x)
         /\ windows \subseteq windows' /\ windows' \subseteq Windows
         /\ faults' \in 0..MaxFaults
         /\ NoMoreThanSent'
<1> DEFINE Types == /\ now \in 0..MaxTime /\ pinned \in [Samples -> Nat]
                    /\ raw \in [Samples -> 0..MaxSent] /\ sent \in [Samples -> 0..MaxSent]
                    /\ windows \subseteq Windows /\ faults \in 0..MaxFaults
                    /\ MaxTime \in Nat /\ MaxSent \in Nat /\ MaxFaults \in Nat
<1>0. Types
  BY Constants DEF TypeOK
<1> USE <1>0 DEF NoMoreThanSent, Expired
<1>1. ASSUME Tick PROVE Goal
  BY <1>1 DEF Tick
<1>2. ASSUME NEW x \in Samples, Ingest(x) PROVE Goal
  <2>1. /\ raw' \in [Samples -> 0..MaxSent] /\ sent' \in [Samples -> 0..MaxSent]
        /\ \A y \in Samples : /\ sent[y] <= sent'[y] /\ raw[y] <= raw'[y]
                              /\ raw'[y] <= sent'[y]
        /\ UNCHANGED <<now, pinned, windows, faults>>
    <3>1. /\ sent' = [sent EXCEPT ![x] = @ + 1] /\ raw' = [raw EXCEPT ![x] = @ + 1]
          /\ sent[x] < MaxSent /\ UNCHANGED <<now, pinned, windows, faults>>
      BY <1>2 DEF Ingest
    <3>2. sent[x] \in 0..MaxSent /\ raw[x] \in 0..MaxSent /\ raw[x] <= sent[x]
      OBVIOUS
    <3>3. sent[x] + 1 \in 0..MaxSent /\ raw[x] + 1 \in 0..MaxSent
      BY <3>1, <3>2
    <3>4. ASSUME NEW y \in Samples
          PROVE  sent[y] <= sent'[y] /\ raw[y] <= raw'[y] /\ raw'[y] <= sent'[y]
      BY <3>1, <3>2
    <3> QED
      BY <3>1, <3>3, <3>4
  <2> QED
    BY <2>1
<1>3. ASSUME NEW x \in Samples, Expire(x) PROVE Goal
  <2>1. /\ raw' \in [Samples -> 0..MaxSent]
        /\ \A y \in Samples : (raw'[y] = raw[y] \/ Expired(y)) /\ raw'[y] <= raw[y]
        /\ UNCHANGED <<now, pinned, sent, windows, faults>>
    <3>1. /\ raw' = [raw EXCEPT ![x] = 0] /\ Expired(x)
          /\ UNCHANGED <<now, pinned, sent, windows, faults>>
      BY <1>3 DEF Expire
    <3>2. ASSUME NEW y \in Samples PROVE (raw'[y] = raw[y] \/ Expired(y)) /\ raw'[y] <= raw[y]
      <4>1. raw[y] \in Nat /\ raw'[y] = IF y = x THEN 0 ELSE raw[y]
        BY <3>1
      <4> QED
        BY <3>1, <4>1
    <3>3. 0 \in 0..MaxSent
      OBVIOUS
    <3> QED
      BY <3>1, <3>2, <3>3
  <2> QED
    BY <2>1
<1>4. ASSUME NEW g \in Signals, Register(g) PROVE Goal
  BY <1>4 DEF Register, Windows
<1>5. ASSUME Copy \/ CopyFails PROVE Goal
  <2>1. PICK S \in SUBSET Missing(cur, Tables[ti]) : Pin(S)
    BY <1>5 DEF Copy, CopyFails
  <2>2. UNCHANGED <<now, raw, sent, windows>> /\ faults' \in 0..MaxFaults
    BY <1>5 DEF Copy, CopyFails, Fault
  <2>3. /\ pinned' \in [Samples -> Nat]
        /\ \A x \in Samples : pinned[x] <= pinned'[x] /\ pinned'[x] <= sent[x]
    BY <2>1, Pinning
  <2> QED
    BY <2>2, <2>3
<1>6. ASSUME \/ Wake \/ NextWindow \/ Skip \/ NotCopied \/ CountNothing \/ CountRows
             \/ CountMissing \/ CountFails \/ Mark \/ Crash \/ UNCHANGED vars
      PROVE Goal
  <2>1. UNCHANGED <<now, raw, pinned, sent, windows>> /\ faults' \in 0..MaxFaults
    <3>1. CASE Wake \/ NextWindow \/ NotCopied \/ CountNothing \/ CountRows \/ CountMissing
      BY <3>1 DEF Wake, NextWindow, NotCopied, CountNothing, CountRows, CountMissing
    <3>2. CASE Skip \/ CountFails \/ Mark \/ Crash \/ UNCHANGED vars
      BY <3>2 DEF Skip, CountFails, Mark, Crash, Fault, vars
    <3> QED
      BY <1>6, <3>1, <3>2
  <2> QED
    BY <2>1
<1> HIDE DEF Goal, NoMoreThanSent
<1>7. Goal
  BY <1>1, <1>2, <1>3, <1>4, <1>5, <1>6 DEF Next, Worker
<1> QED
  BY <1>7 DEF Goal

\* Time only goes on: what the TTL may drop, it may still drop later, and what
\* is stored or pinned stays counted.
LEMMA LaterStep ==
  ASSUME TypeOK, NoMoreThanSent, [Next]_vars, NEW x \in Samples
  PROVE  /\ Expired(x) => Expired(x)'
         /\ pinned[x] > 0 => pinned'[x] > 0
         /\ sent[x] > 0 => sent'[x] > 0
         /\ raw[x] > 0 => raw'[x] > 0 \/ Expired(x)'
<1>1. /\ now \in Nat /\ now' \in Nat /\ now <= now' /\ x.at \in Nat /\ RawTTL \in Nat
      /\ pinned[x] \in Nat /\ pinned'[x] \in Nat /\ pinned[x] <= pinned'[x]
      /\ sent[x] \in Nat /\ sent'[x] \in Nat /\ sent[x] <= sent'[x]
      /\ raw[x] \in Nat /\ raw'[x] \in Nat /\ (raw[x] <= raw'[x] \/ Expired(x))
  <2>1. /\ now \in 0..MaxTime /\ pinned \in [Samples -> Nat]
        /\ raw \in [Samples -> 0..MaxSent] /\ sent \in [Samples -> 0..MaxSent]
    BY DEF TypeOK
  <2> HIDE DEF TypeOK
  <2> QED
    BY <2>1, TableStep, Constants
<1> QED
  BY <1>1 DEF Expired

\* What every step does to the worker: it may stay where it is or go on.
LEMMA LoopStep ==
  ASSUME IInv, [Next]_vars
  PROVE  /\ pc' \in {"sleep", "window"} \cup Visiting /\ todo' \subseteq windows'
         /\ cur' \in Windows /\ ti' \in 1..Len(Tables) + 1
         /\ attempted' \in 0..MaxPerRun
         /\ InTheLoop'
<1>0. /\ TypeOK /\ InTheLoop /\ windows \subseteq windows'
      /\ pc \in {"sleep", "window"} \cup Visiting
  BY TableStep DEF IInv, TypeOK, Visiting
<1> DEFINE Goal == /\ pc' \in {"sleep", "window"} \cup Visiting /\ todo' \subseteq windows'
                   /\ cur' \in Windows /\ ti' \in 1..Len(Tables) + 1
                   /\ attempted' \in 0..MaxPerRun
                   /\ InTheLoop'
<1>1. CASE UNCHANGED worker
  BY <1>0, <1>1 DEF worker, TypeOK, InTheLoop
<1>2. CASE Wake
  BY <1>0, <1>2, Constants DEF Wake, TypeOK, InTheLoop, Visiting
<1>3. CASE NextWindow
  <2>1. CASE todo = {} \/ attempted >= MaxPerRun
    BY <1>0, <1>3, <2>1 DEF NextWindow, TypeOK, InTheLoop, Visiting
  <2>2. CASE ~(todo = {} \/ attempted >= MaxPerRun)
    <3>1. /\ cur' \in todo /\ todo' \subseteq todo /\ ti' = 1 /\ pc' = "check"
          /\ attempted' = attempted /\ attempted < MaxPerRun
      BY <1>0, <1>3, <2>2, Constants DEF NextWindow, TypeOK
    <3>2. todo \subseteq windows /\ windows \subseteq Windows /\ attempted \in 0..MaxPerRun
      BY <1>0 DEF TypeOK
    <3>3. 1 \in 1..Len(Tables) /\ 1 \in 1..Len(Tables) + 1
      BY Constants
    <3> QED
      BY <1>0, <3>1, <3>2, <3>3 DEF InTheLoop, Visiting
  <2> QED
    BY <2>1, <2>2
<1>4. ASSUME pc \in Visiting, UNCHANGED <<cur, todo>>, NEW n \in {0, 1}, NextPair(n) PROVE Goal
  <2>1. /\ pc' \in {"window", "check"} /\ attempted' \in 0..MaxPerRun
        /\ ti' \in 1..Len(Tables) + 1
        /\ pc' = "check" => ti' \in 1..Len(Tables) /\ attempted' < MaxPerRun
    BY <1>0, <1>4, NextPairStep
  <2>2. cur \in windows /\ cur \in Windows /\ todo \subseteq windows
    BY <1>0, <1>4 DEF InTheLoop, TypeOK
  <2> QED
    BY <1>0, <1>4, <2>1, <2>2 DEF InTheLoop, Visiting
<1>5. ASSUME pc \in Visiting, pc' \in Visiting, UNCHANGED <<cur, todo, ti, attempted>> PROVE Goal
  BY <1>0, <1>5 DEF InTheLoop, TypeOK
<1>6. CASE Skip
  BY <1>4, <1>6 DEF Skip, Visiting
<1>7. CASE NotCopied \/ CountRows \/ CountMissing \/ Copy
  BY <1>5, <1>7 DEF NotCopied, CountRows, CountMissing, Copy, Visiting
<1>8. CASE CountNothing \/ CountFails \/ CopyFails \/ Mark
  BY <1>4, <1>8 DEF CountNothing, CountFails, CopyFails, Mark, Visiting
<1>9. CASE Crash
  <2>1. NoWindow \in Windows
    BY Constants DEF NoWindow, Windows
  <2> QED
    BY <1>0, <1>9, <2>1, Constants DEF Crash, InTheLoop, Visiting
<1>10. CASE Tick \/ (\E x \in Samples : Ingest(x) \/ Expire(x)) \/ (\E g \in Signals : Register(g))
  BY <1>1, <1>10 DEF Tick, Ingest, Expire, Register
<1> QED
  BY <1>1, <1>2, <1>3, <1>6, <1>7, <1>8, <1>9, <1>10 DEF Next, Worker, vars

\* What the count saw stays true of the pair at hand, whatever the senders and
\* the TTL do meanwhile; when the pair is to be marked its rows are pinned.
LEMMA CountedStep ==
  ASSUME IInv, [Next]_vars
  PROVE  CountedRows' /\ counted' \subseteq Samples
<1> DEFINE At(x) == x \in InWindow(cur, Tables[ti]) /\ sent[x] > 0
<1>0. /\ counted \subseteq Samples
      /\ pc \in {"missing", "insert", "mark"} => counted # {} /\ \A x \in counted : At(x)
      /\ \A x \in Samples : /\ raw[x] \in Nat /\ sent[x] \in Nat /\ pinned[x] \in Nat
                            /\ Expired(x) => Expired(x)'
                            /\ pinned[x] > 0 => pinned'[x] > 0
                            /\ sent[x] > 0 => sent'[x] > 0
                            /\ raw[x] > 0 => raw'[x] > 0 \/ Expired(x)'
  BY LaterStep, Constants DEF IInv, TypeOK, CountedRows
<1>1. CASE UNCHANGED <<worker, counted>>
  BY <1>0, <1>1 DEF IInv, CountedRows, worker, InWindow, Matches
<1>2. ASSUME pc' \notin {"missing", "insert", "mark"}, counted' \in {counted, {}}
      PROVE  CountedRows' /\ counted' \subseteq Samples
  BY <1>0, <1>2 DEF CountedRows
<1>3. CASE CountRows
  <2>1. \A x \in Matched(cur, Tables[ti]) :
            x \in InWindow(cur, Tables[ti]) /\ x \in Samples /\ raw[x] > 0
    BY DEF Matched, InWindow
  <2>2. \A x \in Samples : raw[x] > 0 => sent[x] > 0
    BY <1>0 DEF IInv, NoMoreThanSent
  <2>3. /\ UNCHANGED <<raw, sent, cur, ti>> /\ pc' = "missing"
        /\ counted' = Matched(cur, Tables[ti]) /\ counted' # {}
    BY <1>3 DEF CountRows
  <2> QED
    BY <2>1, <2>2, <2>3 DEF CountedRows, InWindow, Matches
<1>4. CASE CountMissing
  <2>1. /\ UNCHANGED <<raw, sent, pinned, now, cur, ti, counted>> /\ pc = "missing"
        /\ pc' = "insert" \/ (pc' = "mark" /\ Missing(cur, Tables[ti]) = {})
    BY <1>4 DEF CountMissing
  <2>2. ASSUME Missing(cur, Tables[ti]) = {}, NEW x \in counted, raw[x] > 0 PROVE pinned[x] > 0
    BY <1>0, <2>1, <2>2 DEF Missing, Matched
  <2> QED
    BY <1>0, <2>1, <2>2 DEF IInv, CountedRows, InWindow, Matches, Expired
<1>5. CASE Copy
  <2>1. /\ UNCHANGED <<raw, sent, now, cur, ti, counted>> /\ pc = "insert" /\ pc' = "mark"
        /\ Pin(Missing(cur, Tables[ti]))
    BY <1>5 DEF Copy
  <2>2. ASSUME NEW x \in counted, raw[x] > 0 PROVE pinned'[x] > 0
    <3>1. CASE pinned[x] > 0
      BY <1>0, <3>1
    <3>2. CASE pinned[x] = 0
      <4>1. x \in Missing(cur, Tables[ti])
        BY <1>0, <2>1, <2>2, <3>2 DEF Missing, Matched
      <4> QED
        BY <1>0, <2>1, <4>1, Pinning DEF IInv
    <3> QED
      BY <1>0, <3>1, <3>2
  <2> QED
    BY <1>0, <2>1, <2>2 DEF IInv, CountedRows, InWindow, Matches, Expired
<1>6. CASE \/ Wake \/ NextWindow \/ Skip \/ NotCopied \/ CountNothing \/ CountFails
           \/ CopyFails \/ Mark \/ Crash
  BY <1>2, <1>6 DEF Wake, NextWindow, Skip, NotCopied, CountNothing, CountFails,
                    CopyFails, Mark, Crash, NextPair
<1>7. CASE \/ Tick \/ (\E x \in Samples : Ingest(x) \/ Expire(x))
           \/ (\E g \in Signals : Register(g)) \/ UNCHANGED vars
  BY <1>1, <1>7 DEF Tick, Ingest, Expire, Register, vars
<1> QED
  BY <1>3, <1>4, <1>5, <1>6, <1>7 DEF Next, Worker

\* A pair is closed over rows its window matches, and stays so.
LEMMA ClosedStep ==
  ASSUME IInv, [Next]_vars
  PROVE  /\ CopiedHadRows'
         /\ copied' \subseteq {Id(w) : w \in Windows} \X {Tables[i] : i \in DOMAIN Tables}
<1> DEFINE Had(p) == \E w \in windows :
                        /\ Id(w) = p[1]
                        /\ \E x \in InWindow(w, p[2]) :
                               pinned[x] > 0 \/ (sent[x] > 0 /\ Expired(x))
<1>0. /\ windows \subseteq windows'
      /\ \A x \in Samples : /\ Expired(x) => Expired(x)'
                            /\ pinned[x] > 0 => pinned'[x] > 0
                            /\ sent[x] > 0 => sent'[x] > 0
  BY LaterStep, TableStep DEF IInv
<1>1. ASSUME NEW p, Had(p) PROVE Had(p)'
  <2>1. PICK w \in windows : /\ Id(w) = p[1]
                             /\ \E x \in InWindow(w, p[2]) :
                                    pinned[x] > 0 \/ (sent[x] > 0 /\ Expired(x))
    BY <1>1
  <2>2. PICK x \in InWindow(w, p[2]) : pinned[x] > 0 \/ (sent[x] > 0 /\ Expired(x))
    BY <2>1
  <2>3. x \in Samples /\ w \in windows'
    BY <1>0 DEF InWindow
  <2>4. pinned'[x] > 0 \/ (sent'[x] > 0 /\ Expired(x)')
    BY <1>0, <2>2, <2>3
  <2> QED
    BY <2>1, <2>2, <2>3, <2>4 DEF InWindow, Matches, Id
<1>2. \A p \in copied : Had(p)
  BY DEF IInv, CopiedHadRows, Expired
<1>3. CASE copied' = copied
  BY <1>1, <1>2, <1>3 DEF CopiedHadRows, Expired, IInv, TypeOK
<1>4. CASE Mark
  <2>1. pc = "mark" /\ copied' \subseteq copied \cup {<<Id(cur), Tables[ti]>>}
    BY <1>4 DEF Mark
  <2>2. cur \in windows /\ cur \in Windows /\ ti \in DOMAIN Tables
    BY <2>1, Constants DEF IInv, InTheLoop, TypeOK, Visiting
  <2>3. PICK x \in counted : TRUE
    BY <2>1 DEF IInv, CountedRows
  <2>4. /\ x \in InWindow(cur, Tables[ti])
        /\ pinned[x] > 0 \/ (sent[x] > 0 /\ Expired(x))
    BY <2>1, <2>3 DEF IInv, CountedRows
  <2>5. Had(<<Id(cur), Tables[ti]>>)
    BY <2>2, <2>4
  <2>6. \A p \in copied' : Had(p)'
    BY <1>1, <1>2, <2>1, <2>5
  <2> QED
    BY <2>1, <2>2, <2>6 DEF CopiedHadRows, Expired, IInv, TypeOK
<1> QED
  BY <1>3, <1>4 DEF Next, Worker, Tick, Ingest, Expire, Register, Wake, NextWindow, Skip,
        NotCopied, CountNothing, CountRows, CountMissing, CountFails, Copy, CopyFails,
        Crash, vars

\* The invariant is inductive.
LEMMA Inductive == IInv /\ [Next]_vars => IInv'
<1> SUFFICES ASSUME IInv, [Next]_vars PROVE IInv'
  OBVIOUS
<1>1. TypeOK /\ NoMoreThanSent
  BY DEF IInv
<1>2. TypeOK'
  BY <1>1, TableStep, LoopStep, CountedStep, ClosedStep DEF TypeOK, Visiting
<1> QED
  BY <1>1, <1>2, TableStep, LoopStep, CountedStep, ClosedStep DEF IInv

-----------------------------------------------------------------------------
(* The theorems.                                                           *)

\* The rows of a sample are pinned at most as often as they were ingested,
\* however windows overlap and wherever a run fails or dies, and a pair is
\* closed only over rows that were there (runRawWindowCopyWorker).
THEOREM PinsStayTrue == Spec => []PinnedOnceAndTrue
<1>1. IInv => PinnedOnceAndTrue
  BY DEF IInv, PinnedOnceAndTrue, PinnedOnce, NoMoreThanSent
<1> QED
  BY <1>1, InitIInv, Inductive, PTL DEF Spec

\* Marking a pair closes it over pinned rows: whatever was ingested, dropped
\* or failed since its count, the rows counted are pinned or past the TTL.
THEOREM MarksStayTrue == Spec => MarkedIsPinned
<1>1. ASSUME IInv, [Next]_vars
      PROVE  [\A p \in copied' \ copied :
                 \A x \in counted : pinned[x] > 0 \/ now - x.at > RawTTL]_vars
  <2>1. CASE copied' = copied
    BY <2>1
  <2>2. CASE Mark
    <3>1. pc = "mark"
      BY <2>2 DEF Mark
    <3>2. \A x \in counted : pinned[x] > 0 \/ now - x.at > RawTTL
      BY <1>1, <3>1 DEF IInv, CountedRows, Expired
    <3> QED
      BY <3>2
  <2> QED
    BY <1>1, <2>1, <2>2 DEF Next, Worker, Tick, Ingest, Expire, Register, Wake, NextWindow,
        Skip, NotCopied, CountNothing, CountRows, CountMissing, CountFails, Copy, CopyFails,
        Crash, vars
<1> QED
  BY <1>1, InitIInv, Inductive, PTL DEF Spec, MarkedIsPinned
===============================================================================
