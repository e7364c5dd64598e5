------------------------------ MODULE ReadsProofs ------------------------------
(***************************************************************************)
(* Proofs about what is read and shown (Forms): events of browsers, the    *)
(* page of an incident, the statements of the query page, and the walks    *)
(* over the screens of the lists.                                          *)
(***************************************************************************)
EXTENDS Forms, Sequences, FiniteSets, FiniteSetTheorems, SequenceTheorems,
        WellFoundedInduction, TLAPS

-----------------------------------------------------------------------------
(* Browsers and their events.                                              *)

\* The parts count as this module does.
LEMMA CountsAgree ==
  /\ \A S : Browser!Cardinality(S) = Cardinality(S)
  /\ \A S : Incident!Cardinality(S) = Cardinality(S)
<1>1. \A S : Browser!Cardinality(S) = Cardinality(S)
  BY DEF Browser!Cardinality, Cardinality
<1>2. \A S : Incident!Cardinality(S) = Cardinality(S)
  BY DEF Incident!Cardinality, Cardinality
<1> QED
  BY <1>1, <1>2

\* What browsers, beacons and rows of events are.
RumKnown == Contexts \cup {CHOOSE d \in Contexts : TRUE}
RumTold == RumKnown \cup {Browser!NoContext}
RumTypesOf == Kinds \cup Browser!Errors \cup {"pageview"}
TokenSet == [app : {AppOf[b] : b \in Browsers} \cup {""},
             origin : {OriginOf[b] : b \in Browsers} \cup {""}, exp : Int]
VisualSet == [id : Nat, exp : Nat, once : BOOLEAN]
BrowserSet == [runsOn : RumKnown, context : RumTold, first : BOOLEAN, up : BOOLEAN,
               token : TokenSet, visual : VisualSet, pending : [Browser!Errors -> Int]]
BeaconSet == [id : Nat, session : Browsers, type : RumTypesOf, hash : RumTold, full : BOOLEAN,
              context : RumTold, had : RumKnown, token : TokenSet, visual : VisualSet, at : Nat]
EventSet == [id : Nat, session : Browsers, type : RumTypesOf, context : RumTold, had : RumKnown,
             visual : VisualSet, sent : Nat, at : Nat]
RumTypes ==
    /\ browser \in [Browsers -> BrowserSet]
    /\ beacons \in SUBSET BeaconSet /\ sessions \in SUBSET EventSet
    /\ rumMs \in Nat /\ counts \in [events : Nat, changes : Nat, faults : Nat]
\* The memory holds what sessions told, by their hashes, and each key once.
Remembered ==
    /\ cacheKeys \in Seq(Browsers) /\ Len(cacheKeys) <= rumBrowserContextCacheMax
    /\ \A i, j \in 1..Len(cacheKeys) : cacheKeys[i] = cacheKeys[j] => i = j
    /\ cache \in [Browser!Range(cacheKeys) -> [hash : RumTold, context : RumTold]]
    /\ \A s \in Browser!Range(cacheKeys) : cache[s].context = cache[s].hash
\* A beacon tells what its browser runs on, or a hash of it, or nothing.
TellsOwn ==
    /\ \A m \in beacons : /\ m.hash \in {Browser!NoContext, m.had} /\ (m.full => m.hash = m.had)
                          /\ m.context = IF m.full THEN m.had ELSE Browser!NoContext
    /\ \A r \in sessions : r.context \in {Browser!NoContext, r.had}
\* A visual context is with one session, there with its browser or with one event
\* unless it is to be kept, and is not expired where it went.
Bears(x) == x.visual # Browser!NoVisual
VisualsApart ==
    /\ \A x \in Browser!carried : Bears(x) =>
           x.visual.id \in 1..counts.changes /\ (x.visual.exp # 0 => x.at <= x.visual.exp)
    /\ \A x, y \in Browser!carried : Bears(x) /\ Bears(y) /\ x.visual.id = y.visual.id =>
           x.session = y.session /\ (x.visual.once => x.id = y.id)
    /\ \A b \in Browsers : Bears(browser[b]) =>
           /\ browser[b].visual.id \in 1..counts.changes
           /\ \A x \in Browser!carried : Bears(x) /\ x.visual.id = browser[b].visual.id =>
                  x.session = b /\ x.visual = browser[b].visual /\ ~ browser[b].visual.once
           /\ \A c \in Browsers : Bears(browser[c]) /\ browser[c].visual.id = browser[b].visual.id
                  => b = c
RumInv == RumTypes /\ Remembered /\ TellsOwn /\ VisualsApart

\* What is carried comes from beacons and rows.
LEMMA CarriedTypes ==
  ASSUME RumTypes
  PROVE  Browser!carried \in SUBSET [id : Nat, session : Browsers, visual : VisualSet, at : Nat]
BY DEF RumTypes, Browser!carried, BeaconSet, EventSet

\* An event is sent, with the visual context of its browser or none; the browser
\* keeps that context only if the event has none.
LEMMA SendKeeps ==
  ASSUME RumInv, NEW b \in Browsers, NEW type \in RumTypesOf, NEW visual \in VisualSet,
         NEW br \in BrowserSet, Browser!send(b, type, visual, br), UNCHANGED Browser!rest,
         br.visual \in {browser[b].visual, Browser!NoVisual},
         visual # Browser!NoVisual => /\ visual = browser[b].visual
                                      /\ visual.once => br.visual = Browser!NoVisual
                                      /\ visual.exp # 0 => rumMs <= visual.exp
  PROVE  RumInv'
<1> DEFINE tells == type \in {"pageview", "error"}
           full == tells /\ (br.first \/ br.context # br.runsOn)
           beacon == [id |-> counts.events + 1, session |-> b, type |-> type,
                      hash |-> IF tells THEN br.runsOn ELSE Browser!NoContext, full |-> full,
                      context |-> IF full THEN br.runsOn ELSE Browser!NoContext, had |-> br.runsOn,
                      token |-> br.token, visual |-> visual, at |-> rumMs]
           after == [br EXCEPT !.context = IF tells THEN br.runsOn ELSE @,
                               !.first = @ /\ type # "pageview"]
<1>1. /\ RumTypes /\ Remembered /\ TellsOwn /\ VisualsApart
      /\ beacons' = beacons \cup {beacon} /\ browser' = [browser EXCEPT ![b] = after]
      /\ counts' = [counts EXCEPT !["events"] = @ + 1]
      /\ UNCHANGED <<cache, cacheKeys, sessions, errorLog, rumMs>>
  BY DEF RumInv, Browser!send, Browser!Bump, Browser!rest, Browser!server, Browser!tables
<1>2. PICK m : m = beacon
  OBVIOUS
<1>3. PICK now_ : now_ = after
  OBVIOUS
<1>4. /\ m \in BeaconSet /\ m.id = counts.events + 1 /\ m.visual = visual /\ m.at = rumMs
      /\ m.hash \in {Browser!NoContext, m.had} /\ (m.full => m.hash = m.had)
      /\ m.context = IF m.full THEN m.had ELSE Browser!NoContext
  <2>1. /\ counts.events + 1 \in Nat /\ rumMs \in Nat /\ br.runsOn \in RumKnown /\ br.token \in TokenSet
        /\ full \in BOOLEAN /\ full => tells
    BY <1>1 DEF RumTypes, BrowserSet
  <2>2. PICK h, c : /\ h = IF tells THEN br.runsOn ELSE Browser!NoContext
                    /\ c = IF full THEN br.runsOn ELSE Browser!NoContext
    OBVIOUS
  <2>3. /\ h \in RumTold /\ c \in RumTold /\ h \in {Browser!NoContext, br.runsOn}
        /\ full => h = br.runsOn
        /\ c = IF full THEN br.runsOn ELSE Browser!NoContext
    BY <2>1, <2>2 DEF RumTold
  <2>4. PICK f \in BOOLEAN : f = full
    BY <2>1
  <2>5. m = [id |-> counts.events + 1, session |-> b, type |-> type, hash |-> h, full |-> f,
             context |-> c, had |-> br.runsOn, token |-> br.token, visual |-> visual, at |-> rumMs]
    BY <1>2, <2>2, <2>4
  <2> HIDE DEF tells, full, beacon
  <2> QED
    BY <2>1, <2>3, <2>4, <2>5 DEF BeaconSet
<1>5. now_ \in BrowserSet /\ now_.visual = br.visual
  BY <1>3 DEF BrowserSet, RumTold
<1>6. /\ beacons' = beacons \cup {m} /\ browser' = [browser EXCEPT ![b] = now_]
      /\ counts' \in [events : Nat, changes : Nat, faults : Nat] /\ counts'.changes = counts.changes
      /\ counts.changes \in Nat
  BY <1>1, <1>2, <1>3 DEF RumTypes
<1> HIDE DEF tells, full, beacon, after
<1>7. RumTypes'
  BY <1>1, <1>4, <1>5, <1>6 DEF RumTypes
<1>8. Remembered' /\ TellsOwn'
  <2>1. Remembered'
    BY <1>1 DEF Remembered, Browser!Range
  <2>2. TellsOwn'
    BY <1>1, <1>4, <1>6 DEF TellsOwn
  <2> QED
    BY <2>1, <2>2
<1>9. VisualsApart'
  <2>1. PICK e : e = [id |-> m.id, session |-> b, visual |-> visual, at |-> rumMs]
    OBVIOUS
  <2>2. Browser!carried' = Browser!carried \cup {e}
    <3>1. /\ m.id = e.id /\ m.session = e.session /\ m.visual = e.visual /\ m.at = e.at
          /\ sessions' = sessions
      <4>1. m.session = b
        BY <1>2 DEF beacon
      <4> QED
        BY <1>1, <1>4, <2>1, <4>1
    <3>2. [id |-> m.id, session |-> m.session, visual |-> m.visual, at |-> m.at] = e
      BY <2>1, <3>1
    <3>3. \A x : x \in Browser!carried' <=> x \in Browser!carried \/ x = e
      BY <1>6, <3>1, <3>2 DEF Browser!carried
    <3> QED
      BY <3>3
  <2>3. e.visual = visual /\ e.at = rumMs /\ e.session = b
    BY <2>1
  <2>4. /\ browser'[b].visual = br.visual
        /\ \A c \in Browsers : c # b => browser'[c] = browser[c]
    BY <1>1, <1>5, <1>6 DEF RumTypes
  <2>5. Bears(e) => /\ e.visual = browser[b].visual /\ Bears(browser[b])
                    /\ e.visual.once => ~ Bears(browser[b])'
                    /\ e.visual.exp # 0 => e.at <= e.visual.exp
    BY <2>3, <2>4 DEF Bears
  <2>6. \A c \in Browsers : Bears(browser[c])' =>
            Bears(browser[c]) /\ browser'[c].visual = browser[c].visual
    BY <2>4 DEF Bears
  <2> QED
    BY <1>1, <1>6, <2>2, <2>3, <2>5, <2>6 DEF VisualsApart, Bears
<1> QED
  BY <1>7, <1>8, <1>9 DEF RumInv

\* A browser changes, but for its visual context.
LEMMA BrowserChanges ==
  ASSUME RumInv, NEW b \in Browsers, NEW br \in BrowserSet, br.visual = browser[b].visual,
         browser' = [browser EXCEPT ![b] = br], counts' = counts, UNCHANGED <<beacons, Browser!rest>>
  PROVE  RumInv'
<1>1. /\ RumTypes /\ Remembered /\ TellsOwn /\ VisualsApart
      /\ UNCHANGED <<beacons, cache, cacheKeys, sessions, errorLog, rumMs>>
  BY DEF RumInv, Browser!rest, Browser!server, Browser!tables
<1>2. RumTypes' /\ Remembered' /\ TellsOwn'
  BY <1>1 DEF RumTypes, Remembered, TellsOwn, Browser!Range
<1>3. Browser!carried' = Browser!carried /\ \A c \in Browsers : browser'[c].visual = browser[c].visual
  BY <1>1 DEF Browser!carried, RumTypes
<1>4. VisualsApart'
  BY <1>1, <1>3 DEF VisualsApart, Bears
<1> QED
  BY <1>2, <1>4 DEF RumInv

\* What a session runs on changes, or what the site says of its next error.
LEMMA ContextIsChanged ==
  ASSUME RumInv, NEW b \in Browsers, Browser!ChangeContext(b)
  PROVE  RumInv'
<1>1. /\ RumTypes /\ Remembered /\ TellsOwn /\ VisualsApart
      /\ UNCHANGED <<beacons, cache, cacheKeys, sessions, errorLog, rumMs>>
      /\ counts' = [counts EXCEPT !["changes"] = @ + 1]
  BY DEF RumInv, Browser!ChangeContext, Browser!Bump, Browser!rest, Browser!server, Browser!tables
<1>2. PICK c \in Contexts : browser' = [browser EXCEPT ![b].runsOn = c]
  BY DEF Browser!ChangeContext
<1>3. PICK br : br = [browser[b] EXCEPT !.runsOn = c]
  OBVIOUS
<1>4. br \in BrowserSet /\ br.visual = browser[b].visual
  BY <1>1, <1>3 DEF RumTypes, BrowserSet, RumKnown
<1>5. browser' = [browser EXCEPT ![b] = br]
  BY <1>2, <1>3
<1>6. /\ counts' \in [events : Nat, changes : Nat, faults : Nat]
      /\ counts.changes \in Nat /\ counts'.changes = counts.changes + 1
  BY <1>1 DEF RumTypes
<1>7. RumTypes' /\ Remembered' /\ TellsOwn'
  BY <1>1, <1>4, <1>5, <1>6 DEF RumTypes, Remembered, TellsOwn, Browser!Range
<1>8. Browser!carried' = Browser!carried /\ \A c2 \in Browsers : browser'[c2].visual = browser[c2].visual
  BY <1>1, <1>4, <1>5 DEF Browser!carried, RumTypes
<1>9. VisualsApart'
  BY <1>1, <1>6, <1>8 DEF VisualsApart, Bears
<1> QED
  BY <1>7, <1>9 DEF RumInv

LEMMA VisualIsSet ==
  ASSUME RumInv, NEW b \in Browsers, Browser!SetVisualContext(b)
  PROVE  RumInv'
<1>1. /\ RumTypes /\ Remembered /\ TellsOwn /\ VisualsApart
      /\ UNCHANGED <<beacons, cache, cacheKeys, sessions, errorLog, rumMs>>
      /\ counts' = [counts EXCEPT !["changes"] = @ + 1]
  BY DEF RumInv, Browser!SetVisualContext, Browser!Bump, Browser!rest, Browser!server, Browser!tables
<1>2. PICK e \in {0, rumMs}, consumeOnce \in BOOLEAN :
          browser' = [browser EXCEPT ![b].visual =
                         [id |-> counts.changes + 1, exp |-> e, once |-> consumeOnce]]
  BY DEF Browser!SetVisualContext
<1>3. /\ counts' \in [events : Nat, changes : Nat, faults : Nat]
      /\ counts.changes \in Nat /\ counts'.changes = counts.changes + 1 /\ e \in Nat
  BY <1>1 DEF RumTypes
<1>4. PICK v : v = [id |-> counts.changes + 1, exp |-> e, once |-> consumeOnce]
  OBVIOUS
<1>5. v \in VisualSet /\ v.id = counts.changes + 1
  BY <1>3, <1>4 DEF VisualSet
<1>6. PICK br : br = [browser[b] EXCEPT !.visual = v]
  OBVIOUS
<1>7. br \in BrowserSet /\ br.visual = v
  BY <1>1, <1>5, <1>6 DEF RumTypes, BrowserSet
<1>8. /\ browser' \in [Browsers -> BrowserSet] /\ browser'[b].visual = v
      /\ \A c \in Browsers : c # b => browser'[c] = browser[c]
  BY <1>1, <1>2, <1>4, <1>6, <1>7 DEF RumTypes
<1>9. RumTypes' /\ Remembered' /\ TellsOwn' /\ Browser!carried' = Browser!carried
  BY <1>1, <1>3, <1>8 DEF RumTypes, Remembered, TellsOwn, Browser!Range, Browser!carried
<1>10. VisualsApart'
  <2>1. \A x \in Browser!carried : Bears(x) => x.visual.id \in 1..counts.changes
    BY <1>1 DEF VisualsApart
  <2>2. \A c \in Browsers : c # b /\ Bears(browser[c])' =>
            Bears(browser[c]) /\ browser'[c] = browser[c] /\ browser'[c].visual.id \in 1..counts.changes
    BY <1>1, <1>8 DEF VisualsApart, Bears
  <2> QED
    BY <1>1, <1>3, <1>5, <1>8, <1>9, <2>1, <2>2 DEF VisualsApart, Bears
<1> QED
  BY <1>9, <1>10 DEF RumInv

\* The script: tokens, page views, errors that wait and errors that are sent.
LEMMA BrowserActs ==
  ASSUME RumInv, NEW b \in Browsers,
         Browser!SetToken(b) \/ Browser!Boot(b) \/ Browser!Track(b) \/ Browser!EmitError(b) \/ Browser!Enriched(b)
  PROVE  RumInv'
<1>1. /\ RumTypes /\ browser[b] \in BrowserSet /\ Browser!NoVisual \in VisualSet
      /\ browser[b].visual \in VisualSet /\ rumMs \in Nat
  BY DEF RumInv, RumTypes, BrowserSet, VisualSet, Browser!NoVisual
<1>2. CASE Browser!SetToken(b)
  <2>1. PICK d \in Browsers : browser' = [browser EXCEPT ![b].token = browser[d].token]
    BY <1>2 DEF Browser!SetToken
  <2>2. PICK br : br = [browser[b] EXCEPT !.token = browser[d].token]
    OBVIOUS
  <2>3. br \in BrowserSet /\ br.visual = browser[b].visual
    BY <1>1, <2>2 DEF RumTypes, BrowserSet
  <2>4. browser' = [browser EXCEPT ![b] = br]
    BY <2>1, <2>2
  <2> QED
    BY <1>2, <2>3, <2>4, BrowserChanges DEF Browser!SetToken
<1>3. CASE Browser!Boot(b)
  <2>1. PICK t \in Browser!issueToken(b) :
            Browser!send(b, "pageview", Browser!NoVisual, [browser[b] EXCEPT !.up = TRUE, !.token = t])
    BY <1>3 DEF Browser!Boot
  <2>2. t \in TokenSet
    <3>1. t = Browser!NoToken \/ t = [app |-> AppOf[b], origin |-> OriginOf[b], exp |-> rumMs + Ttl]
      BY DEF Browser!issueToken
    <3>2. Browser!NoToken \in TokenSet /\ rumMs + Ttl \in Int
      BY FormsAssumption, <1>1 DEF TokenSet, Browser!NoToken, Browser!RumAssumption
    <3>3. PICK u : u = [app |-> AppOf[b], origin |-> OriginOf[b], exp |-> rumMs + Ttl]
      OBVIOUS
    <3>4. AppOf[b] \in {AppOf[c] : c \in Browsers} /\ OriginOf[b] \in {OriginOf[c] : c \in Browsers}
      OBVIOUS
    <3>5. u \in TokenSet
      BY <3>2, <3>3, <3>4 DEF TokenSet
    <3> QED
      BY <3>1, <3>2, <3>3, <3>5
  <2>3. PICK br : br = [browser[b] EXCEPT !.up = TRUE, !.token = t]
    OBVIOUS
  <2>4. br \in BrowserSet /\ br.visual = browser[b].visual
    BY <1>1, <2>2, <2>3 DEF BrowserSet
  <2>5. "pageview" \in RumTypesOf
    BY DEF RumTypesOf
  <2> QED
    BY <1>1, <1>3, <2>1, <2>3, <2>4, <2>5, SendKeeps DEF Browser!Boot
<1>4. CASE Browser!Track(b)
  <2>1. PICK type \in RumTypesOf : Browser!send(b, type, Browser!NoVisual, browser[b])
    BY <1>4 DEF Browser!Track, RumTypesOf
  <2> QED
    BY <1>1, <1>4, <2>1, SendKeeps DEF Browser!Track
<1>5. CASE Browser!EmitError(b)
  <2>1. PICK type \in Browser!Errors : browser' = [browser EXCEPT ![b].pending[type] = @ + 1]
    BY <1>5 DEF Browser!EmitError
  <2>2. PICK p : p = [browser[b].pending EXCEPT ![type] = @ + 1]
    OBVIOUS
  <2>3. p \in [Browser!Errors -> Int]
    BY <1>1, <2>2 DEF BrowserSet
  <2>4. PICK br : br = [browser[b] EXCEPT !.pending = p]
    OBVIOUS
  <2>5. br \in BrowserSet /\ br.visual = browser[b].visual
    BY <1>1, <2>3, <2>4 DEF BrowserSet
  <2>6. browser' = [browser EXCEPT ![b] = br]
    BY <2>1, <2>2, <2>4
  <2> QED
    BY <1>5, <2>5, <2>6, BrowserChanges DEF Browser!EmitError
<1>6. CASE Browser!Enriched(b)
  <2>1. PICK type \in Browser!Errors : Browser!send(b, type, Browser!peekVisualContext(b), Browser!mergeErrorContext(b, type))
    BY <1>6 DEF Browser!Enriched
  <2>2. type \in RumTypesOf
    BY DEF RumTypesOf
  <2>3. PICK v, br : v = Browser!peekVisualContext(b) /\ br = Browser!mergeErrorContext(b, type)
    OBVIOUS
  <2>4. PICK p : p = [browser[b].pending EXCEPT ![type] = @ - 1]
    OBVIOUS
  <2>5. p \in [Browser!Errors -> Int]
    BY <1>1, <2>4 DEF BrowserSet
  <2>6. br = [browser[b] EXCEPT !.pending = p, !.visual = IF v.once THEN Browser!NoVisual ELSE v]
    BY <2>3, <2>4 DEF Browser!mergeErrorContext
  <2>7. /\ br \in BrowserSet /\ br.visual \in {browser[b].visual, Browser!NoVisual}
        /\ v.once => br.visual = Browser!NoVisual
    <3>1. PICK w : w = IF v.once THEN Browser!NoVisual ELSE v
      OBVIOUS
    <3>2. w \in {browser[b].visual, Browser!NoVisual} /\ (v.once => w = Browser!NoVisual)
      BY <2>3, <3>1 DEF Browser!peekVisualContext
    <3>3. br = [browser[b] EXCEPT !.pending = p, !.visual = w]
      BY <2>6, <3>1
    <3> QED
      BY <1>1, <2>5, <3>2, <3>3 DEF BrowserSet
  <2>8. /\ v \in VisualSet
        /\ v # Browser!NoVisual => v = browser[b].visual /\ (v.exp # 0 => rumMs <= v.exp)
    BY <1>1, <2>3 DEF Browser!peekVisualContext, VisualSet
  <2>9. Browser!send(b, type, v, br)
    BY <2>1, <2>3
  <2> QED
    BY <1>6, <2>2, <2>7, <2>8, <2>9, SendKeeps DEF Browser!Enriched
<1> QED
  BY <1>2, <1>3, <1>4, <1>5, <1>6

\* A sequence without repetitions is as long as its range is large.
LEMMA LengthCounts ==
  ASSUME NEW S, NEW s \in Seq(S), \A i, j \in 1..Len(s) : s[i] = s[j] => i = j
  PROVE  Len(s) = Cardinality(Browser!Range(s))
<1>1. /\ DOMAIN s = 1..Len(s) /\ Len(s) \in Nat /\ Browser!Range(s) = {s[i] : i \in 1..Len(s)}
  BY DEF Browser!Range
<1>2. PICK f : f = [i \in 1..Len(s) |-> s[i]]
  OBVIOUS
<1>3. f \in Bijection(1..Len(s), Browser!Range(s))
  <2>1. f \in [1..Len(s) -> Browser!Range(s)] /\ \A i \in 1..Len(s) : f[i] = s[i]
    BY <1>1, <1>2
  <2>2. f \in Injection(1..Len(s), Browser!Range(s))
    BY <2>1 DEF Injection, IsInjective
  <2>3. f \in Surjection(1..Len(s), Browser!Range(s))
    BY <1>1, <2>1 DEF Surjection
  <2> QED
    BY <2>2, <2>3 DEF Bijection
<1>4. IsFiniteSet(1..Len(s)) /\ Cardinality(1..Len(s)) = Len(s)
  BY <1>1, FS_Interval
<1> QED
  BY <1>3, <1>4, FS_Bijection DEF ExistsBijection

\* The memory takes what a beacon tells in full, and what it gives of it is what
\* the browser ran on then.
LEMMA RememberKeeps ==
  ASSUME RumTypes, Remembered, TellsOwn, NEW m \in beacons,
         cache' = Browser!remember(m).entries, cacheKeys' = Browser!remember(m).keys
  PROVE  Remembered' /\ Browser!recall(m, cache') \in {Browser!NoContext, m.had}
<1> DEFINE keys == IF m.full /\ m.session \notin DOMAIN cache THEN Append(cacheKeys, m.session)
                   ELSE cacheKeys
           excess == IF Len(keys) > rumBrowserContextCacheMax
                     THEN Len(keys) - rumBrowserContextCacheMax ELSE 0
           kept == SubSeq(keys, excess + 1, Len(keys))
<1>1. /\ cacheKeys' = kept
      /\ cache' = [s \in Browser!Range(kept) |-> IF m.full /\ s = m.session
                       THEN [hash |-> m.hash, context |-> m.context] ELSE cache[s]]
  BY DEF Browser!remember
<1>2. /\ cacheKeys \in Seq(Browsers) /\ DOMAIN cache = {cacheKeys[i] : i \in 1..Len(cacheKeys)}
      /\ m \in BeaconSet /\ m.session \in Browsers /\ m.full \in BOOLEAN
      /\ rumBrowserContextCacheMax \in Nat
  <2>1. cacheKeys \in Seq(Browsers) /\ DOMAIN cache = Browser!Range(cacheKeys)
    BY DEF Remembered
  <2>2. DOMAIN cacheKeys = 1..Len(cacheKeys)
    BY <2>1, LenProperties
  <2>3. m \in BeaconSet /\ rumBrowserContextCacheMax \in Nat
    BY FormsAssumption DEF RumTypes, Browser!RumAssumption
  <2> QED
    BY <2>1, <2>2, <2>3 DEF Browser!Range, BeaconSet
<1>3. PICK k : k = keys
  OBVIOUS
<1>4. /\ k \in Seq(Browsers)
      /\ \A i, j \in 1..Len(k) : k[i] = k[j] => i = j
      /\ \A i \in 1..Len(k) : k[i] \notin DOMAIN cache => m.full /\ k[i] = m.session
  <2>1. CASE m.full /\ m.session \notin DOMAIN cache
    BY <1>2, <1>3, <2>1, AppendProperties DEF Remembered
  <2>2. CASE ~ (m.full /\ m.session \notin DOMAIN cache)
    BY <1>2, <1>3, <2>2 DEF Remembered
  <2> QED
    BY <2>1, <2>2
<1>5. PICK o \in Nat : o = excess /\ o <= Len(k) /\ Len(k) - o <= rumBrowserContextCacheMax
  <2>1. PICK n \in Nat : n = Len(k)
    BY <1>4
  <2>2. excess = IF n > rumBrowserContextCacheMax THEN n - rumBrowserContextCacheMax ELSE 0
    BY <1>3, <2>1
  <2> QED
    BY <1>2, <2>1, <2>2
<1>6. PICK l : l = SubSeq(k, o + 1, Len(k))
  OBVIOUS
<1>7. /\ cacheKeys' = l
      /\ cache' = [s \in Browser!Range(l) |-> IF m.full /\ s = m.session
                       THEN [hash |-> m.hash, context |-> m.context] ELSE cache[s]]
  BY <1>1, <1>3, <1>5, <1>6
<1> HIDE DEF keys, excess, kept
<1>8. /\ l \in Seq(Browsers) /\ Len(l) = Len(k) - o
      /\ \A i \in 1..Len(l) : l[i] = k[o + i] /\ o + i \in 1..Len(k)
  BY <1>4, <1>5, <1>6, SubSeqProperties
<1>9. /\ Len(l) <= rumBrowserContextCacheMax
      /\ \A i, j \in 1..Len(l) : l[i] = l[j] => i = j
      /\ \A s \in Browser!Range(l) : s \in DOMAIN cache \/ (m.full /\ s = m.session)
  <2>1. Len(k) \in Nat /\ Len(l) \in Nat /\ DOMAIN l = 1..Len(l)
    BY <1>4, <1>8, LenProperties
  <2>2. \A i, j \in 1..Len(l) : l[i] = l[j] => i = j
    BY <1>4, <1>5, <1>8, <2>1
  <2>3. \A s \in Browser!Range(l) : \E i \in 1..Len(k) : s = k[i]
    BY <1>8, <2>1 DEF Browser!Range
  <2> QED
    BY <1>4, <1>5, <1>8, <2>1, <2>2, <2>3
<1>10. \A s \in Browser!Range(l) : /\ cache'[s] \in [hash : RumTold, context : RumTold]
                            /\ cache'[s].context = cache'[s].hash
  <2>1. m.full => m.hash = m.context
    BY DEF TellsOwn
  <2>2. PICK e : e = [hash |-> m.hash, context |-> m.context]
    OBVIOUS
  <2>3. e \in [hash : RumTold, context : RumTold] /\ (m.full => e.context = e.hash)
    BY <1>2, <2>1, <2>2 DEF BeaconSet
  <2>4. \A s \in DOMAIN cache : /\ cache[s] \in [hash : RumTold, context : RumTold]
                                /\ cache[s].context = cache[s].hash
    BY DEF Remembered
  <2>5. \A s \in Browser!Range(l) : cache'[s] = IF m.full /\ s = m.session THEN e ELSE cache[s]
    BY <1>7, <2>2
  <2> QED
    BY <1>9, <2>3, <2>4, <2>5
<1>11. Remembered'
  BY <1>7, <1>8, <1>9, <1>10 DEF Remembered
<1>12. Browser!recall(m, cache') \in {Browser!NoContext, m.had}
  <2>1. m.hash \in {Browser!NoContext, m.had} /\ m.context \in {Browser!NoContext, m.had}
    BY <1>2 DEF TellsOwn
  <2>2. DOMAIN cache' = Browser!Range(l)
    BY <1>7
  <2> QED
    BY <1>10, <2>1, <2>2 DEF Browser!recall
<1> QED
  BY <1>11, <1>12

\* A beacon comes in: what it carries stays carried by its row, or is lost.
LEMMA IngestKeeps ==
  ASSUME RumInv, NEW m \in beacons, Browser!Ingest(m)
  PROVE  RumInv'
<1>1. /\ RumTypes /\ Remembered /\ TellsOwn /\ VisualsApart /\ m \in BeaconSet
      /\ beacons' = beacons \ {m} /\ UNCHANGED <<browser, rumMs>>
  BY DEF RumInv, RumTypes, Browser!Ingest
<1>2. PICK row : row = Browser!Row(m, Browser!recall(m, Browser!remember(m).entries))
  OBVIOUS
<1>3. /\ sessions' \in {sessions, sessions \cup {row}}
      /\ counts' \in [events : Nat, changes : Nat, faults : Nat] /\ counts'.changes = counts.changes
  BY <1>1, <1>2 DEF Browser!Ingest, Browser!tables, Browser!Bump, RumTypes
<1>4. /\ Remembered'
      /\ sessions' # sessions => row.context \in {Browser!NoContext, m.had}
  <2>1. CASE UNCHANGED Browser!server /\ UNCHANGED Browser!tables
    BY <1>1, <2>1 DEF Remembered, Browser!Range, Browser!server, Browser!tables
  <2>2. CASE cache' = Browser!remember(m).entries /\ cacheKeys' = Browser!remember(m).keys
    BY <1>1, <1>2, <2>2, RememberKeeps DEF Browser!Row
  <2> QED
    BY <2>1, <2>2 DEF Browser!Ingest
<1>5. sessions' # sessions => /\ row \in EventSet /\ row.had = m.had /\ row.id = m.id
                              /\ row.visual = m.visual /\ row.sent = m.at
  BY <1>1, <1>2, <1>4 DEF Browser!Row, EventSet, BeaconSet, RumTold, RumTypes
<1>6. RumTypes' /\ TellsOwn'
  BY <1>1, <1>3, <1>4, <1>5 DEF RumTypes, TellsOwn
<1>7. Browser!carried' \in SUBSET Browser!carried
  <2>1. [id |-> m.id, session |-> m.session, visual |-> m.visual, at |-> m.at] \in Browser!carried
    BY <1>1 DEF Browser!carried
  <2>2. sessions' # sessions =>
            [id |-> row.id, session |-> row.session, visual |-> row.visual, at |-> row.sent]
              = [id |-> m.id, session |-> m.session, visual |-> m.visual, at |-> m.at]
    BY <1>2, <1>5 DEF Browser!Row
  <2>3. \A x \in sessions' : x \in sessions \/ (x = row /\ sessions' # sessions)
    BY <1>3
  <2> QED
    BY <1>1, <2>1, <2>2, <2>3 DEF Browser!carried
<1>8. VisualsApart'
  BY <1>1, <1>3, <1>7 DEF VisualsApart, Bears
<1> QED
  BY <1>4, <1>6, <1>8 DEF RumInv

\* The server starts anew, and time passes.
LEMMA RumGoesOn ==
  ASSUME RumInv, Browser!Restart \/ Browser!Tick \/ UNCHANGED Browser!vars
  PROVE  RumInv'
<1>1. /\ RumTypes /\ Remembered /\ TellsOwn /\ VisualsApart
      /\ UNCHANGED <<browser, beacons, sessions>>
  BY DEF RumInv, Browser!Restart, Browser!Tick, Browser!vars, Browser!tables
<1>2. /\ rumMs' \in Nat /\ counts'.changes = counts.changes
      /\ counts' \in [events : Nat, changes : Nat, faults : Nat]
  BY <1>1 DEF RumTypes, Browser!Restart, Browser!Tick, Browser!Bump, Browser!vars
<1>3. Remembered'
  <2>1. CASE UNCHANGED Browser!server
    BY <1>1, <2>1 DEF Remembered, Browser!Range, Browser!server
  <2>2. CASE cache' = <<>> /\ cacheKeys' = <<>>
    BY FormsAssumption, <2>2, EmptySeq DEF Remembered, Browser!Range, Browser!RumAssumption
  <2> QED
    BY <2>1, <2>2 DEF Browser!Restart, Browser!Tick, Browser!vars
<1>4. RumTypes' /\ TellsOwn' /\ Browser!carried' = Browser!carried
  BY <1>1, <1>2 DEF RumTypes, TellsOwn, Browser!carried
<1>5. VisualsApart'
  BY <1>1, <1>2, <1>4 DEF VisualsApart, Bears
<1> QED
  BY <1>3, <1>4, <1>5 DEF RumInv

LEMMA RumStarts ==
  ASSUME Browser!Init
  PROVE  RumInv
<1>1. PICK c : c = CHOOSE d \in Contexts : TRUE
  OBVIOUS
<1>2. PICK b0 : b0 = [runsOn |-> c, context |-> Browser!NoContext, first |-> TRUE, up |-> FALSE,
                      token |-> Browser!NoToken, visual |-> Browser!NoVisual, pending |-> [t \in Browser!Errors |-> 0]]
  OBVIOUS
<1>3. browser \in [Browsers -> {b0}]
  BY <1>1, <1>2 DEF Browser!Init
<1>4. Browser!NoToken \in TokenSet /\ Browser!NoVisual \in VisualSet /\ c \in RumKnown
  BY <1>1 DEF TokenSet, Browser!NoToken, VisualSet, Browser!NoVisual, RumKnown
<1>5. b0 \in BrowserSet /\ b0.visual = Browser!NoVisual
  BY <1>2, <1>4 DEF BrowserSet, RumTold
<1>6. RumTypes
  BY <1>3, <1>5 DEF Browser!Init, RumTypes
<1>7. Remembered
  BY FormsAssumption, EmptySeq DEF Browser!Init, Remembered, Browser!Range, Browser!RumAssumption
<1>8. TellsOwn /\ VisualsApart
  BY <1>3, <1>5 DEF Browser!Init, TellsOwn, VisualsApart, Browser!carried, Bears
<1> QED
  BY <1>6, <1>7, <1>8 DEF RumInv

LEMMA RumMeans ==
  ASSUME RumInv
  PROVE  Browser!ContextsAreOwn /\ Browser!VisualsGoOnce
<1>1. Len(cacheKeys) = Cardinality(DOMAIN cache)
  BY LengthCounts DEF RumInv, Remembered
<1>2. Browser!ContextsAreOwn
  BY <1>1, CountsAgree DEF RumInv, Remembered, TellsOwn, Browser!ContextsAreOwn
<1>3. Browser!VisualsGoOnce
  BY DEF RumInv, VisualsApart, Browser!VisualsGoOnce, Bears
<1> QED
  BY <1>2, <1>3

THEOREM EventsAreOwn == Browser!Spec => [](Browser!ContextsAreOwn /\ Browser!VisualsGoOnce)
<1>1. Browser!Init => RumInv
  BY RumStarts
<1>2. RumInv /\ [Browser!Next]_Browser!vars => RumInv'
  BY BrowserActs, ContextIsChanged, VisualIsSet, IngestKeeps, RumGoesOn DEF Browser!Next
<1>3. RumInv => Browser!ContextsAreOwn /\ Browser!VisualsGoOnce
  BY RumMeans
<1> QED
  BY <1>1, <1>2, <1>3, PTL DEF Browser!Spec

-----------------------------------------------------------------------------
(* The incident page.                                                      *)

\* A page that has found what it is about, and what it then holds.
FoundPage == {"errors", "counts", "metrics", "links", "shown"}
PageFields == {"at", "ref", "primary", "service", "time", "errors", "truncated", "logs", "spans",
               "events", "metrics", "issue"}
\* The evidence a page holds is of its trace, or else of its service if it has one.
OfPage(p, e) == IF p.ref.trace # Incident!None THEN e.trace = p.ref.trace ELSE p.service \in {Incident!None, e.service}
Belongs(p) ==
    /\ DOMAIN p = PageFields
    /\ IsFiniteSet(p.errors) /\ Cardinality(p.errors) <= MaxRelated
    /\ \A e \in p.errors : /\ Incident!Inside(p, e.time) /\ OfPage(p, e)
                           /\ \A x \in p.primary : x.kind = "error" => x.id # e.id
    /\ \A e \in p.events : OfPage(p, e)
IncidentInv == IsFiniteSet(stored) /\ (page.at \in FoundPage => Belongs(page))

\* What is shown is bounded.
LEMMA NewestAreFew ==
  ASSUME NEW S, IsFiniteSet(S), NEW n \in Nat, NEW P \in Incident!Newest(S, n)
  PROVE  IsFiniteSet(P) /\ Cardinality(P) <= n
<1>1. P \in SUBSET S /\ Cardinality(P) = Incident!Least({n, Cardinality(S)})
  BY CountsAgree DEF Incident!Newest
<1>2. IsFiniteSet(P) /\ Cardinality(S) \in Nat
  BY <1>1, FS_Subset, FS_CardinalityType
<1>3. PICK m \in Nat : m = Cardinality(S)
  BY <1>2
<1>4. \E k \in {n, m} : \A j \in {n, m} : k <= j
  BY <1>3
<1>5. Incident!Least({n, m}) <= n
  BY <1>4 DEF Incident!Least
<1> QED
  BY <1>1, <1>2, <1>3, <1>5

\* A page that changes what it has not to do with its errors and events.
LEMMA PageGoesOn ==
  ASSUME IncidentInv, page.at \in FoundPage, UNCHANGED <<stored, came>>, DOMAIN page' = PageFields,
         \A f \in PageFields \ {"at", "truncated", "logs", "spans", "metrics", "issue"} : page'[f] = page[f]
  PROVE  IncidentInv'
<1>1. /\ page'.ref = page.ref /\ page'.time = page.time /\ page'.service = page.service
      /\ page'.primary = page.primary /\ page'.errors = page.errors /\ page'.events = page.events
  BY DEF PageFields
<1>2. Belongs(page) /\ IsFiniteSet(stored')
  BY DEF IncidentInv
<1>3. Belongs(page')
  BY <1>1, <1>2 DEF Belongs, Incident!Inside, Incident!From, Incident!To, Incident!Expanded, OfPage
<1> QED
  BY <1>2, <1>3 DEF IncidentInv, Belongs

LEMMA ErrorsAreRelated ==
  ASSUME IncidentInv, Incident!RelatedErrors
  PROVE  IncidentInv'
<1>1. Belongs(page) /\ DOMAIN page = PageFields /\ IsFiniteSet(stored) /\ stored' = stored
  BY DEF IncidentInv, Incident!RelatedErrors, FoundPage, Belongs
<1>2. PICK read \in Incident!Newest(Incident!Related(page, "error"), MaxRelated + 1) \cup {{}} :
      \E kept \in Incident!Newest(read, MaxRelated) :
        page' = [page EXCEPT !.at = "counts",
                    !.errors = {e \in kept : ~\E x \in page.primary : x.kind = "error" /\ x.id = e.id},
                    !.truncated = Cardinality(read) > MaxRelated]
  BY CountsAgree DEF Incident!RelatedErrors
<1>3. PICK kept \in Incident!Newest(read, MaxRelated) :
        page' = [page EXCEPT !.at = "counts",
                    !.errors = {e \in kept : ~\E x \in page.primary : x.kind = "error" /\ x.id = e.id},
                    !.truncated = Cardinality(read) > MaxRelated]
  BY <1>2
<1>4. PICK shown : shown = {e \in kept : ~\E x \in page.primary : x.kind = "error" /\ x.id = e.id}
  OBVIOUS
<1>5. PICK more : more = (Cardinality(read) > MaxRelated)
  OBVIOUS
<1>6. page' = [page EXCEPT !.at = "counts", !.errors = shown, !.truncated = more]
  BY <1>3, <1>4, <1>5
<1>7. /\ page'.ref = page.ref /\ page'.time = page.time /\ page'.service = page.service
      /\ page'.primary = page.primary /\ page'.errors = shown /\ page'.events = page.events
      /\ DOMAIN page' = PageFields
  BY <1>1, <1>6 DEF PageFields
<1>8. /\ Incident!Related(page, "error") \in SUBSET stored /\ read \in SUBSET Incident!Related(page, "error")
      /\ kept \in SUBSET read /\ shown \in SUBSET kept
  BY <1>2, <1>3, <1>4 DEF Incident!Related, Incident!Of, Incident!Newest
<1>9. IsFiniteSet(kept) /\ Cardinality(kept) <= MaxRelated
  <2>1. IsFiniteSet(read)
    BY <1>1, <1>8, FS_Subset
  <2> QED
    BY FormsAssumption, <1>3, <2>1, NewestAreFew DEF Incident!IncidentAssumption
<1>10. IsFiniteSet(shown) /\ Cardinality(shown) <= MaxRelated
  BY FormsAssumption, <1>8, <1>9, FS_Subset, FS_CardinalityType DEF Incident!IncidentAssumption
<1>11. \A e \in shown : /\ Incident!Inside(page, e.time) /\ OfPage(page, e)
                        /\ \A x \in page.primary : x.kind = "error" => x.id # e.id
  BY <1>4, <1>8 DEF Incident!Related, OfPage
<1>12. Belongs(page')
  BY <1>1, <1>7, <1>10, <1>11 DEF Belongs, Incident!Inside, Incident!From, Incident!To, Incident!Expanded, OfPage
<1> QED
  BY <1>1, <1>12 DEF IncidentInv

LEMMA EvidenceIsCounted ==
  ASSUME IncidentInv, Incident!CountEvidence
  PROVE  IncidentInv'
<1>1. Belongs(page) /\ DOMAIN page = PageFields /\ IsFiniteSet(stored) /\ stored' = stored
  BY DEF IncidentInv, Incident!CountEvidence, FoundPage, Belongs
<1>2. PICK logs, spans, events :
          /\ page' = [page EXCEPT !.at = "metrics", !.logs = logs, !.spans = spans, !.events = events]
          /\ events \in {{}, Incident!Related(page, "rum")}
  BY DEF Incident!CountEvidence
<1>3. /\ page'.ref = page.ref /\ page'.time = page.time /\ page'.service = page.service
      /\ page'.primary = page.primary /\ page'.errors = page.errors /\ page'.events = events
      /\ DOMAIN page' = PageFields
  BY <1>1, <1>2 DEF PageFields
<1>4. \A e \in events : OfPage(page, e)
  BY <1>2 DEF Incident!Related, OfPage
<1>5. Belongs(page')
  BY <1>1, <1>3, <1>4 DEF Belongs, Incident!Inside, Incident!From, Incident!To, Incident!Expanded, OfPage
<1> QED
  BY <1>1, <1>5 DEF IncidentInv

\* The statements that say what the page is about, and those that add to it.
LEMMA PageIsAsked ==
  ASSUME IncidentInv, Incident!Ask \/ Incident!PrimaryError \/ Incident!PrimaryTrace
  PROVE  IncidentInv'
<1>1. page'.at \notin FoundPage /\ stored' = stored
  BY DEF Incident!Ask, Incident!PrimaryError, Incident!PrimaryTrace, FoundPage
<1> QED
  BY <1>1 DEF IncidentInv

LEMMA PageIsFound ==
  ASSUME IncidentInv, Incident!PrimaryRum
  PROVE  IncidentInv'
<1>1. DOMAIN page' = PageFields /\ page'.errors = {} /\ page'.events = {} /\ stored' = stored
  BY DEF Incident!PrimaryRum, PageFields
<1>2. Belongs(page')
  BY FormsAssumption, <1>1, FS_EmptySet DEF Belongs, Incident!IncidentAssumption
<1> QED
  BY <1>1, <1>2 DEF IncidentInv

LEMMA PageIsCompleted ==
  ASSUME IncidentInv, Incident!MetricContext \/ Incident!WorkItems
  PROVE  IncidentInv'
<1>1. page.at \in FoundPage /\ DOMAIN page = PageFields
  BY DEF IncidentInv, Incident!MetricContext, Incident!WorkItems, FoundPage, Belongs
<1>2. CASE Incident!MetricContext
  <2>1. PICK m : page' = [page EXCEPT !.at = "links", !.metrics = m]
    BY <1>2 DEF Incident!MetricContext
  <2> QED
    BY <1>1, <1>2, <2>1, PageGoesOn DEF Incident!MetricContext, PageFields
<1>3. CASE Incident!WorkItems
  <2>1. PICK i : page' = [page EXCEPT !.at = "shown", !.issue = i]
    BY <1>3 DEF Incident!WorkItems
  <2> QED
    BY <1>1, <1>3, <2>1, PageGoesOn DEF Incident!WorkItems, PageFields
<1> QED
  BY <1>2, <1>3

LEMMA EvidenceChanges ==
  ASSUME IncidentInv, Incident!Arrive \/ Incident!Prune \/ UNCHANGED Incident!vars
  PROVE  IncidentInv'
<1>1. page' = page /\ IsFiniteSet(stored')
  <2>1. CASE Incident!Arrive
    BY <2>1, FS_AddElement DEF IncidentInv, Incident!Arrive
  <2>2. CASE Incident!Prune
    <3>1. stored' \in SUBSET stored
      BY <2>2 DEF Incident!Prune
    <3> QED
      BY <2>2, <3>1, FS_Subset DEF IncidentInv, Incident!Prune
  <2>3. CASE UNCHANGED Incident!vars
    BY <2>3 DEF IncidentInv, Incident!vars
  <2> QED
    BY <2>1, <2>2, <2>3 DEF Incident!Arrive, Incident!Prune
<1>2. Belongs(page) <=> Belongs(page')
  BY <1>1
<1> QED
  BY <1>1, <1>2 DEF IncidentInv

THEOREM EvidenceStays == Incident!Spec => []Incident!EvidenceBelongs
<1>1. Incident!Init => IncidentInv
  BY FS_EmptySet DEF Incident!Init, IncidentInv, FoundPage
<1>2. IncidentInv /\ [Incident!Next]_Incident!vars => IncidentInv'
  BY PageIsAsked, PageIsFound, ErrorsAreRelated, EvidenceIsCounted, PageIsCompleted, EvidenceChanges
     DEF Incident!Next
<1>3. IncidentInv => Incident!EvidenceBelongs
  BY CountsAgree DEF IncidentInv, Incident!EvidenceBelongs, Belongs, OfPage, FoundPage
<1> QED
  BY <1>1, <1>2, <1>3, PTL DEF Incident!Spec

-----------------------------------------------------------------------------
(* Turns of the query page.                                                *)

\* The fields of a turn and of a result.
TurnFields == {"at", "kind", "chart", "sql", "attempt", "retries", "dials", "main", "todo", "sets"}
ResultFields == {"ok", "sql", "rowsOf", "error", "sets", "chart"}
TurnShape(t) ==
    /\ DOMAIN t = TurnFields /\ DOMAIN t.main = ResultFields /\ t.main.sets = {}
    /\ t.attempt \in 1..3 /\ t.dials \in 0..3
\* Rows stand under the statement that gave them, which is one of S.
Ran(r, S) == r.ok => r.rowsOf = r.sql /\ r.sql \in S
\* The main statement's rows are its own: it is the turn's, but while others are tried.
MainRan(t, S) ==
    /\ t.at \in {"idle", "generate"} => ~ t.main.ok
    /\ t.main.ok => /\ t.main.rowsOf \in S
                    /\ t.at \in {"result", "named", "blocked", "next"} => t.main.rowsOf = t.sql
                    /\ t.at \in {"explain", "attempt", "next"} => t.main.rowsOf = t.main.sql
\* The model repairs a statement once for each attempt, at most.
Asked(t) ==
    /\ t.at \in {"generate", "explain"} => t.dials = 0 /\ t.attempt = 1
    /\ t.at = "attempt" => t.dials <= t.attempt
TurnHolds(t, S) == TurnShape(t) /\ MainRan(t, S) /\ Asked(t) /\ \A r \in t.sets : Ran(r, S)
AnswerHolds(a, S) == Ran(a, S) /\ (a.ok => \A r \in a.sets : Ran(r, S))
QueryInv ==
    /\ TurnHolds(turn, sent) /\ AnswerHolds(answer, sent)
    /\ \A s \in sent : Querying!validateSQL(s)

\* What held of fewer statements still holds.
LEMMA MoreWereSent ==
  ASSUME NEW S, NEW T, S \subseteq T
  PROVE  /\ \A t : TurnHolds(t, S) => TurnHolds(t, T)
         /\ \A a : AnswerHolds(a, S) => AnswerHolds(a, T)
BY DEF TurnHolds, MainRan, AnswerHolds, Ran

\* A turn begins, and an answer that is none.
LEMMA NoTurnHolds ==
  ASSUME NEW S
  PROVE  /\ TurnHolds(Querying!NoTurn, S) /\ AnswerHolds(Querying!NoAnswer, S)
         /\ \A u : /\ DOMAIN u = TurnFields /\ u.at \in {"idle", "generate"} /\ u.main = Querying!NoTurn.main
                  /\ u.attempt = 1 /\ u.dials = 0 /\ u.sets = {} => TurnHolds(u, S)
<1>1. /\ DOMAIN Querying!NoAnswer = ResultFields /\ Querying!NoAnswer.ok = FALSE /\ Querying!NoAnswer.sets = {}
  BY DEF Querying!NoAnswer, ResultFields
<1>2. /\ DOMAIN Querying!NoTurn = TurnFields /\ Querying!NoTurn.at = "idle" /\ Querying!NoTurn.main = Querying!NoAnswer
      /\ Querying!NoTurn.attempt = 1 /\ Querying!NoTurn.dials = 0 /\ Querying!NoTurn.sets = {}
  BY DEF Querying!NoTurn, TurnFields
<1> QED
  BY <1>1, <1>2 DEF TurnHolds, TurnShape, MainRan, Asked, AnswerHolds, Ran

\* Statements that were explained or run are valid.
LEMMA OnlyValidAreSent ==
  /\ \A s : \A x \in Querying!Explained(s) : Querying!validateSQL(x)
  /\ \A s : \A x \in Querying!vannaRunQuery(s).sent : Querying!validateSQL(x)
  /\ \A s : Querying!vannaRunQuery(s).ok \in BOOLEAN => (Querying!vannaRunQuery(s).ok => s \in Querying!vannaRunQuery(s).sent)
  /\ \A s : Querying!vannaExplainSQL(s) => Querying!validateSQL(s)
BY DEF Querying!Explained, Querying!vannaRunQuery, Querying!vannaExplainSQL

\* The result of a statement is taken.
LEMMA ResultIsTaken ==
  ASSUME NEW t, NEW S, NEW ok \in BOOLEAN, TurnShape(t), ok => t.sql \in S,
         t.main.ok => t.main.rowsOf \in S /\ t.main.rowsOf = t.main.sql,
         \A r \in t.sets : Ran(r, S)
  PROVE  TurnHolds(Querying!Took(t, ok), S)
<1> DEFINE result == [Querying!NoAnswer EXCEPT !.ok = ok, !.sql = t.sql, !.rowsOf = t.sql, !.error = ~ok]
<1>1. /\ DOMAIN result = ResultFields /\ result.ok = ok /\ result.sql = t.sql
      /\ result.rowsOf = t.sql /\ result.sets = {}
  BY DEF Querying!NoAnswer, ResultFields
<1>2. Ran(result, S)
  BY <1>1 DEF Ran
<1> HIDE DEF result
<1>3. CASE t.main = Querying!NoAnswer
  <2> DEFINE u == [t EXCEPT !.at = "result", !.main = result]
  <2>1. Querying!Took(t, ok) = u
    BY <1>3 DEF Querying!Took, result
  <2>2. /\ DOMAIN u = TurnFields /\ u.at = "result" /\ u.main = result /\ u.sql = t.sql
        /\ u.attempt = t.attempt /\ u.dials = t.dials /\ u.sets = t.sets
    BY DEF TurnShape, TurnFields
  <2> HIDE DEF u
  <2> QED
    BY <1>1, <2>1, <2>2 DEF TurnHolds, TurnShape, MainRan, Asked
<1>4. CASE t.main # Querying!NoAnswer
  <2> DEFINE u == [t EXCEPT !.at = "next", !.sets = @ \cup {result}, !.sql = t.main.sql]
  <2>1. Querying!Took(t, ok) = u
    BY <1>4 DEF Querying!Took, result
  <2>2. /\ DOMAIN u = TurnFields /\ u.at = "next" /\ u.main = t.main /\ u.sql = t.main.sql
        /\ u.attempt = t.attempt /\ u.dials = t.dials /\ u.sets = t.sets \cup {result}
    BY DEF TurnShape, TurnFields
  <2> HIDE DEF u
  <2> QED
    BY <1>1, <1>2, <2>1, <2>2 DEF TurnHolds, TurnShape, MainRan, Asked
<1> QED
  BY <1>3, <1>4

\* A turn begins: with a statement, with a question.
LEMMA TurnBegins ==
  ASSUME QueryInv, \/ Querying!handleApiQueryRun \/ Querying!handleApiQueryAsk \/ Querying!handleApiDashboardsSpecAiBuild
                   \/ Querying!generateSQLViaLLM
  PROVE  QueryInv'
<1>1. CASE Querying!handleApiQueryRun
  <2>1. PICK s \in Statements, chart \in BOOLEAN :
          IF Querying!vannaExplainSQL(s)
          THEN /\ Querying!Go([Querying!NoTurn EXCEPT !.at = "result", !.kind = "run", !.chart = chart, !.sql = s,
                       !.main = [Querying!NoAnswer EXCEPT !.ok = s.runs, !.rowsOf = s, !.error = ~s.runs]])
               /\ sent' = {s} /\ answer' = Querying!NoAnswer
          ELSE /\ Querying!Reply([Querying!NoAnswer EXCEPT !.sql = s, !.error = TRUE])
               /\ sent' = Querying!Explained(s)
    BY <1>1 DEF Querying!handleApiQueryRun
  <2>2. CASE Querying!vannaExplainSQL(s)
    <3> DEFINE m == [Querying!NoAnswer EXCEPT !.ok = s.runs, !.rowsOf = s, !.error = ~s.runs]
               u == [Querying!NoTurn EXCEPT !.at = "result", !.kind = "run", !.chart = chart, !.sql = s, !.main = m]
    <3>1. DOMAIN m = ResultFields /\ m.rowsOf = s /\ m.sets = {}
      BY DEF Querying!NoAnswer, ResultFields
    <3>2. turn' = u /\ sent' = {s} /\ answer' = Querying!NoAnswer
      BY <2>1, <2>2 DEF Querying!Go
    <3> HIDE DEF m
    <3>3. /\ DOMAIN u = TurnFields /\ u.at = "result" /\ u.main = m /\ u.sql = s
          /\ u.attempt = 1 /\ u.dials = 0 /\ u.sets = {}
      BY DEF Querying!NoTurn, TurnFields
    <3> HIDE DEF u
    <3>4. TurnHolds(u, {s})
      BY <3>1, <3>3 DEF TurnHolds, TurnShape, MainRan, Asked
    <3>5. \A x \in {s} : Querying!validateSQL(x)
      BY <2>2, OnlyValidAreSent
    <3> QED
      BY <3>2, <3>4, <3>5, NoTurnHolds DEF QueryInv, Querying!validateSQL, Querying!checkTableRefs
  <2>3. CASE ~ Querying!vannaExplainSQL(s)
    <3> DEFINE a == [Querying!NoAnswer EXCEPT !.sql = s, !.error = TRUE]
    <3>1. turn' = Querying!NoTurn /\ answer' = a /\ sent' = Querying!Explained(s)
      BY <2>1, <2>3 DEF Querying!Reply, Querying!Go
    <3>2. a.ok = FALSE
      BY DEF Querying!NoAnswer
    <3> HIDE DEF a
    <3>3. AnswerHolds(a, Querying!Explained(s))
      BY <3>2 DEF AnswerHolds, Ran
    <3>4. \A x \in Querying!Explained(s) : Querying!validateSQL(x)
      BY OnlyValidAreSent
    <3> QED
      BY <3>1, <3>3, <3>4, NoTurnHolds DEF QueryInv, Querying!validateSQL, Querying!checkTableRefs
  <2> QED
    BY <2>2, <2>3
<1>2. ASSUME turn' \in {[Querying!NoTurn EXCEPT !.at = "generate", !.kind = "ask"], Querying!NoTurn,
                        [Querying!NoTurn EXCEPT !.at = "generate", !.kind = "build", !.chart = TRUE]},
             answer' \in {Querying!NoAnswer, [Querying!NoAnswer EXCEPT !.error = TRUE]}, sent' \in {sent, {}}
      PROVE  QueryInv'
  <2>1. TurnHolds(turn', sent')
    <3>1. /\ DOMAIN turn' = TurnFields /\ turn'.at \in {"idle", "generate"} /\ turn'.main = Querying!NoTurn.main
          /\ turn'.attempt = 1 /\ turn'.dials = 0 /\ turn'.sets = {}
      <4> DEFINE a == [Querying!NoTurn EXCEPT !.at = "generate", !.kind = "ask"]
                 b == [Querying!NoTurn EXCEPT !.at = "generate", !.kind = "build", !.chart = TRUE]
      <4>1. \A t \in {a, b, Querying!NoTurn} :
               /\ DOMAIN t = TurnFields /\ t.at \in {"idle", "generate"} /\ t.main = Querying!NoTurn.main
               /\ t.attempt = 1 /\ t.dials = 0 /\ t.sets = {}
        <5>1. /\ DOMAIN Querying!NoTurn = TurnFields /\ Querying!NoTurn.at = "idle"
              /\ Querying!NoTurn.attempt = 1 /\ Querying!NoTurn.dials = 0 /\ Querying!NoTurn.sets = {}
          BY DEF Querying!NoTurn, TurnFields
        <5>2. /\ DOMAIN a = TurnFields /\ a.at = "generate" /\ a.main = Querying!NoTurn.main
              /\ a.attempt = 1 /\ a.dials = 0 /\ a.sets = {}
          BY <5>1 DEF TurnFields
        <5>3. /\ DOMAIN b = TurnFields /\ b.at = "generate" /\ b.main = Querying!NoTurn.main
              /\ b.attempt = 1 /\ b.dials = 0 /\ b.sets = {}
          BY <5>1 DEF TurnFields
        <5> HIDE DEF a, b
        <5> QED
          BY <5>1, <5>2, <5>3
      <4>2. turn' \in {a, b, Querying!NoTurn}
        BY <1>2
      <4> HIDE DEF a, b
      <4> QED
        BY <4>1, <4>2
    <3> QED
      BY <3>1, NoTurnHolds
  <2>2. AnswerHolds(answer', sent')
    <3> DEFINE a == [Querying!NoAnswer EXCEPT !.error = TRUE]
    <3>2. Querying!NoAnswer.ok = FALSE /\ a.ok = FALSE
      BY DEF Querying!NoAnswer
    <3>3. answer' \in {Querying!NoAnswer, a}
      BY <1>2
    <3> HIDE DEF a
    <3>1. answer'.ok = FALSE
      BY <3>2, <3>3
    <3> QED
      BY <3>1 DEF AnswerHolds, Ran
  <2>3. \A x \in sent' : Querying!validateSQL(x)
    BY <1>2 DEF QueryInv
  <2> QED
    BY <2>1, <2>2, <2>3 DEF QueryInv, Querying!validateSQL, Querying!checkTableRefs
<1>3. CASE Querying!handleApiQueryAsk
  BY <1>2, <1>3 DEF Querying!handleApiQueryAsk, Querying!Go, Querying!Reply
<1>4. CASE Querying!handleApiDashboardsSpecAiBuild
  BY <1>2, <1>4 DEF Querying!handleApiDashboardsSpecAiBuild, Querying!Go
<1>5. CASE Querying!generateSQLViaLLM
  <2>1. CASE Querying!Reply([Querying!NoAnswer EXCEPT !.error = TRUE])
    BY <1>2, <1>5, <2>1 DEF Querying!generateSQLViaLLM, Querying!Go, Querying!Reply
  <2>2. ASSUME NEW s \in Statements, Querying!Go([turn EXCEPT !.at = "explain", !.sql = s]), UNCHANGED answer
        PROVE  QueryInv'
    <3> DEFINE u == [turn EXCEPT !.at = "explain", !.sql = s]
    <3>1. turn' = u /\ sent' = sent /\ answer' = answer /\ turn.at = "generate"
      BY <1>5, <2>2 DEF Querying!generateSQLViaLLM, Querying!Go
    <3>2. TurnHolds(turn, sent)
      BY DEF QueryInv
    <3>3. /\ DOMAIN u = TurnFields /\ u.at = "explain" /\ u.main = turn.main
          /\ u.attempt = turn.attempt /\ u.dials = turn.dials /\ u.sets = turn.sets
      BY <3>2 DEF TurnHolds, TurnShape, TurnFields
    <3> HIDE DEF u
    <3>4. TurnHolds(u, sent)
      BY <3>1, <3>2, <3>3 DEF TurnHolds, TurnShape, MainRan, Asked
    <3> QED
      BY <3>1, <3>4 DEF QueryInv, Querying!validateSQL, Querying!checkTableRefs
  <2> QED
    BY <1>5, <2>1, <2>2 DEF Querying!generateSQLViaLLM
<1> QED
  BY <1>1, <1>3, <1>4, <1>5

\* What a turn becomes, when nothing is answered.
LEMMA TurnBecomes ==
  ASSUME QueryInv, NEW u, turn' = u, answer' = answer, TurnHolds(u, sent'), sent \subseteq sent',
         \A x \in sent' \ sent : Querying!validateSQL(x)
  PROVE  QueryInv'
<1>1. AnswerHolds(answer, sent')
  BY MoreWereSent DEF QueryInv
<1>2. \A x \in sent' : Querying!validateSQL(x)
  BY DEF QueryInv
<1> QED
  BY <1>1, <1>2 DEF QueryInv, Querying!validateSQL, Querying!checkTableRefs

\* A statement is explained before it runs, closed or repaired.
LEMMA StatementIsExplained ==
  ASSUME QueryInv, Querying!preflight
  PROVE  QueryInv'
<1> DEFINE s == turn.sql
           closed == Querying!autoRepairIncompleteCTESQL(s)
           tried == IF closed # Querying!NoSql THEN closed ELSE s
           n == turn.retries + (IF closed # Querying!NoSql THEN 1 ELSE 0)
           then == [turn EXCEPT !.at = "attempt", !.sql = tried,
                                !.retries = @ + (IF closed # Querying!NoSql THEN 1 ELSE 0)]
<1>1. /\ turn.at = "explain" /\ answer' = answer /\ TurnHolds(turn, sent)
      /\ IF Querying!vannaExplainSQL(s) THEN Querying!Go([turn EXCEPT !.at = "attempt"]) /\ sent' = sent \cup {s}
         ELSE /\ sent' = sent \cup Querying!Explained(s) \cup Querying!Explained(tried)
              /\ IF Querying!vannaExplainSQL(tried) THEN Querying!Go(then) ELSE Querying!Repaired(then, then)
  BY DEF Querying!preflight, QueryInv
<1>2. /\ sent \subseteq sent' /\ \A x \in sent' \ sent : Querying!validateSQL(x)
  BY <1>1, OnlyValidAreSent
<1>3. ASSUME NEW u, DOMAIN u = TurnFields, u.at = "attempt", u.main = turn.main, u.attempt = turn.attempt,
             u.dials \in {turn.dials, turn.dials + 1}, u.sets = turn.sets, turn' = u
      PROVE  QueryInv'
  <2>1. TurnHolds(turn, sent')
    BY <1>1, <1>2, MoreWereSent
  <2>2. TurnHolds(u, sent')
    BY <1>1, <1>3, <2>1 DEF TurnHolds, TurnShape, MainRan, Asked
  <2> QED
    BY <1>1, <1>2, <1>3, <2>2, TurnBecomes
<1>4. DOMAIN turn = TurnFields
  BY <1>1 DEF TurnHolds, TurnShape
<1>5. /\ DOMAIN then = TurnFields /\ then.at = "attempt" /\ then.main = turn.main
      /\ then.attempt = turn.attempt /\ then.dials = turn.dials /\ then.sets = turn.sets
  BY <1>4 DEF TurnFields
<1> HIDE DEF then, tried, closed
<1>6. CASE Querying!vannaExplainSQL(s)
  <2> DEFINE u == [turn EXCEPT !.at = "attempt"]
  <2>1. /\ DOMAIN u = TurnFields /\ u.at = "attempt" /\ u.main = turn.main
        /\ u.attempt = turn.attempt /\ u.dials = turn.dials /\ u.sets = turn.sets
    BY <1>4 DEF TurnFields
  <2>2. turn' = u
    BY <1>1, <1>6 DEF Querying!Go
  <2> QED
    BY <1>3, <2>1, <2>2
<1>7. CASE ~ Querying!vannaExplainSQL(s) /\ Querying!vannaExplainSQL(tried)
  BY <1>1, <1>3, <1>5, <1>7 DEF Querying!Go
<1>8. CASE ~ Querying!vannaExplainSQL(s) /\ ~ Querying!vannaExplainSQL(tried)
  <2>1. Querying!Repaired(then, then)
    BY <1>1, <1>8
  <2>2. ASSUME NEW r \in Statements, Querying!Go([then EXCEPT !.sql = r, !.retries = @ + 1, !.dials = @ + 1])
        PROVE  QueryInv'
    <3> DEFINE u == [then EXCEPT !.sql = r, !.retries = @ + 1, !.dials = @ + 1]
    <3>1. /\ DOMAIN u = TurnFields /\ u.at = "attempt" /\ u.main = turn.main
          /\ u.attempt = turn.attempt /\ u.dials = turn.dials + 1 /\ u.sets = turn.sets
      BY <1>5 DEF TurnFields
    <3>2. turn' = u
      BY <2>2 DEF Querying!Go
    <3> QED
      BY <1>3, <3>1, <3>2
  <2>3. ASSUME Querying!Go([then EXCEPT !.dials = @ + 1])
        PROVE  QueryInv'
    <3> DEFINE u == [then EXCEPT !.dials = @ + 1]
    <3>1. /\ DOMAIN u = TurnFields /\ u.at = "attempt" /\ u.main = turn.main
          /\ u.attempt = turn.attempt /\ u.dials = turn.dials + 1 /\ u.sets = turn.sets
      BY <1>5 DEF TurnFields
    <3>2. turn' = u
      BY <2>3 DEF Querying!Go
    <3> QED
      BY <1>3, <3>1, <3>2
  <2> QED
    BY <2>1, <2>2, <2>3 DEF Querying!Repaired
<1> QED
  BY <1>6, <1>7, <1>8

\* A statement runs, and is closed or repaired when it fails.
LEMMA StatementRuns ==
  ASSUME QueryInv, Querying!validateAndExecuteVannaSQLWithRepair
  PROVE  QueryInv'
<1> DEFINE run == Querying!vannaRunQuery(turn.sql)
           closed == Querying!autoRepairIncompleteCTESQL(turn.sql)
           again == [turn EXCEPT !.attempt = @ + 1]
<1>1. /\ turn.at = "attempt" /\ answer' = answer /\ TurnHolds(turn, sent) /\ sent' = sent \cup run.sent
      /\ IF run.ok \/ turn.attempt >= 3 THEN Querying!Go(Querying!Took(turn, run.ok))
         ELSE IF closed # Querying!NoSql THEN Querying!Go([again EXCEPT !.sql = closed, !.retries = @ + 1])
         ELSE Querying!Repaired(again, Querying!Took(turn, FALSE))
  BY DEF Querying!validateAndExecuteVannaSQLWithRepair, QueryInv, Querying!vannaMaxRepairAttempts
<1>2. /\ sent \subseteq sent' /\ \A x \in sent' \ sent : Querying!validateSQL(x)
  BY <1>1, OnlyValidAreSent
<1>3. TurnHolds(turn, sent') /\ DOMAIN turn = TurnFields
  <2>1. \A t : TurnHolds(t, sent) => TurnHolds(t, sent')
    BY <1>2, MoreWereSent
  <2> QED
    BY <1>1, <2>1 DEF TurnHolds, TurnShape
<1>4. ASSUME NEW ok \in BOOLEAN, ok => turn.sql \in sent'
      PROVE  TurnHolds(Querying!Took(turn, ok), sent')
  <2>1. /\ TurnShape(turn) /\ \A r \in turn.sets : Ran(r, sent')
        /\ turn.main.ok => turn.main.rowsOf \in sent' /\ turn.main.rowsOf = turn.main.sql
    BY <1>1, <1>3 DEF TurnHolds, MainRan
  <2> QED
    BY <1>4, <2>1, ResultIsTaken
<1>5. ASSUME NEW u, DOMAIN u = TurnFields, u.at = "attempt", u.main = turn.main, u.attempt = turn.attempt + 1,
             u.dials \in {turn.dials, turn.dials + 1}, u.sets = turn.sets, turn' = u, turn.attempt < 3
      PROVE  QueryInv'
  <2>1. TurnHolds(u, sent')
    BY <1>1, <1>3, <1>5 DEF TurnHolds, TurnShape, MainRan, Asked
  <2> QED
    BY <1>1, <1>2, <1>5, <2>1, TurnBecomes
<1>6. /\ DOMAIN again = TurnFields /\ again.at = "attempt" /\ again.main = turn.main
      /\ again.attempt = turn.attempt + 1 /\ again.dials = turn.dials /\ again.sets = turn.sets
  BY <1>1, <1>3 DEF TurnFields
<1>7. turn.attempt \in 1..3
  BY <1>1 DEF TurnHolds, TurnShape
<1> HIDE DEF run, closed, again
<1>8. CASE run.ok \/ turn.attempt >= 3
  <2> DEFINE u == Querying!Took(turn, run.ok)
  <2>1. TurnHolds(u, sent')
    <3>1. run.ok \in BOOLEAN /\ (run.ok => turn.sql \in sent')
      BY <1>1 DEF run, Querying!vannaRunQuery
    <3> QED
      BY <1>4, <3>1
  <2>2. turn' = u
    BY <1>1, <1>8 DEF Querying!Go
  <2> HIDE DEF u
  <2> QED
    BY <1>1, <1>2, <2>1, <2>2, TurnBecomes
<1>9. CASE ~ (run.ok \/ turn.attempt >= 3) /\ closed # Querying!NoSql
  <2> DEFINE u == [again EXCEPT !.sql = closed, !.retries = @ + 1]
  <2>1. /\ DOMAIN u = TurnFields /\ u.at = "attempt" /\ u.main = turn.main
        /\ u.attempt = turn.attempt + 1 /\ u.dials = turn.dials /\ u.sets = turn.sets
    BY <1>6 DEF TurnFields
  <2>2. turn' = u /\ turn.attempt < 3
    BY <1>1, <1>7, <1>9 DEF Querying!Go
  <2> HIDE DEF u
  <2> QED
    BY <1>5, <2>1, <2>2
<1>10. CASE ~ (run.ok \/ turn.attempt >= 3) /\ closed = Querying!NoSql
  <2>1. turn.attempt < 3
    BY <1>7, <1>10
  <2>4. Querying!Repaired(again, Querying!Took(turn, FALSE))
    BY <1>1, <1>10
  <2>2. ASSUME NEW r \in Statements, Querying!Go([again EXCEPT !.sql = r, !.retries = @ + 1, !.dials = @ + 1])
        PROVE  QueryInv'
    <3> DEFINE u == [again EXCEPT !.sql = r, !.retries = @ + 1, !.dials = @ + 1]
    <3>1. /\ DOMAIN u = TurnFields /\ u.at = "attempt" /\ u.main = turn.main
          /\ u.attempt = turn.attempt + 1 /\ u.dials = turn.dials + 1 /\ u.sets = turn.sets
      BY <1>6 DEF TurnFields
    <3>2. turn' = u
      BY <2>2 DEF Querying!Go
    <3> HIDE DEF u
    <3> QED
      BY <1>5, <2>1, <3>1, <3>2
  <2>3. ASSUME Querying!Go([Querying!Took(turn, FALSE) EXCEPT !.dials = @ + 1])
        PROVE  QueryInv'
    <3> DEFINE t == Querying!Took(turn, FALSE)
               u == [t EXCEPT !.dials = @ + 1]
    <3>1. TurnHolds(t, sent')
      BY <1>4
    <3>2. t.dials = turn.dials /\ t.at \in {"result", "next"}
      BY <1>3 DEF Querying!Took, TurnFields
    <3>3. turn' = u
      BY <2>3 DEF Querying!Go
    <3> HIDE DEF t
    <3>4. /\ DOMAIN u = TurnFields /\ u.at = t.at /\ u.main = t.main /\ u.sql = t.sql
          /\ u.attempt = t.attempt /\ u.dials = t.dials + 1 /\ u.sets = t.sets
      BY <3>1 DEF TurnHolds, TurnShape, TurnFields
    <3> HIDE DEF u
    <3>5. turn.dials <= turn.attempt /\ turn.dials \in 0..3
      BY <1>1 DEF TurnHolds, TurnShape, Asked
    <3>6. TurnHolds(u, sent')
      BY <1>7, <2>1, <3>1, <3>2, <3>4, <3>5 DEF TurnHolds, TurnShape, MainRan, Asked
    <3> QED
      BY <1>1, <1>2, <3>3, <3>6, TurnBecomes
  <2> QED
    BY <2>2, <2>3, <2>4 DEF Querying!Repaired
<1> QED
  BY <1>8, <1>9, <1>10

\* A turn is answered with its main statement, and further results.
LEMMA TurnIsAnswered ==
  ASSUME QueryInv, NEW a, Querying!Reply(a), sent' = sent, a.ok => turn.main.ok, a.rowsOf = turn.main.rowsOf,
         a.sql = turn.sql, a.sets \subseteq turn.sets, turn.at \in {"result", "next", "blocked"}
  PROVE  QueryInv'
<1>1. turn' = Querying!NoTurn /\ answer' = a
  BY DEF Querying!Reply, Querying!Go
<1>2. AnswerHolds(a, sent)
  BY DEF QueryInv, TurnHolds, MainRan, AnswerHolds, Ran
<1> QED
  BY <1>1, <1>2, NoTurnHolds DEF QueryInv, Querying!validateSQL, Querying!checkTableRefs

\* The main statement as an answer.
LEMMA MainIs ==
  ASSUME QueryInv
  PROVE  /\ DOMAIN turn = TurnFields /\ DOMAIN Querying!Main = ResultFields /\ Querying!Main.ok = turn.main.ok
         /\ Querying!Main.rowsOf = turn.main.rowsOf /\ Querying!Main.sql = turn.sql /\ Querying!Main.sets = {}
<1>1. DOMAIN turn.main = ResultFields /\ turn.main.sets = {} /\ DOMAIN turn = TurnFields
  BY DEF QueryInv, TurnHolds, TurnShape
<1> QED
  BY <1>1 DEF Querying!Main, ResultFields

\* A turn ends, or goes on to its chart.
LEMMA TurnGoesOn ==
  ASSUME QueryInv, Querying!afterMain \/ Querying!generateNamedQueries \/ Querying!executeNamedQueries \/ Querying!generateChartSpec
  PROVE  QueryInv'
<1>1. TurnHolds(turn, sent) /\ DOMAIN turn = TurnFields /\ turn.main.sets = {}
  BY DEF QueryInv, TurnHolds, TurnShape
<1>2. CASE Querying!afterMain
  <2>1. CASE turn.main.ok /\ turn.chart
    <3> DEFINE u == [turn EXCEPT !.at = "named"]
    <3>1. turn' = u /\ answer' = answer /\ sent' = sent /\ turn.at = "result"
      BY <1>2, <2>1 DEF Querying!afterMain, Querying!Go
    <3>2. /\ DOMAIN u = TurnFields /\ u.at = "named" /\ u.main = turn.main /\ u.sql = turn.sql
          /\ u.attempt = turn.attempt /\ u.dials = turn.dials /\ u.sets = turn.sets
      BY <1>1 DEF TurnFields
    <3> HIDE DEF u
    <3>3. TurnHolds(u, sent)
      BY <1>1, <3>1, <3>2 DEF TurnHolds, TurnShape, MainRan, Asked
    <3> QED
      BY <3>1, <3>3, TurnBecomes
  <2>2. CASE ~ (turn.main.ok /\ turn.chart)
    <3>1. Querying!Reply(Querying!Main) /\ sent' = sent /\ turn.at = "result"
      BY <1>2, <2>2 DEF Querying!afterMain
    <3>2. Querying!Main.sets \subseteq turn.sets
      BY MainIs
    <3> QED
      BY <3>1, <3>2, MainIs, TurnIsAnswered
  <2> QED
    BY <2>1, <2>2
<1>3. CASE Querying!generateNamedQueries
  <2>1. turn.at = "named" /\ answer' = answer /\ sent' = sent
    BY <1>3 DEF Querying!generateNamedQueries
  <2>2. ASSUME NEW named, Querying!Go([turn EXCEPT !.at = "next", !.todo = named, !.main = Querying!Main])
        PROVE  QueryInv'
    <3> DEFINE u == [turn EXCEPT !.at = "next", !.todo = named, !.main = Querying!Main]
               m == Querying!Main
    <3>1. turn' = u
      BY <2>2 DEF Querying!Go
    <3>2. DOMAIN m = ResultFields /\ m.ok = turn.main.ok /\ m.rowsOf = turn.main.rowsOf /\ m.sql = turn.sql /\ m.sets = {}
      BY MainIs
    <3>3. /\ DOMAIN u = TurnFields /\ u.at = "next" /\ u.main = m /\ u.sql = turn.sql
          /\ u.attempt = turn.attempt /\ u.dials = turn.dials /\ u.sets = turn.sets
      BY <1>1 DEF TurnFields
    <3> HIDE DEF u, m
    <3>4. TurnHolds(u, sent)
      BY <1>1, <2>1, <3>2, <3>3 DEF TurnHolds, TurnShape, MainRan, Asked
    <3> QED
      BY <2>1, <3>1, <3>4, TurnBecomes
  <2>3. ASSUME Querying!Go([turn EXCEPT !.at = "blocked"])
        PROVE  QueryInv'
    <3> DEFINE u == [turn EXCEPT !.at = "blocked"]
    <3>1. turn' = u
      BY <2>3 DEF Querying!Go
    <3>2. /\ DOMAIN u = TurnFields /\ u.at = "blocked" /\ u.main = turn.main /\ u.sql = turn.sql
          /\ u.attempt = turn.attempt /\ u.dials = turn.dials /\ u.sets = turn.sets
      BY <1>1 DEF TurnFields
    <3> HIDE DEF u
    <3>3. TurnHolds(u, sent)
      BY <1>1, <2>1, <3>2 DEF TurnHolds, TurnShape, MainRan, Asked
    <3> QED
      BY <2>1, <3>1, <3>3, TurnBecomes
  <2>4. \/ \E named : Querying!Go([turn EXCEPT !.at = "next", !.todo = named, !.main = Querying!Main])
        \/ Querying!Go([turn EXCEPT !.at = "blocked"])
    BY <1>3 DEF Querying!generateNamedQueries, Querying!Go
  <2> QED
    BY <2>2, <2>3, <2>4
<1>4. CASE Querying!executeNamedQueries
  <2> DEFINE s == Head(turn.todo)
             next == [turn EXCEPT !.todo = Tail(@), !.sql = s, !.attempt = 1, !.dials = 0]
             run == Querying!vannaRunQuery(s)
  <2>1. /\ turn.at = "next" /\ answer' = answer
        /\ IF turn.kind = "build" THEN Querying!Go([next EXCEPT !.at = "explain"]) /\ UNCHANGED sent
           ELSE Querying!Go(Querying!Took(next, run.ok)) /\ sent' = sent \cup run.sent
    BY <1>4 DEF Querying!executeNamedQueries
  <2>2. /\ DOMAIN next = TurnFields /\ next.sql = s /\ next.main = turn.main /\ next.at = "next"
        /\ next.attempt = 1 /\ next.dials = 0 /\ next.sets = turn.sets
    BY <1>1, <2>1 DEF TurnFields
  <2> HIDE DEF next
  <2>3. CASE turn.kind = "build"
    <3> DEFINE u == [next EXCEPT !.at = "explain"]
    <3>1. turn' = u /\ sent' = sent
      BY <2>1, <2>3 DEF Querying!Go
    <3>2. /\ DOMAIN u = TurnFields /\ u.at = "explain" /\ u.main = turn.main
          /\ u.attempt = 1 /\ u.dials = 0 /\ u.sets = turn.sets
      BY <2>2 DEF TurnFields
    <3> HIDE DEF u
    <3>3. TurnHolds(u, sent)
      BY <1>1, <2>1, <3>2 DEF TurnHolds, TurnShape, MainRan, Asked
    <3> QED
      BY <2>1, <3>1, <3>3, TurnBecomes
  <2>4. CASE turn.kind # "build"
    <3> DEFINE u == Querying!Took(next, run.ok)
    <3>1. turn' = u /\ sent' = sent \cup run.sent
      BY <2>1, <2>4 DEF Querying!Go
    <3>2. /\ sent \subseteq sent' /\ \A x \in sent' \ sent : Querying!validateSQL(x)
      BY <3>1, OnlyValidAreSent
    <3>3. run.ok \in BOOLEAN /\ (run.ok => next.sql \in sent')
      BY <2>2, <3>1 DEF Querying!vannaRunQuery
    <3> HIDE DEF run
    <3>4. TurnHolds(turn, sent')
      BY <1>1, <3>2, MoreWereSent
    <3>5. /\ TurnShape(next) /\ \A r \in next.sets : Ran(r, sent')
          /\ next.main.ok => next.main.rowsOf \in sent' /\ next.main.rowsOf = next.main.sql
      BY <2>1, <2>2, <3>4 DEF TurnHolds, TurnShape, MainRan
    <3>6. TurnHolds(u, sent')
      BY <3>3, <3>5, ResultIsTaken
    <3> HIDE DEF u
    <3> QED
      BY <2>1, <3>1, <3>2, <3>6, TurnBecomes
  <2> QED
    BY <2>3, <2>4
<1>5. CASE Querying!generateChartSpec
  <2>1. PICK chart : Querying!Reply([Querying!Main EXCEPT !.sets = {r \in turn.sets : turn.kind = "build" => ~r.error},
                 !.error = turn.kind = "run" /\ chart = "none",
                 !.chart = IF chart = "none" /\ turn.kind = "build" THEN "template" ELSE chart])
    BY <1>5 DEF Querying!generateChartSpec
  <2> DEFINE ss == {r \in turn.sets : turn.kind = "build" => ~r.error}
             a == [Querying!Main EXCEPT !.sets = ss, !.error = turn.kind = "run" /\ chart = "none",
                 !.chart = IF chart = "none" /\ turn.kind = "build" THEN "template" ELSE chart]
  <2>2. Querying!Reply(a) /\ sent' = sent /\ turn.at \in {"next", "blocked"}
    BY <1>5, <2>1 DEF Querying!generateChartSpec
  <2>3. ss \subseteq turn.sets
    OBVIOUS
  <2> HIDE DEF ss
  <2>4. a.ok = turn.main.ok /\ a.rowsOf = turn.main.rowsOf /\ a.sql = turn.sql /\ a.sets = ss
    BY MainIs DEF ResultFields
  <2> HIDE DEF a
  <2> QED
    BY <2>2, <2>3, <2>4, TurnIsAnswered
<1> QED
  BY <1>2, <1>3, <1>4, <1>5

\* Whatever the model replies and however often a statement is repaired, only valid ones reach
\* the database, rows are shown under the statement that gave them, and none takes the model
\* more than three repairs (vannaRunQuery, validateAndExecuteVannaSQLWithRepair).
THEOREM WhatRanIsShown == Querying!Spec => []Querying!ShownIsWhatRan
<1>1. Querying!Init => QueryInv
  BY NoTurnHolds DEF Querying!Init, QueryInv
<1>2. QueryInv /\ [Querying!Next]_Querying!queryVars => QueryInv'
  <2>1. QueryInv /\ UNCHANGED Querying!queryVars => QueryInv'
    BY DEF QueryInv, Querying!queryVars, Querying!validateSQL, Querying!checkTableRefs
  <2> QED
    BY <2>1, TurnBegins, StatementIsExplained, StatementRuns, TurnGoesOn DEF Querying!Next
<1>3. QueryInv => Querying!ShownIsWhatRan
  BY DEF QueryInv, Querying!ShownIsWhatRan, AnswerHolds, Ran, TurnHolds, TurnShape
<1> QED
  BY <1>1, <1>2, <1>3, PTL DEF Querying!Spec

-----------------------------------------------------------------------------
(* The walk over the screens of a list.                                    *)

\* The rows of a list, the later ones, and the names of those, when S is stored.
Fits(v, e) ==
    /\ v.service \in {"", e.service}
    /\ v.kind \in View!Errors => /\ v.resolved = "0" => e.id \notin ResolvedBefore
                                 /\ v.resolved = "1" => e.id \in ResolvedBefore
Asks(v) == v.resolved \in {"", "0", "1"}
RowsOf(S, v) == {e \in S : Fits(v, e)}
Past(S, t) == {e \in S : e.time > t}
Later(S, v, t) == Past(RowsOf(S, v), t)
Ahead(S, v, t) == {View!Key(v, e) : e \in Later(S, v, t)}
\* x is still listed where its time puts it; so many are ahead that it is not among the rows
\* that are grouped; and it is not on a screen yet.
Stays(S, v, x) ==
    /\ x.time \in Int
    /\ \E e \in RowsOf(S, v) : View!Key(v, e) = x.key /\ e.time = x.time
    /\ \A e \in RowsOf(S, v) : View!Key(v, e) = x.key => e.time <= x.time
Tied(v, x) == \E e \in Entries : e.time = x.time /\ View!Key(v, e) # x.key
Beyond(S, v, x) == v.kind = "groups" /\ Cardinality(Later(S, v, x.time)) >= View!probeLimit
Comes(S, v, x) ==
    IF v.at \in {"count", "rows"} THEN Cardinality(Ahead(S, v, x.time)) >= v.offset
    ELSE Cardinality(Ahead(S, v, x.time)) >= v.offset + PageLimit /\ Len(v.rows) = PageLimit
IsOn(rows, k) == \E i \in DOMAIN rows : rows[i].key = k
Awaited(S, v, x) ==
    /\ Stays(S, v, x)
    /\ Beyond(S, v, x) \/ Comes(S, v, x) \/ (v.at = "details" /\ IsOn(v.rows, x.key))

\* What a list holds: each row that is not beyond, under its name and at its time.
Holds(v, items) ==
    /\ IsFiniteSet(items)
    /\ \A y, z \in items : y.key = z.key => y = z
    /\ \A y \in items : \E e \in RowsOf(entries, v) : View!Key(v, e) = y.key /\ e.time = y.time /\ y.ids = {e.id}
    /\ \A y \in items : \A e \in RowsOf(entries, v) : View!Key(v, e) = y.key => e.time <= y.time
HoldsAt(v, items, t) ==
    ~ (v.kind = "groups" /\ Cardinality(Later(entries, v, t)) >= View!probeLimit) =>
        /\ \A k \in Ahead(entries, v, t) : \E y \in items : y.key = k
        /\ \A e \in RowsOf(entries, v) :
              e.time = t /\ (\A d \in RowsOf(entries, v) : d.time = t => View!Key(v, d) = View!Key(v, e)) =>
                  \E y \in items : y.key = View!Key(v, e)

\* The lists count as this module does.
LEMMA ListsCount ==
  /\ \A S : View!Cardinality(S) = Cardinality(S)
  /\ \A S : View!IsFiniteSet(S) <=> IsFiniteSet(S)
<1>1. \A S : View!Cardinality(S) = Cardinality(S)
  BY DEF View!Cardinality, Cardinality
<1>2. \A S : View!IsFiniteSet(S) <=> IsFiniteSet(S)
  BY DEF View!IsFiniteSet, IsFiniteSet
<1> QED
  BY <1>1, <1>2

\* A set of rows has a last one.
LEMMA LastExists ==
  ASSUME NEW S, IsFiniteSet(S), S # {}, \A e \in S : e.time \in Int
  PROVE  View!LastOf(S) \in S /\ \A d \in S : View!LastOf(S).time >= d.time
<1> DEFINE After(e) == {d \in S : d.time > e.time}
           N == {Cardinality(After(e)) : e \in S}
           R == OpToRel(<, Nat)
<1>1. \A e \in S : IsFiniteSet(After(e)) /\ Cardinality(After(e)) \in Nat
  <2> SUFFICES ASSUME NEW e \in S PROVE IsFiniteSet(After(e)) /\ Cardinality(After(e)) \in Nat
    OBVIOUS
  <2>1. After(e) \in SUBSET S
    OBVIOUS
  <2> HIDE DEF After
  <2>2. IsFiniteSet(After(e))
    BY <2>1, FS_Subset
  <2> QED
    BY <2>2, FS_CardinalityType
<1>2. N \subseteq Nat /\ N # {}
  BY <1>1
<1>3. IsWellFoundedOn(R, Nat)
  BY NatLessThanWellFounded
<1>4. \A a, b \in Nat : a < b => <<a, b>> \in R
  BY DEF OpToRel
<1> HIDE DEF N, R
<1>5. PICK n \in N : \A m \in N : ~ (<<m, n>> \in R)
  BY <1>2, <1>3, WFMin
<1>6. PICK e \in S : n = Cardinality(After(e))
  BY DEF N
<1>7. \A d \in S : e.time >= d.time
  <2> SUFFICES ASSUME NEW d \in S, ~ (e.time >= d.time) PROVE FALSE
    OBVIOUS
  <2>1. e.time \in Int /\ d.time \in Int /\ d.time > e.time
    OBVIOUS
  <2>2. After(d) \in SUBSET After(e) /\ d \in After(e) /\ ~ (d \in After(d))
    BY <2>1
  <2>3. /\ IsFiniteSet(After(e)) /\ Cardinality(After(e)) \in Nat /\ Cardinality(After(d)) \in Nat
    BY <1>1
  <2> HIDE DEF After
  <2>4. Cardinality(After(d)) <= Cardinality(After(e)) /\ (Cardinality(After(e)) = Cardinality(After(d)) => After(e) = After(d))
    BY <2>2, <2>3, FS_Subset
  <2>5. Cardinality(After(d)) < Cardinality(After(e))
    BY <2>2, <2>3, <2>4
  <2>6. Cardinality(After(d)) \in N
    BY DEF N
  <2> QED
    BY <1>4, <1>5, <1>6, <2>3, <2>5, <2>6
<1> QED
  BY <1>7 DEF View!LastOf

\* A page of errors groups so many rows, at least one.
LEMMA ProbeIsPositive == View!probeLimit \in Nat /\ View!probeLimit >= 1
<1>1. /\ MinProbe \in Nat \ {0} /\ MaxProbe \in Nat \ {0} /\ PageLimit * 100 \in Nat \ {0}
  <2>1. /\ MinProbe \in Nat \ {0} /\ MaxProbe \in Nat \ {0} /\ PageLimit \in Nat \ {0}
    BY FormsAssumption DEF View!ViewsAssumption
  <2> QED
    BY <2>1
<1>2. \A a, b \in Nat : View!Max({a, b}) \in {a, b} /\ View!Max({a, b}) >= a
  <2> SUFFICES ASSUME NEW a \in Nat, NEW b \in Nat PROVE View!Max({a, b}) \in {a, b} /\ View!Max({a, b}) >= a
    OBVIOUS
  <2>1. \E x \in {a, b} : \A y \in {a, b} : x >= y
    <3>1. CASE a >= b
      BY <3>1
    <3>2. CASE b >= a
      BY <3>2
    <3> QED
      BY <3>1, <3>2
  <2> QED
    BY <2>1 DEF View!Max
<1>3. \A a, b \in Nat : View!Min({a, b}) \in {a, b}
  <2> SUFFICES ASSUME NEW a \in Nat, NEW b \in Nat PROVE View!Min({a, b}) \in {a, b}
    OBVIOUS
  <2>1. \E x \in {a, b} : \A y \in {a, b} : x <= y
    <3>1. CASE a <= b
      BY <3>1
    <3>2. CASE b <= a
      BY <3>2
    <3> QED
      BY <3>1, <3>2
  <2> QED
    BY <2>1 DEF View!Min
<1>4. PICK m \in Nat : m = View!Min({MaxProbe, PageLimit * 100})
  BY <1>1, <1>3
<1>5. View!Max({MinProbe, m}) \in {MinProbe, m} /\ View!Max({MinProbe, m}) >= MinProbe
  BY <1>1, <1>2
<1> QED
  BY <1>1, <1>4, <1>5 DEF View!probeLimit

\* Rows, and names of rows, are finite in number.
LEMMA RowsAreFinite ==
  ASSUME NEW S \in SUBSET Entries, NEW v, NEW t
  PROVE  /\ IsFiniteSet(RowsOf(S, v)) /\ \A e \in RowsOf(S, v) : e.time \in Int
         /\ IsFiniteSet(Later(S, v, t)) /\ Cardinality(Later(S, v, t)) \in Nat
         /\ IsFiniteSet(Ahead(S, v, t)) /\ Cardinality(Ahead(S, v, t)) \in Nat
<1>1. IsFiniteSet(Entries) /\ \A e \in Entries : e.time \in Int
  BY FormsAssumption, ListsCount DEF View!ViewsAssumption
<1>2. RowsOf(S, v) \in SUBSET Entries /\ Later(S, v, t) \in SUBSET Entries
  BY DEF RowsOf, Later, Past
<1>3. IsFiniteSet(RowsOf(S, v)) /\ IsFiniteSet(Later(S, v, t))
  BY <1>1, <1>2, FS_Subset
<1>4. IsFiniteSet(Ahead(S, v, t))
  <2> DEFINE f == [e \in Later(S, v, t) |-> View!Key(v, e)]
  <2>1. f \in Surjection(Later(S, v, t), Ahead(S, v, t))
    BY DEF Surjection, Ahead
  <2> HIDE DEF f
  <2> QED
    BY <1>3, <2>1, FS_Surjection
<1> QED
  BY <1>1, <1>2, <1>3, <1>4, FS_CardinalityType

\* The rows of a list are those that its statement finds.
LEMMA RowsAreFound ==
  ASSUME resolutions = ResolvedBefore, NEW v, Asks(v)
  PROVE  View!Matching(v) = RowsOf(entries, v)
BY DEF View!Matching, RowsOf, View!Where, Fits, Asks

\* What is said of the newest rows, and of groups of them.
UpTo(S, P) == P \subseteq S /\ \A e \in P, d \in S \ P : e.time >= d.time
Reaches(S, P, n, t) ==
    /\ Cardinality(Past(S, t)) < n =>
           /\ Past(S, t) \subseteq P
           /\ (\E e \in S : e.time = t) => \E e \in P : e.time = t
    /\ Cardinality(Past(S, t)) >= n => \A e \in P : e.time > t
Groups(P) == {View!Group(g, P) : g \in {e.group : e \in P}}

\* The newest n rows hold whatever fewer than n are later than.
LEMMA NewestHold ==
  ASSUME NEW S, IsFiniteSet(S), \A e \in S : e.time \in Int, NEW n \in Nat, n >= 1, NEW P \in View!Newest(S, n)
  PROVE  UpTo(S, P) /\ \A t \in Int : Reaches(S, P, n, t)
<1>1. P \subseteq S /\ Cardinality(P) = View!Min({n, Cardinality(S)}) /\ \A e \in P, d \in S \ P : e.time >= d.time
  BY ListsCount DEF View!Newest
<1>2. Cardinality(S) \in Nat /\ IsFiniteSet(P) /\ Cardinality(P) \in Nat /\ Cardinality(P) <= Cardinality(S)
      /\ (Cardinality(S) = Cardinality(P) => S = P)
  BY <1>1, FS_CardinalityType, FS_Subset
<1>3. Cardinality(P) \in {n, Cardinality(S)} /\ Cardinality(P) <= n
  <2>1. PICK m \in Nat : m = Cardinality(S)
    BY <1>2
  <2>2. \E x \in {n, m} : \A y \in {n, m} : x <= y
    <3>1. CASE n <= m
      BY <3>1
    <3>2. CASE m <= n
      BY <3>2
    <3> QED
      BY <2>1, <3>1, <3>2
  <2>3. View!Min({n, m}) \in {n, m} /\ View!Min({n, m}) <= n
    BY <2>2 DEF View!Min
  <2> QED
    BY <1>1, <2>1, <2>3
<1> SUFFICES ASSUME NEW t \in Int
             PROVE  /\ Cardinality(Past(S, t)) < n =>
                      /\ Past(S, t) \subseteq P
                      /\ (\E e \in S : e.time = t) => \E e \in P : e.time = t
                    /\ Cardinality(Past(S, t)) >= n => \A e \in P : e.time > t
  BY <1>1 DEF UpTo, Reaches
<1> DEFINE L == {e \in S : e.time > t}
<1>0. Past(S, t) = L
  BY DEF Past
<1>4. IsFiniteSet(L) /\ Cardinality(L) \in Nat
  <2>1. L \in SUBSET S
    OBVIOUS
  <2> HIDE DEF L
  <2> QED
    BY <2>1, FS_Subset, FS_CardinalityType
<1>5. ASSUME Cardinality(L) < n, NEW d \in L, ~ (d \in P)
      PROVE  FALSE
  <2>1. P \subseteq L \ {d}
    BY <1>1, <1>5
  <2>2. IsFiniteSet(L \ {d}) /\ Cardinality(L \ {d}) = Cardinality(L) - 1
    BY <1>4, <1>5, FS_RemoveElement
  <2>3. Cardinality(P) <= Cardinality(L \ {d})
    BY <2>1, <2>2, FS_Subset
  <2>4. d \in S
    OBVIOUS
  <2> HIDE DEF L
  <2> QED
    BY <1>2, <1>3, <1>4, <1>5, <2>2, <2>3, <2>4
<1>6. ASSUME Cardinality(L) < n, NEW e \in S, e.time = t, \A d \in P : d.time # t
      PROVE  FALSE
  <2>1. P \subseteq L
    BY <1>1, <1>6
  <2> HIDE DEF L
  <2>2. Cardinality(P) <= Cardinality(L)
    BY <1>4, <2>1, FS_Subset
  <2> QED
    BY <1>2, <1>3, <1>4, <1>6, <2>2
<1>7. ASSUME Cardinality(L) >= n, NEW e \in P, ~ (e.time > t)
      PROVE  FALSE
  <2>1. L \subseteq P \ {e}
    BY <1>1, <1>7
  <2> HIDE DEF L
  <2>2. IsFiniteSet(P \ {e}) /\ Cardinality(P \ {e}) = Cardinality(P) - 1
    BY <1>2, <1>7, FS_RemoveElement
  <2>3. Cardinality(L) <= Cardinality(P \ {e})
    BY <2>1, <2>2, FS_Subset
  <2> QED
    BY <1>2, <1>3, <1>4, <1>7, <2>2, <2>3
<1> HIDE DEF L
<1>8. Cardinality(L) < n =>
          /\ L \subseteq P
          /\ (\E e \in S : e.time = t) => \E e \in P : e.time = t
  BY <1>5, <1>6
<1>9. Cardinality(L) >= n => \A e \in P : e.time > t
  BY <1>7
<1> QED
  BY <1>0, <1>8, <1>9

\* Groups of the newest rows are those of their rows, each at its last one.
LEMMA GroupsHold ==
  ASSUME entries \in SUBSET Entries, NEW v, v.kind \in View!Grouping, NEW P \in SUBSET RowsOf(entries, v),
               UpTo(RowsOf(entries, v), P)
  PROVE  /\ Holds(v, Groups(P)) /\ \A e \in P : \E y \in Groups(P) : y.key = View!Key(v, e)
         /\ \A y \in Groups(P) : \E e \in P : y.time = e.time
<1> DEFINE items == Groups(P)
<1>1. IsFiniteSet(P) /\ \A e \in RowsOf(entries, v) : e.time \in Int
  BY RowsAreFinite, FS_Subset
<1>2. \A e \in RowsOf(entries, v) : View!Key(v, e) = e.group
  BY DEF View!Key
<1>3. ASSUME NEW e \in P
      PROVE  \E l \in P : /\ View!Group(e.group, P) = [key |-> e.group, time |-> l.time, service |-> l.service, ids |-> {l.id}]
                          /\ l.group = e.group /\ \A d \in RowsOf(entries, v) : d.group = e.group => d.time <= l.time
  <2> DEFINE T == {d \in P : d.group = e.group}
             l == View!LastOf(T)
  <2>1. T \in SUBSET P /\ T # {} /\ \A d \in T : d.time \in Int
    BY <1>1, <1>3
  <2>2. View!Group(e.group, P) = [key |-> e.group, time |-> l.time, service |-> l.service, ids |-> {l.id}]
    BY DEF View!Group
  <2>3. \A d \in T : d.group = e.group
    OBVIOUS
  <2>4. \A d \in P : d.group = e.group => d \in T
    OBVIOUS
  <2> HIDE DEF T
  <2>5. IsFiniteSet(T)
    BY <1>1, <2>1, FS_Subset
  <2>6. l \in T /\ \A d \in T : l.time >= d.time
    BY <2>1, <2>5, LastExists
  <2> HIDE DEF l
  <2>7. l \in P /\ l.group = e.group
    BY <2>1, <2>3, <2>6
  <2>8. \A d \in RowsOf(entries, v) : d.group = e.group => d.time <= l.time
    <3> SUFFICES ASSUME NEW d \in RowsOf(entries, v), d.group = e.group PROVE d.time <= l.time
      OBVIOUS
    <3>1. d.time \in Int /\ l.time \in Int
      BY <1>1, <2>7
    <3>2. CASE d \in P
      BY <2>4, <2>6, <3>1, <3>2
    <3>3. CASE ~ (d \in P)
      BY <2>7, <3>1, <3>3 DEF UpTo
    <3> QED
      BY <3>2, <3>3
  <2> QED
    BY <2>2, <2>7, <2>8
<1>4. \A y \in items : \E e \in P : y = View!Group(e.group, P)
  BY DEF Groups
<1>5. \A e \in P : View!Group(e.group, P) \in items
  BY DEF Groups
<1> HIDE DEF items
<1>6. IsFiniteSet(items)
  <2> DEFINE f == [e \in P |-> View!Group(e.group, P)]
  <2>1. f \in Surjection(P, items)
    BY <1>4, <1>5 DEF Surjection
  <2> HIDE DEF f
  <2> QED
    BY <1>1, <2>1, FS_Surjection
<1>7. \A y \in items : \E e \in P : y = View!Group(e.group, P) /\ y.key = e.group
  <2> SUFFICES ASSUME NEW y \in items PROVE \E e \in P : y = View!Group(e.group, P) /\ y.key = e.group
    OBVIOUS
  <2>1. PICK e \in P : y = View!Group(e.group, P)
    BY <1>4
  <2>2. PICK l \in P : View!Group(e.group, P) = [key |-> e.group, time |-> l.time, service |-> l.service, ids |-> {l.id}]
    BY <1>3
  <2>3. y.key = e.group
    BY <2>1, <2>2
  <2> QED
    BY <2>1, <2>3
<1>8. ASSUME NEW y \in items
      PROVE  /\ \E l \in P : View!Key(v, l) = y.key /\ l.time = y.time /\ y.ids = {l.id}
             /\ \A d \in RowsOf(entries, v) : View!Key(v, d) = y.key => d.time <= y.time
  <2>1. PICK e \in P : y = View!Group(e.group, P) /\ y.key = e.group
    BY <1>7
  <2>2. PICK l \in P : /\ View!Group(e.group, P) = [key |-> e.group, time |-> l.time, service |-> l.service, ids |-> {l.id}]
                       /\ l.group = e.group /\ \A d \in RowsOf(entries, v) : d.group = e.group => d.time <= l.time
    BY <1>3
  <2>3. y.time = l.time /\ y.ids = {l.id}
    BY <2>1, <2>2
  <2> QED
    BY <1>2, <2>1, <2>2, <2>3
<1>9. \A y, z \in items : y.key = z.key => y = z
  BY <1>7
<1>10. \A e \in P : \E y \in items : y.key = View!Key(v, e)
  <2> SUFFICES ASSUME NEW e \in P PROVE \E y \in items : y.key = View!Key(v, e)
    OBVIOUS
  <2>1. PICK l \in P : View!Group(e.group, P) = [key |-> e.group, time |-> l.time, service |-> l.service, ids |-> {l.id}]
    BY <1>3
  <2>2. View!Group(e.group, P).key = e.group
    BY <2>1
  <2> QED
    BY <1>2, <1>5, <2>2
<1> QED
  BY <1>6, <1>8, <1>9, <1>10 DEF Holds, items

\* A list holds its rows.
LEMMA ListHolds ==
  ASSUME entries \in SUBSET Entries, resolutions = ResolvedBefore, NEW v, Asks(v),
               NEW items \in View!Listing(v), NEW t \in Int
  PROVE  /\ Holds(v, items) /\ HoldsAt(v, items, t)
         /\ v.kind = "groups" /\ Cardinality(Later(entries, v, t)) >= View!probeLimit => \A y \in items : y.time > t
<1>1. View!Matching(v) = RowsOf(entries, v) /\ IsFiniteSet(RowsOf(entries, v)) /\ \A e \in RowsOf(entries, v) : e.time \in Int
  <2>1. View!Matching(v) = RowsOf(entries, v)
    BY RowsAreFound
  <2>2. IsFiniteSet(RowsOf(entries, v)) /\ \A e \in RowsOf(entries, v) : e.time \in Int
    BY RowsAreFinite
  <2> QED
    BY <2>1, <2>2
<1>2. Later(entries, v, t) = Past(RowsOf(entries, v), t) /\ Later(entries, v, t) \subseteq RowsOf(entries, v)
  BY DEF Later, Past
<1>3. CASE ~ (v.kind \in View!Grouping)
  <2>1. items = {View!One(e) : e \in RowsOf(entries, v)} /\ v.kind # "groups"
    BY <1>1, <1>3 DEF View!Listing, View!Grouping
  <2>2. \A e \in RowsOf(entries, v) : View!Key(v, e) = e.id
    BY <1>3 DEF View!Key
  <2>3. \A d, e \in RowsOf(entries, v) : d.id = e.id => d = e
    BY FormsAssumption DEF View!ViewsAssumption, RowsOf
  <2>4. \A e \in RowsOf(entries, v) : View!One(e).key = e.id /\ View!One(e).time = e.time /\ View!One(e).ids = {e.id}
    BY DEF View!One
  <2>5. IsFiniteSet(items)
    <3> DEFINE f == [e \in RowsOf(entries, v) |-> View!One(e)]
    <3>1. f \in Surjection(RowsOf(entries, v), items)
      BY <2>1 DEF Surjection
    <3> HIDE DEF f
    <3> QED
      BY <1>1, <3>1, FS_Surjection
  <2>6. \A y \in items : \E e \in RowsOf(entries, v) : y = View!One(e)
    BY <2>1
  <2>7. \A e \in RowsOf(entries, v) : View!One(e) \in items
    BY <2>1
  <2>8. Holds(v, items)
    <3>1. \A y, z \in items : y.key = z.key => y = z
      <4> SUFFICES ASSUME NEW y \in items, NEW z \in items, y.key = z.key PROVE y = z
        OBVIOUS
      <4>1. PICK d \in RowsOf(entries, v) : y = View!One(d)
        BY <2>6
      <4>2. PICK e \in RowsOf(entries, v) : z = View!One(e)
        BY <2>6
      <4>3. d.id = e.id
        BY <2>4, <4>1, <4>2
      <4> QED
        BY <2>3, <4>1, <4>2, <4>3
    <3>2. \A y \in items : \E e \in RowsOf(entries, v) : View!Key(v, e) = y.key /\ e.time = y.time /\ y.ids = {e.id}
      BY <2>2, <2>4, <2>6
    <3>3. \A y \in items : \A e \in RowsOf(entries, v) : View!Key(v, e) = y.key => e.time <= y.time
      <4> SUFFICES ASSUME NEW y \in items, NEW e \in RowsOf(entries, v), View!Key(v, e) = y.key PROVE e.time <= y.time
        OBVIOUS
      <4>1. PICK d \in RowsOf(entries, v) : y = View!One(d)
        BY <2>6
      <4>2. d.id = e.id /\ y.time = d.time
        BY <2>2, <2>4, <4>1
      <4>3. d = e /\ e.time \in Int
        BY <1>1, <2>3, <4>2
      <4>4. y.time = e.time
        BY <4>2, <4>3
      <4> QED
        BY <4>3, <4>4
    <3> QED
      BY <2>5, <3>1, <3>2, <3>3 DEF Holds
  <2>9. \A e \in RowsOf(entries, v) : \E y \in items : y.key = View!Key(v, e)
    BY <2>2, <2>4, <2>7
  <2>10. \A k \in Ahead(entries, v, t) : \E e \in RowsOf(entries, v) : k = View!Key(v, e)
    BY <1>2 DEF Ahead
  <2> QED
    BY <2>1, <2>8, <2>9, <2>10 DEF HoldsAt
<1>4. CASE v.kind \in View!Grouping
  <2>1. PICK P : /\ IF v.kind = "groups" THEN P \in View!Newest(RowsOf(entries, v), View!probeLimit) ELSE P = RowsOf(entries, v)
                 /\ items = {View!Group(g, P) : g \in {e.group : e \in P}}
    BY <1>1, <1>4 DEF View!Listing
  <2>2. View!probeLimit \in Nat /\ View!probeLimit >= 1
    BY ProbeIsPositive
  <2>3. /\ UpTo(RowsOf(entries, v), P)
        /\ ~ (v.kind = "groups" /\ Cardinality(Later(entries, v, t)) >= View!probeLimit) =>
              /\ Later(entries, v, t) \subseteq P
              /\ (\E e \in RowsOf(entries, v) : e.time = t) => \E e \in P : e.time = t
        /\ v.kind = "groups" /\ Cardinality(Later(entries, v, t)) >= View!probeLimit => \A e \in P : e.time > t
    <3>1. CASE v.kind = "groups"
      <4>1. P \in View!Newest(RowsOf(entries, v), View!probeLimit)
        BY <2>1, <3>1
      <4>2. Cardinality(Later(entries, v, t)) \in Nat
        BY RowsAreFinite
      <4>3. UpTo(RowsOf(entries, v), P) /\ Reaches(RowsOf(entries, v), P, View!probeLimit, t)
        BY <1>1, <2>2, <4>1, NewestHold
      <4> QED
        BY <1>2, <2>2, <3>1, <4>2, <4>3 DEF Reaches, UpTo
    <3>2. CASE v.kind # "groups"
      BY <1>2, <2>1, <3>2 DEF UpTo
    <3> QED
      BY <3>1, <3>2
  <2>4. /\ Holds(v, items) /\ \A e \in P : \E y \in items : y.key = View!Key(v, e)
        /\ \A y \in items : \E e \in P : y.time = e.time
    <3>1. items = Groups(P)
      BY <2>1 DEF Groups
    <3>2. P \in SUBSET RowsOf(entries, v) /\ UpTo(RowsOf(entries, v), P)
      BY <2>3 DEF UpTo
    <3> QED
      BY <1>4, <3>1, <3>2, GroupsHold
  <2>5. HoldsAt(v, items, t)
    <3> SUFFICES ASSUME ~ (v.kind = "groups" /\ Cardinality(Later(entries, v, t)) >= View!probeLimit)
                 PROVE  /\ \A k \in Ahead(entries, v, t) : \E y \in items : y.key = k
                        /\ \A e \in RowsOf(entries, v) :
                              e.time = t /\ (\A d \in RowsOf(entries, v) : d.time = t => View!Key(v, d) = View!Key(v, e)) =>
                                  \E y \in items : y.key = View!Key(v, e)
      BY DEF HoldsAt
    <3>1. Later(entries, v, t) \subseteq P /\ ((\E e \in RowsOf(entries, v) : e.time = t) => \E e \in P : e.time = t)
      BY <2>3
    <3>2. \A k \in Ahead(entries, v, t) : \E e \in P : k = View!Key(v, e)
      BY <3>1 DEF Ahead
    <3>3. \A e \in RowsOf(entries, v) :
              e.time = t /\ (\A d \in RowsOf(entries, v) : d.time = t => View!Key(v, d) = View!Key(v, e)) =>
                  \E d \in P : View!Key(v, d) = View!Key(v, e)
      BY <2>3, <3>1 DEF UpTo
    <3> QED
      BY <2>4, <3>2, <3>3
  <2> QED
    BY <2>3, <2>4, <2>5
<1> QED
  BY <1>3, <1>4

\* A sequence whose neighbours come in order is in order.
LEMMA OrderIsWhole ==
  ASSUME NEW n \in Nat, NEW s, \A i \in 1..n : s[i].time \in Int,
         \A i \in 1..(n - 1) : s[i].time >= s[i + 1].time
  PROVE  \A i, j \in 1..n : i <= j => s[i].time >= s[j].time
<1> DEFINE D == {j \in 1..n : \E i \in 1..j : s[i].time < s[j].time}
           R == OpToRel(<, Nat)
<1>1. CASE D = {}
  <2> SUFFICES ASSUME NEW i \in 1..n, NEW j \in 1..n, i <= j PROVE s[i].time >= s[j].time
    OBVIOUS
  <2>1. i \in 1..j /\ s[i].time \in Int /\ s[j].time \in Int
    OBVIOUS
  <2>2. ~ s[i].time < s[j].time
    BY <1>1, <2>1
  <2> QED
    BY <2>1, <2>2
<1>2. CASE D # {}
  <2>0. D \subseteq Nat
    OBVIOUS
  <2>1. D \subseteq Nat /\ IsWellFoundedOn(R, Nat)
    BY <2>0, NatLessThanWellFounded
  <2>2. \A a, b \in Nat : a < b => <<a, b>> \in R
    BY DEF OpToRel
  <2> HIDE DEF R, D
  <2>3. PICK j \in D : \A m \in D : ~ (<<m, j>> \in R)
    BY <1>2, <2>1, WFMin
  <2>4. PICK i \in 1..j : s[i].time < s[j].time
    BY <2>3 DEF D
  <2>5. j \in 1..n
    BY <2>3 DEF D
  <2>6. i # j /\ i \in 1..(j - 1) /\ j - 1 \in 1..(n - 1) /\ j - 1 \in 1..n
    <3>1. s[j].time \in Int
      BY <2>5
    <3>2. i # j
      BY <2>4, <3>1
    <3> QED
      BY <2>4, <2>5, <3>2
  <2>7. ~ (j - 1 \in D)
    <3>1. j - 1 \in Nat /\ j \in Nat /\ j - 1 < j
      BY <2>5, <2>6
    <3> QED
      BY <2>2, <2>3, <3>1
  <2>8. ~ s[i].time < s[j - 1].time
    BY <2>6, <2>7 DEF D
  <2>9. s[j - 1].time >= s[j].time
    <3>1. s[j - 1].time >= s[(j - 1) + 1].time
      BY <2>6
    <3>2. (j - 1) + 1 = j
      BY <2>5
    <3> QED
      BY <3>1, <3>2
  <2>10. i \in 1..n /\ s[i].time \in Int /\ s[j].time \in Int /\ s[j - 1].time \in Int
    BY <2>4, <2>5, <2>6
  <2> QED
    BY <2>4, <2>8, <2>9, <2>10
<1> QED
  BY <1>1, <1>2

\* A sequence of all items is one.
LEMMA SequencesOfAll ==
  ASSUME NEW items, IsFiniteSet(items), NEW s \in View!Bijection(1 .. View!Cardinality(items), items)
  PROVE  /\ s \in Seq(items) /\ Len(s) = Cardinality(items) /\ Len(s) \in Nat
         /\ \A y \in items : \E i \in 1..Len(s) : s[i] = y
         /\ \A i, j \in 1..Len(s) : s[i] = s[j] => i = j
<1> DEFINE n == Cardinality(items)
<1>1. n \in Nat
  BY FS_CardinalityType
<1>2. s \in [1..n -> items] /\ \A i, j \in 1..n : i # j => s[i] # s[j]
  BY ListsCount DEF View!Bijection, View!Injection, View!IsInjective
<1> HIDE DEF n
<1>3. s \in Seq(items) /\ Len(s) = n
  BY <1>1, <1>2
<1>4. s \in Injection(1..n, items)
  BY <1>2 DEF Injection, IsInjective
<1>5. IsFiniteSet(1..n) /\ Cardinality(1..n) = n
  <2>1. Cardinality(1..n) = IF 1 > n THEN 0 ELSE n - 1 + 1
    BY <1>1, FS_Interval
  <2> QED
    BY <1>1, <2>1, FS_Interval
<1>6. s \in Surjection(1..n, items)
  BY <1>4, <1>5, FS_Injection DEF n
<1>7. \A y \in items : \E i \in 1..n : s[i] = y
  BY <1>6 DEF Surjection
<1> QED
  BY <1>1, <1>2, <1>3, <1>7 DEF n

\* What is ahead of x are the items before it.
LEMMA PlaceOf ==
  ASSUME entries \in SUBSET Entries, resolutions = ResolvedBefore, NEW v, Asks(v), v.dir = "desc", View!SortsByTime(v),
               NEW items \in View!Listing(v), NEW s \in View!Orders(v, items), NEW x,
               Stays(entries, v, x), ~ Tied(v, x), ~ Beyond(entries, v, x)
  PROVE  /\ s \in Seq(items) /\ Len(s) \in Nat
         /\ \E p \in 1..Len(s) : s[p].key = x.key /\ p = Cardinality(Ahead(entries, v, x.time)) + 1
<1> DEFINE t == x.time
           rows == RowsOf(entries, v)
<1>1. t \in Int /\ IsFiniteSet(rows) /\ (\A e \in rows : e.time \in Int) /\ rows \subseteq Entries
  <2>1. t \in Int /\ rows \subseteq Entries
    BY DEF Stays, RowsOf
  <2> QED
    BY <2>1, RowsAreFinite
<1>2. Holds(v, items) /\ HoldsAt(v, items, t)
  BY <1>1, ListHolds
<1>3. s \in View!Bijection(1 .. View!Cardinality(items), items) /\ \A i \in 1..(Len(s) - 1) : s[i].time >= s[i + 1].time
  BY DEF View!Orders, View!InOrder
<1>4. /\ s \in Seq(items) /\ Len(s) \in Nat
      /\ \A y \in items : \E i \in 1..Len(s) : s[i] = y
      /\ \A i, j \in 1..Len(s) : s[i] = s[j] => i = j
  BY <1>2, <1>3, SequencesOfAll DEF Holds
<1>5. /\ \A y, z \in items : y.key = z.key => y = z
      /\ \A y \in items : \E e \in rows : View!Key(v, e) = y.key /\ e.time = y.time
      /\ \A y \in items : \A e \in rows : View!Key(v, e) = y.key => e.time <= y.time
  BY <1>2 DEF Holds
<1>6. \A y \in items : y.time \in Int
  BY <1>1, <1>5
<1>7. \A i \in 1..Len(s) : s[i] \in items
  BY <1>4, ElementOfSeq
<1>8. \A i, j \in 1..Len(s) : i <= j => s[i].time >= s[j].time
  BY <1>3, <1>4, <1>6, <1>7, OrderIsWhole
<1>9. PICK e \in rows : View!Key(v, e) = x.key /\ e.time = t
  BY DEF Stays
<1>10. \A d \in rows : d.time = t => View!Key(v, d) = x.key
  BY <1>1 DEF Tied
<1>11. /\ \A k \in Ahead(entries, v, t) : \E y \in items : y.key = k
       /\ \E y \in items : y.key = x.key
  BY <1>2, <1>9, <1>10 DEF HoldsAt, Beyond
<1>12. PICK y \in items : y.key = x.key
  BY <1>11
<1>13. y.time = t
  <2>1. PICK d \in rows : View!Key(v, d) = y.key /\ d.time = y.time
    BY <1>5
  <2>2. d.time <= t
    BY <1>12, <2>1 DEF Stays
  <2>3. e.time <= y.time
    BY <1>5, <1>9, <1>12
  <2> QED
    BY <1>1, <1>6, <1>9, <2>1, <2>2, <2>3
<1>14. PICK p \in 1..Len(s) : s[p] = y
  BY <1>4
<1>22. Len(s) \in Nat /\ p \in Nat /\ 1 <= p /\ p <= Len(s)
  <2>1. Len(s) \in Nat
    BY <1>4
  <2> QED
    BY <2>1
<1>15. \A k \in Ahead(entries, v, t) : \E d \in rows : View!Key(v, d) = k /\ d.time > t
  BY DEF Ahead, Later, Past
<1>16. \A d \in rows : d.time > t => View!Key(v, d) \in Ahead(entries, v, t)
  BY DEF Ahead, Later, Past
<1> HIDE DEF t, rows
<1>17. ASSUME NEW i \in 1..(p - 1)
       PROVE  s[i].key \in Ahead(entries, v, t)
  <2>1. i \in 1..Len(s) /\ i <= p /\ i # p /\ p \in 1..Len(s)
    BY <1>4, <1>14
  <2>2. s[i] \in items /\ s[i].time >= t /\ s[i] # y
    BY <1>4, <1>7, <1>8, <1>13, <1>14, <2>1
  <2>3. s[i].key # x.key
    BY <1>5, <1>12, <2>2
  <2>4. PICK d \in rows : View!Key(v, d) = s[i].key /\ d.time = s[i].time
    BY <1>5, <2>2
  <2>5. d.time # t
    BY <1>10, <2>3, <2>4
  <2>6. d.time > t
    BY <1>1, <2>2, <2>4, <2>5
  <2> QED
    BY <1>16, <2>4, <2>6
<1>18. ASSUME NEW k \in Ahead(entries, v, t)
       PROVE  \E i \in 1..(p - 1) : s[i].key = k
  <2>1. PICK d \in rows : View!Key(v, d) = k /\ d.time > t
    BY <1>15
  <2>2. PICK z \in items : z.key = k
    BY <1>11 DEF t
  <2>3. z.time > t
    <3>1. d.time <= z.time
      BY <1>5, <2>1, <2>2
    <3> QED
      BY <1>1, <1>6, <2>1, <3>1
  <2>4. PICK j \in 1..Len(s) : s[j] = z
    BY <1>4
  <2>5. j < p
    <3>1. CASE p <= j
      <4>1. s[p].time >= s[j].time
        BY <1>8, <1>14, <2>4, <3>1
      <4> QED
        BY <1>1, <1>6, <1>13, <1>14, <2>3, <2>4, <4>1
    <3> QED
      BY <1>4, <3>1
  <2>6. j \in 1..(p - 1)
    BY <1>22, <2>5
  <2> QED
    BY <2>2, <2>4, <2>6
<1> DEFINE f == [i \in 1..(p - 1) |-> s[i].key]
<1>19. f \in Bijection(1..(p - 1), Ahead(entries, v, t))
  <2>1. f \in [1..(p - 1) -> Ahead(entries, v, t)]
    BY <1>17
  <2>2. \A i, j \in 1..(p - 1) : f[i] = f[j] => i = j
    <3> SUFFICES ASSUME NEW i \in 1..(p - 1), NEW j \in 1..(p - 1), f[i] = f[j] PROVE i = j
      OBVIOUS
    <3>1. i \in 1..Len(s) /\ j \in 1..Len(s)
      BY <1>22
    <3>2. s[i].key = s[j].key
      OBVIOUS
    <3>3. s[i] = s[j]
      BY <1>5, <1>7, <3>1, <3>2
    <3> QED
      BY <1>4, <3>1, <3>3
  <2>3. \A k \in Ahead(entries, v, t) : \E i \in 1..(p - 1) : f[i] = k
    BY <1>18
  <2> QED
    BY <2>1, <2>2, <2>3 DEF Bijection, Injection, Surjection, IsInjective
<1> HIDE DEF f
<1>20. Cardinality(Ahead(entries, v, t)) = p - 1
  <2>1. p \in Nat /\ p >= 1
    BY <1>4, <1>14
  <2>2. Cardinality(1..(p - 1)) = IF 1 > p - 1 THEN 0 ELSE (p - 1) - 1 + 1
    BY <2>1, FS_Interval
  <2>3. IsFiniteSet(1..(p - 1)) /\ Cardinality(1..(p - 1)) = p - 1
    BY <2>1, <2>2, FS_Interval
  <2>4. ExistsBijection(1..(p - 1), Ahead(entries, v, t))
    BY <1>19 DEF ExistsBijection
  <2> QED
    BY <2>3, <2>4, FS_Bijection
<1>21. s[p].key = x.key /\ p = Cardinality(Ahead(entries, v, t)) + 1
  BY <1>4, <1>12, <1>14, <1>20
<1> QED
  BY <1>4, <1>14, <1>21 DEF t

\* A screen holds rows of the list, and x, unless it comes later and the screen is full.
Meets(S, v, rows, x) ==
    (/\ v.dir = "desc" /\ View!SortsByTime(v) /\ Stays(S, v, x) /\ ~ Tied(v, x) /\ ~ Beyond(S, v, x)
     /\ Cardinality(Ahead(S, v, x.time)) >= v.offset) =>
        \/ IsOn(rows, x.key)
        \/ Cardinality(Ahead(S, v, x.time)) >= v.offset + PageLimit /\ Len(rows) = PageLimit
LEMMA ScreenHolds ==
  ASSUME entries \in SUBSET Entries, resolutions = ResolvedBefore, NEW v, Asks(v), v.offset \in Nat,
               NEW rows \in View!ReadScreen(v)
  PROVE  /\ \A i \in DOMAIN rows : \E e \in RowsOf(entries, v) : rows[i].ids = {e.id}
         /\ \A x : Meets(entries, v, rows, x)
<1>1. PICK items \in View!Listing(v) : \E s \in View!Orders(v, items) : rows = View!Screen(v, s)
  BY DEF View!ReadScreen
<1>2. PICK s \in View!Orders(v, items) : rows = View!Screen(v, s)
  BY <1>1
<1>3. Holds(v, items)
  <2>1. 0 \in Int
    OBVIOUS
  <2> QED
    BY <2>1, ListHolds
<1>4. s \in View!Bijection(1 .. View!Cardinality(items), items)
  BY DEF View!Orders
<1>5. s \in Seq(items) /\ Len(s) \in Nat
  BY <1>3, <1>4, SequencesOfAll DEF Holds
<1>6. PageLimit \in Nat /\ PageLimit >= 1
  <2>1. PageLimit \in Nat \ {0}
    BY FormsAssumption DEF View!ViewsAssumption
  <2> QED
    BY <2>1
<1> DEFINE o == v.offset
           n == Len(s)
           m == View!Min({o + PageLimit, n})
<1>7. o \in Nat /\ n \in Nat /\ m \in Nat /\ m <= n /\ m <= o + PageLimit /\ (n >= o + PageLimit => m = o + PageLimit)
      /\ (n <= o + PageLimit => m = n)
  <2>1. PICK a \in Nat : a = o + PageLimit
    BY <1>6
  <2>2. \E x \in {a, n} : \A y \in {a, n} : x <= y
    <3>1. CASE a <= n
      BY <1>5, <2>1, <3>1
    <3>2. CASE n <= a
      BY <1>5, <2>1, <3>2
    <3> QED
      BY <1>5, <2>1, <3>1, <3>2
  <2>3. View!Min({a, n}) \in {a, n} /\ View!Min({a, n}) <= n /\ View!Min({a, n}) <= a
    BY <2>2 DEF View!Min
  <2> QED
    BY <1>5, <2>1, <2>3
<1>8. rows = SubSeq(s, o + 1, m)
  BY <1>2 DEF View!Screen
<1> HIDE DEF o, n, m
<1>9. \A i \in (o + 1)..m : s[i] \in items
  <2> SUFFICES ASSUME NEW i \in (o + 1)..m PROVE s[i] \in items
    OBVIOUS
  <2>1. i \in 1..Len(s)
    BY <1>7 DEF n
  <2> QED
    BY <1>5, <2>1, ElementOfSeq
<1>10. o + 1 \in Int /\ m \in Int
  BY <1>7
<1>11. /\ rows \in Seq(items) /\ Len(rows) = IF o + 1 <= m THEN m - (o + 1) + 1 ELSE 0
       /\ \A i \in 1..(m - (o + 1) + 1) : rows[i] = s[(o + 1) + i - 1]
  BY <1>8, <1>9, <1>10, SubSeqProperties
<1>12. \A i \in DOMAIN rows : rows[i] \in items
  BY <1>11, LenProperties, ElementOfSeq
<1>13. \A i \in DOMAIN rows : \E e \in RowsOf(entries, v) : rows[i].ids = {e.id}
  BY <1>3, <1>12 DEF Holds
<1>14. ASSUME NEW x, v.dir = "desc", View!SortsByTime(v), Stays(entries, v, x), ~ Tied(v, x), ~ Beyond(entries, v, x),
              Cardinality(Ahead(entries, v, x.time)) >= o
       PROVE  \/ IsOn(rows, x.key)
              \/ Cardinality(Ahead(entries, v, x.time)) >= o + PageLimit /\ Len(rows) = PageLimit
  <2>1. PICK p \in 1..Len(s) : s[p].key = x.key /\ p = Cardinality(Ahead(entries, v, x.time)) + 1
    BY <1>14, PlaceOf
  <2>2. PICK a \in Nat : a = Cardinality(Ahead(entries, v, x.time))
    BY RowsAreFinite
  <2>3. p = a + 1 /\ a >= o /\ p <= n
    BY <1>7, <1>14, <2>1, <2>2 DEF n
  <2>4. CASE a < o + PageLimit
    <3>1. p <= m /\ o + 1 <= m
      BY <1>6, <1>7, <2>2, <2>3, <2>4
    <3>2. p - o \in 1..(m - (o + 1) + 1) /\ (o + 1) + (p - o) - 1 = p
      BY <1>7, <2>2, <2>3, <3>1
    <3>3. rows[p - o] = s[p]
      BY <1>11, <3>2
    <3>4. p - o \in DOMAIN rows
      <4>1. DOMAIN rows = 1..Len(rows)
        BY <1>11, LenProperties
      <4> QED
        BY <1>11, <3>1, <3>2, <4>1
    <3> QED
      BY <2>1, <3>3, <3>4 DEF IsOn
  <2>5. CASE a >= o + PageLimit
    <3>1. m = o + PageLimit /\ o + 1 <= m
      BY <1>6, <1>7, <2>2, <2>3, <2>5
    <3>2. m - (o + 1) + 1 = PageLimit
      BY <1>6, <1>7, <3>1
    <3> QED
      BY <1>11, <2>2, <2>5, <3>1, <3>2
  <2> QED
    BY <1>6, <1>7, <2>2, <2>4, <2>5
<1>15. ASSUME NEW x
       PROVE  Meets(entries, v, rows, x)
  BY <1>14 DEF Meets, o
<1> QED
  BY <1>13, <1>15

-----------------------------------------------------------------------------
ViewFields == {"kind", "sort", "dir", "resolved", "service", "bad", "at", "offset", "msg", "rows", "total", "known"}
\* Rows of errors are marked by what was resolved.
RowsFound(v, rows) ==
    \A i \in DOMAIN rows : \E e \in Entries :
        rows[i].ids = {e.id} /\ (v.resolved = "0" => e.id \notin ResolvedBefore)
RowsMarked(v) ==
    v.kind \in View!Errors => (v.resolved = "" => v.known = ResolvedBefore) /\ RowsFound(v, v.rows)
ViewShape(v) == DOMAIN v = ViewFields /\ v.offset \in Nat /\ Asks(v) /\ RowsMarked(v)
\* What was listed was shown, changed, shares its time, or is awaited.
WalkHolds(S, v, k) ==
    ~ k.broken /\ v.dir = "desc" /\ View!SortsByTime(v) =>
        \A x \in k.began : \/ x.key \in k.moved \/ Tied(v, x) \/ \E s \in k.seen : s.key = x.key
                           \/ Awaited(S, v, x)
WalkFields == {"began", "seen", "moved", "broken"}
WalkInv ==
    /\ entries \in SUBSET Entries /\ resolutions = ResolvedBefore /\ DOMAIN walk = WalkFields /\ viewFaults \in Nat
    /\ view.at \in {"idle", "count", "rows", "details", "shown"}
    /\ view.at # "idle" => ViewShape(view) /\ WalkHolds(entries, view, walk)
    /\ view.at = "idle" => walk.began = {}

\* Two screens of one list.
Alike(v, w) ==
    w.kind = v.kind /\ w.sort = v.sort /\ w.dir = v.dir /\ w.resolved = v.resolved /\ w.service = v.service
LEMMA AlikeHolds ==
  ASSUME NEW v, NEW w, Alike(v, w)
  PROVE  /\ View!SortsByTime(w) <=> View!SortsByTime(v)
         /\ \A S : RowsOf(S, w) = RowsOf(S, v)
         /\ \A S, t : Later(S, w, t) = Later(S, v, t) /\ Ahead(S, w, t) = Ahead(S, v, t)
         /\ \A x : Tied(w, x) <=> Tied(v, x)
         /\ \A S, x : (Stays(S, w, x) <=> Stays(S, v, x)) /\ (Beyond(S, w, x) <=> Beyond(S, v, x))
<1>1. /\ View!SortsByTime(w) <=> View!SortsByTime(v)
      /\ \A e : Fits(w, e) <=> Fits(v, e)
      /\ \A e : View!Key(w, e) = View!Key(v, e)
  BY DEF Alike, View!SortsByTime, Fits, View!Key
<1>2. \A S : RowsOf(S, w) = RowsOf(S, v)
  BY <1>1 DEF RowsOf
<1>3. \A S, t : Later(S, w, t) = Later(S, v, t)
  BY <1>2 DEF Later
<1>4. \A S, t : Ahead(S, w, t) = Ahead(S, v, t)
  BY <1>1, <1>3 DEF Ahead
<1>5. \A x : Tied(w, x) <=> Tied(v, x)
  BY <1>1 DEF Tied
<1>6. \A S, x : (Stays(S, w, x) <=> Stays(S, v, x)) /\ (Beyond(S, w, x) <=> Beyond(S, v, x))
  BY <1>1, <1>2, <1>3 DEF Stays, Beyond, Alike
<1> QED
  BY <1>1, <1>2, <1>3, <1>4, <1>5, <1>6

\* A step that leaves the rows goes on with the walk.
GoesOn(S, v, w, seen, x) ==
    Awaited(S, v, x) /\ ~ Tied(v, x) /\ ~ (\E s \in seen : s.key = x.key) => Awaited(S, w, x)
LEMMA WalkGoesOn ==
  ASSUME WalkInv, view.at # "idle", NEW w, view' = w, entries' = entries, resolutions' = resolutions,
         Alike(view, w), w.at \in {"count", "rows", "details", "shown"},
         DOMAIN w = ViewFields, w.offset \in Nat, RowsMarked(w), DOMAIN walk' = WalkFields, walk'.began = walk.began,
         walk'.moved = walk.moved, walk.seen \subseteq walk'.seen, walk.broken => walk'.broken,
         viewFaults' \in Nat,
         ~ walk'.broken /\ view.dir = "desc" /\ View!SortsByTime(view) =>
             \A x : GoesOn(entries, view, w, walk'.seen, x)
  PROVE  WalkInv'
<1>1. ViewShape(view) /\ WalkHolds(entries, view, walk) /\ entries \in SUBSET Entries /\ resolutions = ResolvedBefore
  BY DEF WalkInv
<1>2. (View!SortsByTime(w) <=> View!SortsByTime(view)) /\ (\A x : Tied(w, x) <=> Tied(view, x)) /\ w.dir = view.dir
  BY AlikeHolds DEF Alike
<1>3. ViewShape(w)
  BY <1>1 DEF ViewShape, Asks, Alike
<1>4. WalkHolds(entries, w, walk')
  <2> SUFFICES ASSUME ~ walk'.broken, w.dir = "desc", View!SortsByTime(w), NEW x \in walk.began
               PROVE  \/ x.key \in walk'.moved \/ Tied(w, x) \/ \E s \in walk'.seen : s.key = x.key
                      \/ Awaited(entries, w, x)
    BY DEF WalkHolds
  <2>1. ~ walk.broken /\ view.dir = "desc" /\ View!SortsByTime(view)
    BY <1>2
  <2>2. \/ x.key \in walk.moved \/ Tied(view, x) \/ \E s \in walk.seen : s.key = x.key
        \/ Awaited(entries, view, x)
    BY <1>1, <2>1 DEF WalkHolds
  <2> QED
    BY <1>2, <2>1, <2>2 DEF GoesOn
<1> QED
  BY <1>1, <1>3, <1>4 DEF WalkInv

\* The first screen is asked for.
LEMMA WalkBegins ==
  ASSUME WalkInv, View!Ask
  PROVE  WalkInv'
<1> DEFINE AskedFor(r) == [kind |-> r.kind, sort |-> r.sort, dir |-> r.dir, resolved |-> r.resolved,
                           service |-> r.service, bad |-> r.bad, at |-> "count", offset |-> 0,
                           msg |-> IF r.bad THEN "filter" ELSE "", rows |-> <<>>, total |-> 0, known |-> {}]
<1>1. PICK r \in Screens :
        /\ view' = IF r.bad /\ r.kind \in View!Outspoken THEN [AskedFor(r) EXCEPT !.at = "shown"]
                   ELSE [AskedFor(r) EXCEPT !.known = IF r.resolved = "" THEN resolutions ELSE {}]
        /\ walk' = [began |-> UNION View!Listing(AskedFor(r)), seen |-> {}, moved |-> {}, broken |-> r.bad]
  BY DEF View!Ask
<1>2. entries' = entries /\ resolutions' = resolutions /\ entries \in SUBSET Entries /\ resolutions = ResolvedBefore
  BY DEF View!Ask, View!env, WalkInv
<1>11. viewFaults' \in Nat
  BY DEF View!Ask, View!env, WalkInv
<1>3. r.resolved \in {"", "0", "1"} /\ r.bad \in BOOLEAN
  BY FormsAssumption DEF View!ViewsAssumption
<1> DEFINE a == AskedFor(r)
<1>4. /\ DOMAIN a = ViewFields /\ a.at = "count" /\ a.offset = 0 /\ a.rows = <<>> /\ a.known = {}
      /\ a.kind = r.kind /\ a.sort = r.sort /\ a.dir = r.dir /\ a.resolved = r.resolved /\ a.service = r.service
  BY DEF ViewFields
<1>5. /\ walk'.began = UNION View!Listing(a) /\ (walk'.broken <=> r.bad) /\ DOMAIN walk' = WalkFields
  BY <1>1 DEF WalkFields
<1>6. view' = IF r.bad /\ r.kind \in View!Outspoken THEN [a EXCEPT !.at = "shown"]
              ELSE [a EXCEPT !.known = IF r.resolved = "" THEN resolutions ELSE {}]
  BY <1>1
<1> HIDE DEF a
<1>7. /\ DOMAIN view' = ViewFields /\ view'.offset = 0 /\ view'.rows = <<>> /\ Alike(a, view')
      /\ view'.resolved = r.resolved /\ view'.kind = r.kind
  BY <1>4, <1>6 DEF Alike, ViewFields
<1>8. /\ view'.at \in {"count", "shown"} /\ (~ r.bad => view'.at = "count")
      /\ r.kind \in View!Errors /\ r.resolved = "" => view'.known = ResolvedBefore
  <2>1. CASE r.bad /\ r.kind \in View!Outspoken
    BY <1>4, <1>6, <2>1 DEF ViewFields, View!Outspoken, View!Errors
  <2>2. CASE ~ (r.bad /\ r.kind \in View!Outspoken)
    BY <1>2, <1>4, <1>6, <2>2 DEF ViewFields
  <2> QED
    BY <2>1, <2>2
<1>9. ViewShape(view')
  <2>1. RowsFound(view', view'.rows)
    BY <1>7 DEF RowsFound
  <2>2. RowsMarked(view')
    BY <1>7, <1>8, <2>1 DEF RowsMarked
  <2>3. Asks(view')
    BY <1>3, <1>7 DEF Asks
  <2> QED
    BY <1>7, <2>2, <2>3 DEF ViewShape
<1>10. WalkHolds(entries, view', walk')
  <2> SUFFICES ASSUME ~ walk'.broken, NEW x \in walk'.began PROVE Awaited(entries, view', x)
    BY DEF WalkHolds
  <2>1. PICK items \in View!Listing(a) : x \in items
    BY <1>5
  <2>2. Holds(a, items)
    <3>1. Asks(a)
      BY <1>3, <1>4 DEF Asks
    <3>2. 0 \in Int
      OBVIOUS
    <3> QED
      BY <1>2, <2>1, <3>1, <3>2, ListHolds
  <2>3. \A e \in RowsOf(entries, a) : e.time \in Int
    BY <1>2, RowsAreFinite
  <2>4. Stays(entries, a, x)
    BY <2>1, <2>2, <2>3 DEF Stays, Holds
  <2>5. Stays(entries, view', x)
    BY <1>7, <2>4, AlikeHolds
  <2>6. Cardinality(Ahead(entries, view', x.time)) \in Nat
    BY <1>2, RowsAreFinite
  <2>7. view'.at = "count"
    BY <1>5, <1>8
  <2>8. Cardinality(Ahead(entries, view', x.time)) >= view'.offset
    BY <1>7, <2>6
  <2> QED
    BY <2>5, <2>7, <2>8 DEF Awaited, Comes
<1> QED
  BY <1>2, <1>5, <1>8, <1>9, <1>10, <1>11 DEF WalkInv

\* The next screen.
LEMMA WalkAsks ==
  ASSUME WalkInv, View!AskNext
  PROVE  WalkInv'
<1> DEFINE w == view'
<1>1. /\ view.at = "shown" /\ Len(view.rows) = PageLimit /\ walk' = walk /\ entries' = entries /\ resolutions' = resolutions
      /\ w = [view EXCEPT !.at = "count", !.offset = @ + PageLimit, !.rows = <<>>,
                          !.known = IF view.resolved = "" THEN resolutions ELSE {}]
  BY DEF View!AskNext, View!env
<1>7. viewFaults' \in Nat
  BY DEF View!AskNext, WalkInv
<1>2. ViewShape(view) /\ resolutions = ResolvedBefore /\ DOMAIN walk = WalkFields
  BY <1>1 DEF WalkInv
<1>3. PageLimit \in Nat
  BY FormsAssumption DEF View!ViewsAssumption
<1>4. /\ Alike(view, w) /\ w.at = "count" /\ w.offset = view.offset + PageLimit /\ w.rows = <<>>
      /\ w.known = (IF view.resolved = "" THEN resolutions ELSE {}) /\ DOMAIN w = ViewFields
  BY <1>1, <1>2 DEF Alike, ViewShape, ViewFields
<1> HIDE DEF w
<1>5. w.offset \in Nat /\ RowsMarked(w)
  <2>1. RowsFound(w, w.rows)
    <3>1. RowsFound(w, <<>>)
      BY DEF RowsFound
    <3>2. w.rows = <<>>
      BY <1>4
    <3> QED
      BY <3>1, <3>2
  <2>2. w.offset \in Nat
    <3>1. w.offset = view.offset + PageLimit
      BY <1>4
    <3>2. view.offset \in Nat
      BY <1>2 DEF ViewShape
    <3> QED
      BY <1>3, <3>1, <3>2
  <2> QED
    BY <1>2, <1>4, <2>1, <2>2 DEF RowsMarked, Alike
<1>6. ASSUME NEW x
      PROVE  GoesOn(entries, view, w, walk'.seen, x)
  <2> SUFFICES ASSUME Awaited(entries, view, x) PROVE Awaited(entries, w, x)
    BY DEF GoesOn
  <2>1. Stays(entries, w, x) /\ (Beyond(entries, w, x) <=> Beyond(entries, view, x))
        /\ Ahead(entries, w, x.time) = Ahead(entries, view, x.time)
    <3>1. Alike(view, w) /\ Stays(entries, view, x)
      BY <1>4 DEF Awaited
    <3> QED
      BY <3>1, AlikeHolds
  <2> QED
    BY <1>1, <1>4, <2>1 DEF Awaited, Comes
<1> QED
  BY <1>1, <1>2, <1>4, <1>5, <1>6, <1>7, WalkGoesOn DEF w

\* A step of the request that is shown goes on to a point, or it fails.
StepTo(at, rows) ==
    \/ /\ \E n : view' = [view EXCEPT !.at = at, !.rows = rows, !.total = n]
       /\ viewFaults' = viewFaults
    \/ /\ \/ view' = View!Shown(view, "query", <<>>)
          \/ view' = [view EXCEPT !.at = at]
       /\ viewFaults' = viewFaults + 1
LEMMA WalkSteps ==
  ASSUME WalkInv, view.at # "idle", NEW at, at \in {"rows", "details", "shown"}, NEW rows, StepTo(at, rows),
         entries' = entries, resolutions' = resolutions,
         view.kind \in View!Errors => RowsFound(view, rows), DOMAIN walk' = WalkFields, walk'.began = walk.began, walk'.moved = walk.moved, walk.seen \subseteq walk'.seen,
         walk.broken \/ viewFaults' # viewFaults => walk'.broken,
         ~ walk'.broken /\ view'.at = at /\ view'.rows = rows /\ view'.offset = view.offset /\ Alike(view, view')
             /\ view.dir = "desc" /\ View!SortsByTime(view)
             => \A x : GoesOn(entries, view, view', walk'.seen, x)
  PROVE  WalkInv'
<1> DEFINE w == view'
<1>1. ViewShape(view) /\ entries \in SUBSET Entries /\ viewFaults \in Nat
  BY DEF WalkInv
<1>2. \/ w.at = at /\ w.rows = rows /\ viewFaults' = viewFaults
      \/ w.at \in {at, "shown"} /\ w.rows \in {view.rows, <<>>} /\ viewFaults' = viewFaults + 1
  <2>1. CASE \E n : w = [view EXCEPT !.at = at, !.rows = rows, !.total = n] /\ viewFaults' = viewFaults
    BY <1>1, <2>1 DEF ViewShape, ViewFields
  <2>2. CASE w = View!Shown(view, "query", <<>>) /\ viewFaults' = viewFaults + 1
    BY <1>1, <2>2 DEF View!Shown, ViewShape, ViewFields
  <2>3. CASE w = [view EXCEPT !.at = at] /\ viewFaults' = viewFaults + 1
    BY <1>1, <2>3 DEF ViewShape, ViewFields
  <2> QED
    BY <2>1, <2>2, <2>3 DEF StepTo
<1>3. Alike(view, w) /\ DOMAIN w = ViewFields /\ w.offset = view.offset /\ w.known = view.known
  <2>1. CASE \E n : w = [view EXCEPT !.at = at, !.rows = rows, !.total = n]
    BY <1>1, <2>1 DEF Alike, ViewShape, ViewFields
  <2>2. CASE w = View!Shown(view, "query", <<>>)
    BY <1>1, <2>2 DEF View!Shown, Alike, ViewShape, ViewFields
  <2>3. CASE w = [view EXCEPT !.at = at]
    BY <1>1, <2>3 DEF Alike, ViewShape, ViewFields
  <2> QED
    BY <2>1, <2>2, <2>3 DEF StepTo
<1> HIDE DEF w
<1>4. viewFaults' \in Nat /\ (walk.broken => walk'.broken) /\ (viewFaults' = viewFaults + 1 => walk'.broken)
  BY <1>1, <1>2
<1>5. w.rows \in {rows, view.rows, <<>>} /\ w.at \in {"rows", "details", "shown"}
  BY <1>2
<1>6. RowsMarked(w)
  <2>1. view.kind \in View!Errors => (view.resolved = "" => view.known = ResolvedBefore) /\ RowsFound(view, view.rows)
    BY <1>1 DEF ViewShape, RowsMarked
  <2>2. RowsFound(view, <<>>)
    BY DEF RowsFound
  <2>3. \A s : RowsFound(w, s) <=> RowsFound(view, s)
    BY <1>3 DEF RowsFound, Alike
  <2>4. CASE w.rows = rows
    BY <1>3, <2>1, <2>3, <2>4 DEF RowsMarked, Alike
  <2>5. CASE w.rows = view.rows
    BY <1>3, <2>1, <2>3, <2>5 DEF RowsMarked, Alike
  <2>6. CASE w.rows = <<>>
    BY <1>3, <2>1, <2>2, <2>3, <2>6 DEF RowsMarked, Alike
  <2> QED
    BY <1>5, <2>4, <2>5, <2>6
<1>7. ASSUME ~ walk'.broken, view.dir = "desc", View!SortsByTime(view), NEW x
      PROVE  GoesOn(entries, view, w, walk'.seen, x)
  <2>1. w.at = at /\ w.rows = rows
    BY <1>2, <1>4, <1>7
  <2> QED
    BY <1>3, <1>7, <2>1 DEF w
<1>8. w.offset \in Nat
  BY <1>1, <1>3 DEF ViewShape
<1> QED
  BY <1>3, <1>4, <1>5, <1>6, <1>7, <1>8, WalkGoesOn DEF w

\* The rows are counted.
LEMMA WalkCounts ==
  ASSUME WalkInv, View!Count
  PROVE  WalkInv'
<1>1. /\ view.at = "count" /\ entries' = entries /\ resolutions' = resolutions
      /\ walk' = [walk EXCEPT !.broken = @ \/ viewFaults' # viewFaults]
  BY DEF View!Count, View!env
<1>2. ViewShape(view) /\ DOMAIN walk = WalkFields
  BY <1>1 DEF WalkInv
<1>3. /\ DOMAIN walk' = WalkFields /\ walk'.began = walk.began /\ walk'.moved = walk.moved /\ walk'.seen = walk.seen
      /\ walk'.broken <=> walk.broken \/ viewFaults' # viewFaults
  BY <1>1, <1>2 DEF WalkFields
<1>4. StepTo("rows", view.rows)
  <2>1. CASE \E items \in View!Listing(view) : view' = [view EXCEPT !.at = "rows", !.total = Cardinality(items)] /\ View!Works
    <3>1. PICK n : view' = [view EXCEPT !.at = "rows", !.total = n]
      BY <2>1
    <3>2. view' = [view EXCEPT !.at = "rows", !.rows = view.rows, !.total = n]
      BY <1>2, <3>1 DEF ViewShape, ViewFields
    <3> QED
      BY <2>1, <3>2 DEF StepTo, View!Works
  <2>2. CASE /\ view' = IF view.kind \in View!Outspoken THEN View!Shown(view, "query", <<>>) ELSE [view EXCEPT !.at = "rows"]
             /\ View!Fails
    BY <2>2 DEF StepTo, View!Fails
  <2> QED
    BY <2>1, <2>2, ListsCount DEF View!Count
<1>5. view.kind \in View!Errors => RowsFound(view, view.rows)
  BY <1>2 DEF ViewShape, RowsMarked
<1>6. ASSUME view'.at = "rows", view'.offset = view.offset, Alike(view, view'), NEW x
      PROVE  GoesOn(entries, view, view', walk'.seen, x)
  <2> SUFFICES ASSUME Awaited(entries, view, x) PROVE Awaited(entries, view', x)
    BY DEF GoesOn
  <2>1. Stays(entries, view', x) /\ (Beyond(entries, view', x) <=> Beyond(entries, view, x))
        /\ Ahead(entries, view', x.time) = Ahead(entries, view, x.time)
    BY <1>6, AlikeHolds DEF Awaited
  <2> QED
    BY <1>1, <1>6, <2>1 DEF Awaited, Comes
<1> QED
  BY <1>1, <1>3, <1>4, <1>5, <1>6, WalkSteps

\* The screen is read.
LEMMA WalkReads ==
  ASSUME WalkInv, View!ReadRows
  PROVE  WalkInv'
<1>1. /\ view.at = "rows" /\ entries' = entries /\ resolutions' = resolutions
      /\ walk' = [walk EXCEPT !.broken = @ \/ viewFaults' # viewFaults]
  BY DEF View!ReadRows, View!env
<1>2. ViewShape(view) /\ DOMAIN walk = WalkFields /\ entries \in SUBSET Entries /\ resolutions = ResolvedBefore
      /\ viewFaults \in Nat
  BY <1>1 DEF WalkInv
<1>3. /\ DOMAIN walk' = WalkFields /\ walk'.began = walk.began /\ walk'.moved = walk.moved /\ walk'.seen = walk.seen
      /\ walk'.broken <=> walk.broken \/ viewFaults' # viewFaults
  BY <1>1, <1>2 DEF WalkFields
<1>4. ASSUME NEW rows \in View!ReadScreen(view), view' = [view EXCEPT !.at = "details", !.rows = rows], View!Works
      PROVE  WalkInv'
  <2>1. /\ \A i \in DOMAIN rows : \E e \in RowsOf(entries, view) : rows[i].ids = {e.id}
        /\ \A x : Meets(entries, view, rows, x)
    BY <1>2, ScreenHolds DEF ViewShape
  <2>2. StepTo("details", rows)
    <3>1. view' = [view EXCEPT !.at = "details", !.rows = rows, !.total = view.total]
      BY <1>2, <1>4 DEF ViewShape, ViewFields
    <3> QED
      BY <1>4, <3>1 DEF StepTo, View!Works
  <2>3. view.kind \in View!Errors => RowsFound(view, rows)
    <3>1. view.kind \in View!Errors => \A e \in RowsOf(entries, view) : e \in Entries /\ (view.resolved = "0" => e.id \notin ResolvedBefore)
      BY <1>2 DEF RowsOf, Fits
    <3> QED
      BY <2>1, <3>1 DEF RowsFound
  <2>4. ASSUME view'.at = "details", view'.rows = rows, view'.offset = view.offset, Alike(view, view'),
               view.dir = "desc", View!SortsByTime(view), NEW x
        PROVE  GoesOn(entries, view, view', walk'.seen, x)
    <3> SUFFICES ASSUME Awaited(entries, view, x), ~ Tied(view, x) PROVE Awaited(entries, view', x)
      BY DEF GoesOn
    <3>1. Stays(entries, view', x) /\ (Beyond(entries, view', x) <=> Beyond(entries, view, x))
          /\ Ahead(entries, view', x.time) = Ahead(entries, view, x.time)
      BY <2>4, AlikeHolds DEF Awaited
    <3>2. Meets(entries, view, rows, x)
      BY <2>1
    <3>3. CASE Beyond(entries, view, x)
      BY <3>1, <3>3 DEF Awaited
    <3>4. CASE ~ Beyond(entries, view, x)
      <4>1. Cardinality(Ahead(entries, view, x.time)) >= view.offset /\ Stays(entries, view, x)
        BY <1>1, <3>4 DEF Awaited, Comes
      <4>2. \/ IsOn(rows, x.key)
            \/ Cardinality(Ahead(entries, view, x.time)) >= view.offset + PageLimit /\ Len(rows) = PageLimit
        BY <2>4, <3>2, <3>4, <4>1 DEF Meets
      <4> QED
        BY <2>4, <3>1, <4>2 DEF Awaited, Comes
    <3> QED
      BY <3>3, <3>4
  <2> QED
    BY <1>1, <1>3, <2>2, <2>3, <2>4, WalkSteps
<1>5. CASE /\ view' = IF view.kind \in View!Outspoken THEN View!Shown(view, "query", <<>>) ELSE [view EXCEPT !.at = "details"]
           /\ View!Fails
  <2>1. StepTo("details", <<>>)
    BY <1>5 DEF StepTo, View!Fails
  <2>2. RowsFound(view, <<>>)
    BY DEF RowsFound
  <2>3. walk'.broken
    <3>1. viewFaults' = viewFaults + 1
      BY <1>5 DEF View!Fails
    <3> QED
      BY <1>2, <1>3, <3>1
  <2> QED
    BY <1>1, <1>3, <2>1, <2>2, <2>3, WalkSteps
<1> QED
  BY <1>4, <1>5 DEF View!ReadRows

\* The screen is completed, and shown.
LEMMA WalkShows ==
  ASSUME WalkInv, View!ReadDetails
  PROVE  WalkInv'
<1>1. /\ view.at = "details" /\ entries' = entries /\ resolutions' = resolutions
      /\ walk' = [walk EXCEPT !.seen = @ \cup View!Range(view'.rows),
                              !.broken = @ \/ viewFaults' # viewFaults \/ view'.rows # view.rows]
  BY DEF View!ReadDetails, View!env
<1>2. ViewShape(view) /\ DOMAIN walk = WalkFields /\ viewFaults \in Nat
  BY <1>1 DEF WalkInv
<1>3. /\ DOMAIN walk' = WalkFields /\ walk'.began = walk.began /\ walk'.moved = walk.moved
      /\ walk'.seen = walk.seen \cup View!Range(view'.rows)
      /\ walk'.broken <=> walk.broken \/ viewFaults' # viewFaults \/ view'.rows # view.rows
  BY <1>1, <1>2 DEF WalkFields
<1>4. ASSUME NEW rows, view.kind # "aitraces" => rows = view.rows, view' = [view EXCEPT !.at = "shown", !.rows = rows], View!Works
      PROVE  WalkInv'
  <2>1. StepTo("shown", rows)
    <3>1. view' = [view EXCEPT !.at = "shown", !.rows = rows, !.total = view.total]
      BY <1>2, <1>4 DEF ViewShape, ViewFields
    <3> QED
      BY <1>4, <3>1 DEF StepTo, View!Works
  <2>2. view.kind \in View!Errors => RowsFound(view, rows)
    BY <1>2, <1>4 DEF ViewShape, RowsMarked, View!Errors
  <2>3. ASSUME ~ walk'.broken, view'.at = "shown", view'.rows = rows, view'.offset = view.offset, Alike(view, view'), NEW x
        PROVE  GoesOn(entries, view, view', walk'.seen, x)
    <3> SUFFICES ASSUME Awaited(entries, view, x), ~ (\E s \in walk'.seen : s.key = x.key)
                 PROVE  Awaited(entries, view', x)
      BY DEF GoesOn
    <3>1. Stays(entries, view', x) /\ (Beyond(entries, view', x) <=> Beyond(entries, view, x))
          /\ Ahead(entries, view', x.time) = Ahead(entries, view, x.time)
      BY <2>3, AlikeHolds DEF Awaited
    <3>2. view'.rows = view.rows
      BY <1>3, <2>3
    <3>3. ~ IsOn(view.rows, x.key)
      BY <1>3, <3>2 DEF IsOn, View!Range
    <3> QED
      BY <1>1, <2>3, <3>1, <3>2, <3>3 DEF Awaited, Comes
  <2> QED
    BY <1>1, <1>3, <2>1, <2>2, <2>3, WalkSteps
<1>5. CASE view' = View!Shown(view, "query", <<>>) /\ View!Fails
  <2>1. StepTo("shown", <<>>)
    BY <1>5 DEF StepTo, View!Fails
  <2>2. RowsFound(view, <<>>)
    BY DEF RowsFound
  <2>3. walk'.broken
    <3>1. viewFaults' = viewFaults + 1
      BY <1>5 DEF View!Fails
    <3> QED
      BY <1>2, <1>3, <3>1
  <2> QED
    BY <1>1, <1>3, <2>1, <2>2, <2>3, WalkSteps
<1> QED
  BY <1>4, <1>5 DEF View!ReadDetails

\* Rows come and go: what changes has moved, and the rest stays where it is.
Survives(S, T, v, moved, x) == Awaited(S, v, x) => x.key \in moved \/ Awaited(T, v, x)
LEMMA MoreAhead ==
  ASSUME NEW S \in SUBSET Entries, NEW T \in SUBSET Entries, NEW v, NEW x, Stays(T, v, x), v.offset \in Nat,
         Later(S, v, x.time) \subseteq Later(T, v, x.time), Awaited(S, v, x)
  PROVE  Awaited(T, v, x)
<1> DEFINE t == x.time
           ls == Later(S, v, t)
           lt == Later(T, v, t)
           as == Ahead(S, v, t)
           at == Ahead(T, v, t)
<1>1. /\ IsFiniteSet(lt) /\ Cardinality(lt) \in Nat /\ Cardinality(ls) \in Nat
      /\ IsFiniteSet(at) /\ Cardinality(at) \in Nat /\ Cardinality(as) \in Nat
  BY RowsAreFinite
<1>2. ls \in SUBSET lt /\ as \in SUBSET at
  BY DEF Ahead
<1> HIDE DEF ls, lt, as, at
<1>3. Cardinality(ls) <= Cardinality(lt) /\ Cardinality(as) <= Cardinality(at)
  BY <1>1, <1>2, FS_Subset
<1>4. View!probeLimit \in Nat /\ PageLimit \in Nat /\ v.offset \in Nat
  BY ProbeIsPositive, FormsAssumption DEF View!ViewsAssumption
<1>5. Beyond(S, v, x) => Beyond(T, v, x)
  <2>1. Cardinality(ls) >= View!probeLimit => Cardinality(lt) >= View!probeLimit
    BY <1>1, <1>3, <1>4
  <2> QED
    BY <2>1 DEF Beyond, ls, lt, t
<1>6. Comes(S, v, x) => Comes(T, v, x)
  <2>1. /\ Cardinality(as) >= v.offset => Cardinality(at) >= v.offset
        /\ Cardinality(as) >= v.offset + PageLimit => Cardinality(at) >= v.offset + PageLimit
    <3> DEFINE m == Cardinality(as)
               n == Cardinality(at)
               o == v.offset
    <3>1. m \in Nat /\ n \in Nat /\ m <= n /\ o \in Nat /\ PageLimit \in Nat
      BY <1>1, <1>3, <1>4
    <3> HIDE DEF m, n, o
    <3>2. (m >= o => n >= o) /\ (m >= o + PageLimit => n >= o + PageLimit)
      BY <3>1
    <3> QED
      BY <3>2 DEF m, n, o
  <2> QED
    BY <2>1 DEF Comes, as, at, t
<1> QED
  BY <1>5, <1>6 DEF Awaited

LEMMA RowsChange ==
  ASSUME WalkInv, view' = view, resolutions' = resolutions, viewFaults' = viewFaults, entries' \in SUBSET Entries,
         DOMAIN walk' = WalkFields, walk'.began = walk.began, walk'.seen = walk.seen, walk'.broken = walk.broken,
         walk.moved \subseteq walk'.moved,
         view.offset \in Nat => \A x : Survives(entries, entries', view, walk'.moved, x)
  PROVE  WalkInv'
<1>1. CASE view.at = "idle"
  BY <1>1 DEF WalkInv
<1>2. CASE view.at # "idle"
  <2>1. ViewShape(view) /\ WalkHolds(entries, view, walk)
    BY <1>2 DEF WalkInv
  <2>2. \A x : Survives(entries, entries', view, walk'.moved, x)
    BY <2>1 DEF ViewShape
  <2>3. WalkHolds(entries', view, walk')
    <3> SUFFICES ASSUME ~ walk'.broken, view.dir = "desc", View!SortsByTime(view), NEW x \in walk'.began
                 PROVE  \/ x.key \in walk'.moved \/ Tied(view, x) \/ \E s \in walk'.seen : s.key = x.key
                        \/ Awaited(entries', view, x)
      BY DEF WalkHolds
    <3>1. \/ x.key \in walk.moved \/ Tied(view, x) \/ \E s \in walk.seen : s.key = x.key
          \/ Awaited(entries, view, x)
      BY <2>1 DEF WalkHolds
    <3>2. Survives(entries, entries', view, walk'.moved, x)
      BY <2>2
    <3> QED
      BY <3>1, <3>2 DEF Survives
  <2> QED
    BY <1>2, <2>1, <2>3 DEF WalkInv
<1> QED
  BY <1>1, <1>2

LEMMA WalkMeetsArrival ==
  ASSUME WalkInv, View!Arrive
  PROVE  WalkInv'
<1>1. PICK e \in Entries \ entries : entries' = entries \cup {e} /\ View!Moved({e.group, e.id})
  BY DEF View!Arrive
<1>2. view' = view /\ resolutions' = resolutions /\ viewFaults' = viewFaults
  BY DEF View!Arrive
<1>3. entries \in SUBSET Entries /\ entries' \in SUBSET Entries /\ DOMAIN walk = WalkFields
  BY <1>1 DEF WalkInv
<1>4. /\ DOMAIN walk' = WalkFields /\ walk'.began = walk.began /\ walk'.seen = walk.seen /\ walk'.broken = walk.broken
      /\ walk'.moved = walk.moved \cup {e.group, e.id}
  BY <1>1, <1>3 DEF View!Moved, WalkFields
<1>5. ASSUME view.offset \in Nat, NEW x
      PROVE  Survives(entries, entries', view, walk'.moved, x)
  <2> SUFFICES ASSUME Awaited(entries, view, x), x.key \notin walk'.moved PROVE Awaited(entries', view, x)
    BY DEF Survives
  <2>1. View!Key(view, e) # x.key
    BY <1>4 DEF View!Key
  <2>2. RowsOf(entries, view) \subseteq RowsOf(entries', view) /\ \A d \in RowsOf(entries', view) : d \in RowsOf(entries, view) \/ d = e
    BY <1>1 DEF RowsOf
  <2>3. Stays(entries', view, x)
    BY <2>1, <2>2 DEF Awaited, Stays
  <2>4. Later(entries, view, x.time) \subseteq Later(entries', view, x.time)
    BY <2>2 DEF Later, Past
  <2> QED
    BY <1>3, <1>5, <2>3, <2>4, MoreAhead
<1> QED
  BY <1>2, <1>3, <1>4, <1>5, RowsChange

LEMMA WalkMeetsPruning ==
  ASSUME WalkInv, View!Prune
  PROVE  WalkInv'
<1>1. PICK e \in entries : entries' = {d \in entries : d.time > e.time}
                                 /\ View!Moved({d.id : d \in entries \ entries'} \cup {d.group : d \in entries \ entries'})
  BY DEF View!Prune
<1>2. view' = view /\ resolutions' = resolutions /\ viewFaults' = viewFaults
  BY DEF View!Prune
<1>3. entries \in SUBSET Entries /\ entries' \in SUBSET Entries /\ DOMAIN walk = WalkFields
  BY <1>1 DEF WalkInv
<1>4. /\ DOMAIN walk' = WalkFields /\ walk'.began = walk.began /\ walk'.seen = walk.seen /\ walk'.broken = walk.broken
      /\ walk.moved \subseteq walk'.moved /\ \A d \in entries \ entries' : d.id \in walk'.moved /\ d.group \in walk'.moved
  BY <1>1, <1>3 DEF View!Moved, WalkFields
<1>5. ASSUME view.offset \in Nat, NEW x
      PROVE  Survives(entries, entries', view, walk'.moved, x)
  <2> SUFFICES ASSUME Awaited(entries, view, x), x.key \notin walk'.moved PROVE Awaited(entries', view, x)
    BY DEF Survives
  <2>1. \A d \in RowsOf(entries, view) : View!Key(view, d) = x.key => d \in RowsOf(entries', view)
    BY <1>4 DEF View!Key, RowsOf
  <2>2. RowsOf(entries', view) \subseteq RowsOf(entries, view)
    BY <1>1 DEF RowsOf
  <2>3. Stays(entries', view, x)
    BY <2>1, <2>2 DEF Awaited, Stays
  <2>4. Later(entries, view, x.time) \subseteq Later(entries', view, x.time)
    <3>1. PICK d \in RowsOf(entries', view) : d.time = x.time
      BY <2>3 DEF Stays
    <3>2. x.time > e.time /\ x.time \in Int
      BY <1>1, <2>3, <3>1 DEF RowsOf, Stays
    <3>3. e.time \in Int /\ \A d1 \in Entries : d1.time \in Int
      BY <1>1, <1>3, FormsAssumption DEF View!ViewsAssumption
    <3>4. \A d1 \in RowsOf(entries, view) : d1.time > x.time => d1 \in RowsOf(entries', view)
      BY <1>1, <1>3, <3>2, <3>3 DEF RowsOf
    <3> QED
      BY <3>4 DEF Later, Past
  <2> QED
    BY <1>3, <1>5, <2>3, <2>4, MoreAhead
<1> QED
  BY <1>2, <1>3, <1>4, <1>5, RowsChange

-----------------------------------------------------------------------------
\* A walk misses nothing, and an error that is resolved is marked as such.
WalkIsWhole == View!WalkMissesNothing /\ View!ResolvedStaysResolved
LEMMA WalkStep ==
  ASSUME WalkInv, [View!Next]_View!vars
  PROVE  WalkInv'
<1>1. CASE View!handleErrorSub
  BY <1>1 DEF View!handleErrorSub, WalkInv
<1>2. CASE UNCHANGED View!vars
  BY <1>2 DEF View!vars, View!env, WalkInv
<1> QED
  BY <1>1, <1>2, WalkBegins, WalkAsks, WalkCounts, WalkReads, WalkShows, WalkMeetsArrival, WalkMeetsPruning DEF View!Next

LEMMA WholeAtTheEnd ==
  ASSUME WalkInv
  PROVE  WalkIsWhole
<1>1. ASSUME View!Ended, ~ walk.broken, view.dir = "desc", View!SortsByTime(view), NEW x \in walk.began
      PROVE  \/ \E s \in walk.seen : s.key = x.key
             \/ x.key \in walk.moved
             \/ \A s \in UNION View!Listing(view) : s.key # x.key
             \/ \E e \in Entries : e.time = x.time /\ View!Key(view, e) # x.key
  <2>1. view.at = "shown" /\ Len(view.rows) < PageLimit
    BY <1>1 DEF View!Ended
  <2>2. ViewShape(view) /\ WalkHolds(entries, view, walk) /\ entries \in SUBSET Entries /\ resolutions = ResolvedBefore
    BY <2>1 DEF WalkInv
  <2>3. PageLimit \in Nat
    BY FormsAssumption DEF View!ViewsAssumption
  <2>4. Len(view.rows) # PageLimit
    BY <2>1, <2>3
  <2>5. \/ x.key \in walk.moved \/ Tied(view, x) \/ \E s \in walk.seen : s.key = x.key
        \/ Awaited(entries, view, x)
    BY <1>1, <2>2 DEF WalkHolds
  <2>6. ASSUME Awaited(entries, view, x), NEW s \in UNION View!Listing(view), s.key = x.key
        PROVE  FALSE
    <3>1. Beyond(entries, view, x) /\ Stays(entries, view, x)
      BY <2>1, <2>4, <2>6 DEF Awaited, Comes
    <3>2. PICK items \in View!Listing(view) : s \in items
      BY <2>6
    <3>3. x.time \in Int /\ Asks(view)
      BY <2>2, <3>1 DEF Stays, ViewShape
    <3>4. Holds(view, items) /\ \A y \in items : y.time > x.time
      BY <2>2, <3>1, <3>2, <3>3, ListHolds DEF Beyond
    <3>5. PICK e \in RowsOf(entries, view) : View!Key(view, e) = s.key /\ e.time = s.time
      BY <3>2, <3>4 DEF Holds
    <3>6. e.time \in Int /\ e.time <= x.time /\ e.time > x.time
      BY <2>2, <2>6, <3>1, <3>2, <3>4, <3>5, RowsAreFinite DEF Stays
    <3> QED
      BY <3>3, <3>6
  <2> QED
    BY <2>5, <2>6 DEF Tied
<1>2. View!WalkMissesNothing
  BY <1>1 DEF View!WalkMissesNothing
<1>3. ASSUME view.at = "shown", view.kind \in View!Errors, NEW i \in DOMAIN view.rows, view.rows[i].ids \subseteq resolutions
      PROVE  View!Marked(view, view.rows[i])
  <2>1. ViewShape(view) /\ resolutions = ResolvedBefore
    BY <1>3 DEF WalkInv
  <2>2. /\ view.resolved = "" => view.known = ResolvedBefore
        /\ RowsFound(view, view.rows) /\ view.resolved \in {"", "0", "1"}
    BY <1>3, <2>1 DEF ViewShape, RowsMarked, Asks
  <2>3. PICK e \in Entries : view.rows[i].ids = {e.id} /\ (view.resolved = "0" => e.id \notin ResolvedBefore)
    BY <1>3, <2>2 DEF RowsFound
  <2> QED
    BY <1>3, <2>1, <2>2, <2>3 DEF View!Marked
<1>4. View!ResolvedStaysResolved
  BY <1>3 DEF View!ResolvedStaysResolved
<1> QED
  BY <1>2, <1>4 DEF WalkIsWhole

THEOREM WalksMissNothing == View!Spec => []WalkIsWhole
<1>1. View!Init => WalkInv
  <2> SUFFICES ASSUME View!Init PROVE WalkInv
    OBVIOUS
  <2>1. DOMAIN walk = WalkFields /\ walk.began = {}
    BY DEF View!Init, WalkFields
  <2> QED
    BY <2>1 DEF View!Init, WalkInv
<1> QED
  BY <1>1, WalkStep, WholeAtTheEnd, PTL DEF View!Spec

-----------------------------------------------------------------------------
(* The parts together: the one that is at work stays so, and its steps are  *)
(* those of the part alone.                                                *)

LEMMA PartStays == [FormsNext]_formVars => part' = part
BY DEF FormsNext, KeptOnly, formVars

LEMMA IncidentIsAlone ==
  /\ KeptInit /\ part = "incident" => Incident!Init
  /\ [FormsNext]_formVars /\ part = "incident" => [Incident!Next]_Incident!vars
BY DEF KeptInit, FormsNext, KeptOnly, formVars, incidentVars, Incident!vars

LEMMA BrowserIsAlone ==
  /\ KeptInit /\ part = "rum" => Browser!Init
  /\ [FormsNext]_formVars /\ part = "rum" => [Browser!Next]_Browser!vars
BY DEF KeptInit, FormsNext, KeptOnly, formVars, rumVars, Browser!vars, Browser!server, Browser!tables

LEMMA ViewIsAlone ==
  /\ KeptInit /\ part = "view" => View!Init
  /\ [FormsNext]_formVars /\ part = "view" => [View!Next]_View!vars
BY DEF KeptInit, FormsNext, KeptOnly, formVars, viewVars, View!vars, View!env

LEMMA QueryingIsAlone ==
  /\ KeptInit /\ part = "query" => Querying!Init
  /\ [FormsNext]_formVars /\ part = "query" => [Querying!Next]_Querying!queryVars
BY DEF KeptInit, FormsNext, KeptOnly, formVars, queryVars, Querying!queryVars

\* However many rows arrive and are pruned between the statements of a page: what an
\* incident page shows belongs to what was asked for (handleViewIncident).
THEOREM EvidenceStaysOfPage == FormsSpec => []EvidenceBelongs
<1>1. Incident!Spec => [](Incident!EvidenceBelongs)
  BY EvidenceStays
<1>2. KeptInit /\ part = "incident" => Incident!Init
  BY IncidentIsAlone
<1>3. [FormsNext]_formVars /\ part = "incident" => [Incident!Next]_Incident!vars
  BY IncidentIsAlone
<1>4. (part = "incident" => Incident!EvidenceBelongs) => EvidenceBelongs
  BY DEF EvidenceBelongs
<1>5. [FormsNext]_formVars /\ part = "incident" => (part = "incident")'
  BY PartStays
<1>6. [FormsNext]_formVars /\ ~ (part = "incident") => ~ (part = "incident")'
  BY PartStays
<1> QED
  BY <1>1, <1>2, <1>3, <1>4, <1>5, <1>6, PTL DEF FormsSpec, Incident!Spec

\* However many browsers, and beacons that overtake each other or are lost: an event shows
\* the context of its own browser, and a visual context goes with events of its session
\* alone, before it expires and with one only unless it was set to be kept
\* (handleBrowserContextDelta, rum.js).
THEOREM EventsStayOwn == FormsSpec => []BrowserEvents
<1>1. Browser!Spec => [](Browser!ContextsAreOwn /\ Browser!VisualsGoOnce)
  BY EventsAreOwn
<1>2. KeptInit /\ part = "rum" => Browser!Init
  BY BrowserIsAlone
<1>3. [FormsNext]_formVars /\ part = "rum" => [Browser!Next]_Browser!vars
  BY BrowserIsAlone
<1>4. (part = "rum" => Browser!ContextsAreOwn /\ Browser!VisualsGoOnce) => BrowserEvents
  BY DEF BrowserEvents
<1>5. [FormsNext]_formVars /\ part = "rum" => (part = "rum")'
  BY PartStays
<1>6. [FormsNext]_formVars /\ ~ (part = "rum") => ~ (part = "rum")'
  BY PartStays
<1> QED
  BY <1>1, <1>2, <1>3, <1>4, <1>5, <1>6, PTL DEF FormsSpec, Browser!Spec

\* However many rows arrive and are pruned between the statements of a list: who walks over
\* its screens misses nothing that stayed where it was, and resolved errors stay away
\* (handleViewErrors and its like).
THEOREM WalksStayWhole == FormsSpec => []WalksAreWhole
<1>1. View!Spec => []WalkIsWhole
  BY WalksMissNothing
<1>2. KeptInit /\ part = "view" => View!Init
  BY ViewIsAlone
<1>3. [FormsNext]_formVars /\ part = "view" => [View!Next]_View!vars
  BY ViewIsAlone
<1>4. (part = "view" => WalkIsWhole) => WalksAreWhole
  BY DEF WalksAreWhole, WalkIsWhole
<1>5. [FormsNext]_formVars /\ part = "view" => (part = "view")'
  BY PartStays
<1>6. [FormsNext]_formVars /\ ~ (part = "view") => ~ (part = "view")'
  BY PartStays
<1> QED
  BY <1>1, <1>2, <1>3, <1>4, <1>5, <1>6, PTL DEF FormsSpec, View!Spec

\* Whatever a model replies, and however often a statement is repaired: rows are shown under
\* the statement that gave them, and only valid statements are run
\* (validateAndExecuteVannaSQLWithRepair).
THEOREM QueriesStayHonest == FormsSpec => []QueriesAreHonest
<1>1. Querying!Spec => []Querying!ShownIsWhatRan
  BY WhatRanIsShown
<1>2. KeptInit /\ part = "query" => Querying!Init
  BY QueryingIsAlone
<1>3. [FormsNext]_formVars /\ part = "query" => [Querying!Next]_Querying!queryVars
  BY QueryingIsAlone
<1>4. (part = "query" => Querying!ShownIsWhatRan) => QueriesAreHonest
  BY DEF QueriesAreHonest
<1>5. [FormsNext]_formVars /\ part = "query" => (part = "query")'
  BY PartStays
<1>6. [FormsNext]_formVars /\ ~ (part = "query") => ~ (part = "query")'
  BY PartStays
<1> QED
  BY <1>1, <1>2, <1>3, <1>4, <1>5, <1>6, PTL DEF FormsSpec, Querying!Spec
=============================================================================
