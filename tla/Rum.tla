---------------------------------- MODULE Rum ----------------------------------
(* What happens in browsers: the script that watches a page (static/rum.js)   *)
(* and the endpoint that takes its events (handlers_v1_ingest.go handleV1Rum, *)
(* fix_rum_helpers.go, rum_client.go).                                        *)
(*                                                                            *)
(* A browser sends what it runs on once and a hash of it from then on; the    *)
(* server remembers it by session.  Beacons overtake each other and may never *)
(* arrive, errors wait for their replay to be uploaded, the server is started *)
(* anew, its memory is bounded, and tokens expire.                            *)
EXTENDS Integers, Sequences, FiniteSets, Functions

CONSTANTS
    Browsers,           \* sessions
    OriginOf, AppOf,    \* [Browsers -> ...]: the site they are on, and its app
    Contexts,           \* what a browser runs on
    AuthMode,           \* SOBS_RUM_CLIENT_AUTH_MODE: none, origin, origin-session
    Ttl,                \* SOBS_RUM_CLIENT_TOKEN_TTL_SEC, in ticks
    rumBrowserContextCacheMax,
    Kinds,              \* types of event that are sent besides page views
    MaxPending,         \* bound on the errors of a type that wait for their replay
    MaxEvents, MaxChanges, MaxRumMs, MaxRumFaults \* bounds

\* The memory has a bound, and tokens last a number of ticks.
RumAssumption == rumBrowserContextCacheMax \in Nat /\ Ttl \in Int

VARIABLES
    browser,    \* [Browsers -> state of the script]
    beacons,    \* events under way
    cache, cacheKeys, \* rumBrowserContextCache, and its keys in order
    sessions,   \* hyperdx_sessions
    errorLog,   \* the events with a row in otel_logs
    rumMs,      \* the clock
    counts      \* events, changes, and faults (restarts too) so far

server == <<cache, cacheKeys>>
tables == <<sessions, errorLog>>
vars == <<browser, beacons, server, tables, rumMs, counts>>

NoContext == "none"
NoToken == [app |-> "", origin |-> "", exp |-> -1]
NoVisual == [id |-> 0, exp |-> 0, once |-> TRUE]
Errors == {"error", "unhandledrejection"}
Bump(k) == counts' = [counts EXCEPT ![k] = @ + 1]

Init ==
    /\ browser \in [Browsers -> {[runsOn |-> c, context |-> NoContext, first |-> TRUE, up |-> FALSE,
                        token |-> NoToken, visual |-> NoVisual, pending |-> [t \in Errors |-> 0]]
                        : c \in {CHOOSE d \in Contexts : TRUE}}]
    /\ beacons = {} /\ cache = <<>> /\ cacheKeys = <<>> /\ sessions = {} /\ errorLog = {}
    /\ rumMs = 1
    /\ counts = [events |-> 0, changes |-> 0, faults |-> 0]

-----------------------------------------------------------------------------
(* The browser.                                                              *)

\* Page views and errors carry the context, or its hash if it was sent before.
send(b, type, visual, br) ==
    LET tells == type \in {"pageview", "error"}
        full == tells /\ (br.first \/ br.context # br.runsOn)
    IN /\ counts.events < MaxEvents /\ Bump("events")
       /\ beacons' = beacons \cup {[id |-> counts.events + 1, session |-> b, type |-> type,
            hash |-> IF tells THEN br.runsOn ELSE NoContext, full |-> full,
            context |-> IF full THEN br.runsOn ELSE NoContext, had |-> br.runsOn,
            token |-> br.token, visual |-> visual, at |-> rumMs]}
       /\ browser' = [browser EXCEPT ![b] =
            [br EXCEPT !.context = IF tells THEN br.runsOn ELSE @,
                       !.first = @ /\ type # "pageview"]]
rest == <<server, tables, rumMs>>

\* Without a token the script asks for one first; if it gets none it goes on.
issueToken(b) ==
    {NoToken} \cup IF AuthMode \in {"origin", "origin-session"}
                   THEN {[app |-> AppOf[b], origin |-> OriginOf[b], exp |-> rumMs + Ttl]} ELSE {}
\* A site may hand the script a token it holds, of another site too.
SetToken(b) ==
    /\ browser[b].up /\ browser[b].token = NoToken
    /\ \E d \in Browsers : browser[d].token # NoToken
                           /\ browser' = [browser EXCEPT ![b].token = browser[d].token]
    /\ UNCHANGED <<beacons, rest, counts>>
Boot(b) ==
    /\ ~browser[b].up
    /\ \E t \in issueToken(b) :
        send(b, "pageview", NoVisual, [browser[b] EXCEPT !.up = TRUE, !.token = t])
    /\ UNCHANGED rest
Track(b) ==
    /\ browser[b].up
    /\ \E type \in (Kinds \cup {"pageview"}) \ Errors : send(b, type, NoVisual, browser[b])
    /\ UNCHANGED rest
ChangeContext(b) ==
    /\ counts.changes < MaxChanges /\ Bump("changes")
    /\ \E c \in Contexts \ {browser[b].runsOn} : browser' = [browser EXCEPT ![b].runsOn = c]
    /\ UNCHANGED <<beacons, rest>>
\* The site says for how long, and whether for one error or for all until then.
SetVisualContext(b) ==
    /\ counts.changes < MaxChanges /\ Bump("changes")
    /\ \E e \in {0, rumMs}, consumeOnce \in BOOLEAN :
            browser' = [browser EXCEPT ![b].visual =
                           [id |-> counts.changes + 1, exp |-> e, once |-> consumeOnce]]
    /\ UNCHANGED <<beacons, rest>>

\* An error is sent when its replay is up or has failed, in any order, with the
\* visual context of then, which is for one error unless it is to be kept.
EmitError(b) ==
    /\ browser[b].up
    /\ \E type \in Kinds \cap Errors :
            /\ browser[b].pending[type] < MaxPending
            /\ browser' = [browser EXCEPT ![b].pending[type] = @ + 1]
    /\ UNCHANGED <<beacons, rest, counts>>
peekVisualContext(b) ==
    LET v == browser[b].visual IN IF v.exp # 0 /\ rumMs > v.exp THEN NoVisual ELSE v
\* Faulty form: what was attached is kept.
mergeErrorContextKeeps(b, type) ==
    [browser[b] EXCEPT !.pending[type] = @ - 1, !.visual = peekVisualContext(b)]
mergeErrorContext(b, type) ==
    LET v == peekVisualContext(b)
    IN [browser[b] EXCEPT !.pending[type] = @ - 1, !.visual = IF v.once THEN NoVisual ELSE v]
Enriched(b) ==
    \E type \in {t \in Errors : browser[b].pending[t] > 0} :
        send(b, type, peekVisualContext(b), mergeErrorContext(b, type)) /\ UNCHANGED rest

-----------------------------------------------------------------------------
(* The endpoint.                                                             *)

verifyRumClientAuth(m) ==
    \/ AuthMode = "none"
    \/ /\ m.token # NoToken /\ m.token.exp > rumMs
       /\ m.token.origin = OriginOf[m.session]
       /\ m.token.app \in {"", AppOf[m.session]}

\* Kept by session: the first that came makes room when there are too many.
remember(m) ==
    LET keys == IF m.full /\ m.session \notin DOMAIN cache THEN Append(cacheKeys, m.session) ELSE cacheKeys
        over == IF Len(keys) > rumBrowserContextCacheMax THEN Len(keys) - rumBrowserContextCacheMax ELSE 0
        kept == SubSeq(keys, over + 1, Len(keys))
    IN [entries |-> [s \in Range(kept) |->
            IF m.full /\ s = m.session THEN [hash |-> m.hash, context |-> m.context] ELSE cache[s]],
        keys |-> kept]
\* Faulty form: whatever the session told last.
recallAny(m, entries) ==
    IF m.full \/ m.hash = NoContext \/ m.session \notin DOMAIN entries THEN m.context
    ELSE entries[m.session].context
recall(m, entries) ==
    IF m.full \/ m.hash = NoContext \/ m.session \notin DOMAIN entries THEN m.context
    ELSE IF entries[m.session].hash = m.hash THEN entries[m.session].context ELSE NoContext
Row(m, context) ==
    [id |-> m.id, session |-> m.session, type |-> m.type, context |-> context, had |-> m.had,
     visual |-> m.visual, sent |-> m.at, at |-> rumMs]

\* Both inserts are one queued write; it may be refused, or fail after the first.
Ingest(m) ==
    /\ beacons' = beacons \ {m} /\ UNCHANGED <<browser, rumMs>>
    /\ \/ ~verifyRumClientAuth(m) /\ UNCHANGED <<server, tables, counts>>
       \/ /\ verifyRumClientAuth(m)
          /\ LET r == remember(m) row == Row(m, recall(m, r.entries))
             IN /\ cache' = r.entries /\ cacheKeys' = r.keys
                /\ \/ /\ sessions' = sessions \cup {row} /\ UNCHANGED counts
                      /\ errorLog' = errorLog \cup ({m.id} \cap {i \in {m.id} : m.type \in Errors})
                   \/ /\ counts.faults < MaxRumFaults /\ Bump("faults") /\ UNCHANGED errorLog
                      /\ sessions' \in {sessions, sessions \cup {row}}
Restart ==
    /\ counts.faults < MaxRumFaults /\ Bump("faults") /\ cache' = <<>> /\ cacheKeys' = <<>>
    /\ UNCHANGED <<browser, beacons, tables, rumMs>>
Tick ==
    /\ rumMs < MaxRumMs /\ rumMs' = rumMs + 1
    /\ UNCHANGED <<browser, beacons, server, tables, counts>>

Next ==
    \/ \E b \in Browsers : SetToken(b) \/ Boot(b) \/ Track(b) \/ ChangeContext(b)
                           \/ SetVisualContext(b) \/ EmitError(b) \/ Enriched(b)
    \/ \E m \in beacons : Ingest(m)
    \/ Restart \/ Tick
Spec == Init /\ [][Next]_vars

-----------------------------------------------------------------------------
(* Properties.                                                               *)

\* An event shows what its browser ran on when it sent it, or nothing: never
\* what the session ran on before, though beacons overtake each other, are
\* lost, and the server forgets (fix_rum_helpers.go:325).  The memory stays
\* within its bound, and its keys are those of its entries, each once.
ContextsAreOwn ==
    /\ \A r \in sessions : r.context \in {NoContext, r.had}
    /\ Range(cacheKeys) = DOMAIN cache /\ Len(cacheKeys) = Cardinality(DOMAIN cache)
    /\ Len(cacheKeys) <= rumBrowserContextCacheMax

\* The visual contexts that events carry.
carried ==
    {[id |-> x.id, session |-> x.session, visual |-> x.visual, at |-> x.sent] : x \in sessions}
    \cup {[id |-> x.id, session |-> x.session, visual |-> x.visual, at |-> x.at] : x \in beacons}
\* A visual context goes with errors of its own session, with one only unless
\* the site set it with consumeOnce false, and with none once it has expired,
\* whichever upload ends first (rum.js:323, 334, 748).
VisualsGoOnce ==
    LET bearing == {x \in carried : x.visual # NoVisual}
    IN /\ \A x \in bearing : x.visual.exp # 0 => x.at <= x.visual.exp
       /\ \A x, y \in bearing : x.visual.id = y.visual.id =>
              x.session = y.session /\ (x.visual.once => x.id = y.id)
===============================================================================
