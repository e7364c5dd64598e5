-------------------------------- MODULE RumPage --------------------------------
(* What is shown of browsers: /rum as sessions or as events (handlers_rum.go)  *)
(* and the tables of /web-traffic (handlers_data.go, handlers_misc.go,         *)
(* geoip.go).                                                                  *)
(*                                                                             *)
(* Sessions are not stored: they are what events with one key make.  The store *)
(* computes the key for the list and the program again for the events, and     *)
(* they do not trim alike.  List and events are read one after the other while *)
(* events arrive.                                                              *)
EXTENDS Integers, Sequences, FiniteSets, FiniteSetsExt

CONSTANTS
    RumEvents,  \* [id, session, type, at, ip, browser]; session "" is anonymous
    Trimmed,    \* of each id of a session, what is left without the spaces around it
    RumQueries, \* what is asked for: [view, type, limit, offset]
    DetailCap,  \* SOBS_RUM_SESSION_DETAIL_EVENT_CAP
    Ranges,     \* geoDB: firsts and idx, as a sequence of [first, country]
    MaxAddresses, MaxBrowsers, \* the LIMIT of either table: 200 and 50
    MaxRumEvents \* bound on the events that arrive

\* The ranges lie one after the other (geoDB), and a configured cap is not negative.
RumPageAssumption ==
    /\ \A e \in RumEvents : e.at \in Nat /\ e.ip \in Int
    /\ \A q \in RumQueries : q.limit \in Nat /\ q.offset \in Nat
    /\ DetailCap \in Nat /\ MaxAddresses \in Nat /\ MaxBrowsers \in Nat
    /\ Ranges \in Seq([first : Nat, country : STRING])
    /\ \A i, j \in DOMAIN Ranges : i < j => Ranges[i].first < Ranges[j].first

VARIABLES
    events,     \* hyperdx_sessions
    shown,      \* the request: where it is and what it has read
    geoFaults   \* statements that failed

vars == <<events, shown, geoFaults>>
Init == events = {} /\ shown = [at |-> "blank"] /\ geoFaults = 0

NoAddress == -1      \* of an event that tells none
NoCountry == "<not found in database>"
Unknown == "Unknown"
LocalNet == "Private/Local"
Gap == ""
Failed == {"error", "unhandledrejection"}

-----------------------------------------------------------------------------
(* Sessions.                                                                  *)

\* An anonymous event is a session of its own, by the hash of its time and its
\* body.  The statement takes an id as it is stored; the program trims it.
rumSessionKeySQL(e) == IF e.session # "" THEN e.session ELSE e.id
rumSessionKeyFromAttrs(e) == IF Trimmed[e.session] # "" THEN Trimmed[e.session] ELSE e.id
Asked(q) == {e \in events : q.type \in {"", e.type}}
\* Faulty form: of the events the page shows.
severityOfNewest(rows) ==
    LET newest == {e \in rows : Cardinality({d \in rows : d.at > e.at}) < DetailCap}
    IN IF \E e \in newest : e.type \in Failed THEN 3
       ELSE IF \E e \in newest : e.type = "poor" THEN 2
       ELSE IF \E e \in newest : e.type = "needs-improvement" THEN 1 ELSE 0
severity(rows) ==
    IF \E e \in rows : e.type \in Failed THEN 3
    ELSE IF \E e \in rows : e.type = "poor" THEN 2
    ELSE IF \E e \in rows : e.type = "needs-improvement" THEN 1 ELSE 0
Summary(key, rows) ==
    [key |-> key, events |-> Cardinality(rows), rank |-> severity(rows),
     errors |-> Cardinality({e \in rows : e.type \in Failed}),
     last |-> Max({e.at : e \in rows})]
Sessions(q) ==
    {Summary(k, {e \in Asked(q) : rumSessionKeySQL(e) = k}) : k \in {rumSessionKeySQL(e) : e \in Asked(q)}}
Worse(s, t) == s.rank > t.rank \/ (s.rank = t.rank /\ s.last >= t.last)
BySeverity(S) == {l \in Bijection(1 .. Cardinality(S), S) : \A i \in 1..(Len(l) - 1) : Worse(l[i], l[i + 1])}
Screen(q, l) == SubSeq(l, q.offset + 1, IF q.offset + q.limit < Len(l) THEN q.offset + q.limit ELSE Len(l))

\* ORDER BY f DESC LIMIT n, any of those that are equal.
Top(S, f, n) ==
    {P \in SUBSET S : /\ Cardinality(P) = IF Cardinality(S) < n THEN Cardinality(S) ELSE n
                      /\ \A e \in P, d \in S \ P : f[e] >= f[d]}
Newest(S, n) == Top(S, [e \in S |-> e.at], n)

-----------------------------------------------------------------------------
(* Traffic.                                                                   *)

\* The last range that begins at or before the address, unless it is a gap.
lookup4(ip) ==
    LET before == {i \in DOMAIN Ranges : Ranges[i].first <= ip}
    IN IF before = {} \/ Ranges[Max(before)].country = Gap THEN NoCountry
       ELSE Ranges[Max(before)].country
isPrivateIP(ip) == ip < 0
geoLookup(ip) == IF isPrivateIP(ip) THEN LocalNet ELSE lookup4(ip)
\* Without the database, or when it is switched off, nothing is known.
countryOf(ip, geo) == IF geo THEN geoLookup(ip) ELSE Unknown
\* One row per address, the most frequent only, then one per country.
addressCounts ==
    [ip \in {e.ip : e \in events} \ {NoAddress} |-> Cardinality({e \in events : e.ip = ip})]
\* Faulty form: the country's last address counts.
addCountryAnew(counts, country, n) == [counts EXCEPT ![country] = n]
addCountry(counts, country, n) == [counts EXCEPT ![country] = @ + n]
countryCounts(listed, geo) ==
    LET countries == {countryOf(ip, geo) : ip \in listed}
        Fold[S \in SUBSET listed] ==
            IF S = {} THEN [c \in countries |-> 0]
            ELSE LET ip == CHOOSE x \in S : TRUE
                 IN addCountry(Fold[S \ {ip}], countryOf(ip, geo), addressCounts[ip])
    IN Fold[listed]
browserCounts ==
    [b \in {e.browser : e \in events} |-> Cardinality({e \in events : e.browser = b})]

-----------------------------------------------------------------------------
(* Actions.                                                                   *)

Arrive(e) ==
    /\ e \notin events /\ Cardinality(events) < MaxRumEvents
    /\ events' = events \cup {e} /\ UNCHANGED <<shown, geoFaults>>
ListSessions(q) ==
    /\ q.view = "sessions" /\ shown.at \in {"blank", "done"} /\ UNCHANGED <<events, geoFaults>>
    /\ \E l \in BySeverity(Sessions(q)) :
        shown' = [at |-> "sessions", q |-> q, then |-> events, list |-> Screen(q, l)]
\* The newest events of each session, of now, then put where the program's key
\* says: an event of no session of the list is shown nowhere.  A statement that
\* fails shows none.
ReadEvents ==
    /\ shown.at = "sessions" /\ UNCHANGED events
    /\ LET keys == {shown.list[i].key : i \in DOMAIN shown.list}
           Done(d) == shown' = [at |-> "done", q |-> shown.q, then |-> shown.then,
                                list |-> shown.list, events |-> d]
       IN \/ /\ UNCHANGED geoFaults
             /\ \E d \in [keys -> SUBSET events] :
                    /\ \A k \in keys :
                           d[k] \in Newest({e \in Asked(shown.q) : rumSessionKeySQL(e) = k}, DetailCap)
                    /\ Done([k \in keys |-> {e \in UNION {d[m] : m \in keys} : rumSessionKeyFromAttrs(e) = k}])
          \/ geoFaults = 0 /\ geoFaults' = 1 /\ Done([k \in keys |-> {}])
ListEvents(q) ==
    /\ q.view = "events" /\ shown.at \in {"blank", "done"} /\ UNCHANGED <<events, geoFaults>>
    /\ \E S \in Newest(Asked(q), q.limit) :
        shown' = [at |-> "done", q |-> q, then |-> events, list |-> <<>>, events |-> [k \in {""} |-> S]]
ReadTraffic(q) ==
    /\ q.view = "traffic" /\ shown.at \in {"blank", "done"} /\ UNCHANGED <<events, geoFaults>>
    /\ \E listed \in Top(DOMAIN addressCounts, addressCounts, MaxAddresses), geo \in BOOLEAN :
       \E names \in Top(DOMAIN browserCounts, browserCounts, MaxBrowsers) :
        shown' = [at |-> "done", q |-> q, then |-> events, list |-> <<>>, geo |-> geo,
                  addresses |-> listed, countries |-> countryCounts(listed, geo),
                  browsers |-> [b \in names |-> browserCounts[b]]]

Next ==
    \/ \E e \in RumEvents : Arrive(e)
    \/ \E q \in RumQueries : ListSessions(q) \/ ListEvents(q) \/ ReadTraffic(q)
    \/ ReadEvents
Spec == Init /\ [][Next]_vars

-----------------------------------------------------------------------------
(* Properties.                                                                *)

\* What both computations agree on: an id that is stored without spaces around
\* it.  Of one that is stored with them the list counts the events and the page
\* shows none of them there (handlers_rum.go:14 and :21).
Agreed(key) == \A e \in RumEvents : rumSessionKeySQL(e) = key => rumSessionKeyFromAttrs(e) = key

\* The rank and the counts of a session answer for all that the list saw of it,
\* those its events on the page leave out included (handlers_rum.go:206 counts,
\* :240 shows the newest).  It shows only events the program counts as its own,
\* no more of them than there is room for, and, when both keys agree and the
\* statement did not fail, as many of what was counted as there is room for.
RanksCoverEvents ==
    shown.at = "done" /\ shown.q.view = "sessions" =>
        \A i \in DOMAIN shown.list :
            LET s == shown.list[i]
                mine == {e \in shown.then : rumSessionKeySQL(e) = s.key /\ shown.q.type \in {"", e.type}}
                own == {e \in shown.events[s.key] : rumSessionKeySQL(e) = s.key}
            IN /\ (s.rank = 3) <=> (s.errors > 0)
               /\ \A e \in mine : e.type \in Failed => s.rank = 3
               /\ s.events = Cardinality(mine)
               /\ \A e \in shown.events[s.key] : rumSessionKeyFromAttrs(e) = s.key
               /\ Cardinality(own) <= DetailCap
               /\ Agreed(s.key) /\ geoFaults = 0 =>
                      Cardinality(own) >= IF s.events < DetailCap THEN s.events ELSE DetailCap

\* Every event of an address that is listed counts for the country of that
\* address, once: addresses of one country add up (handlers_misc.go:166), and
\* one that begins a range is in it.  An address is left out only when as many
\* as there is room for, each with as many events, are listed (:136).
CountriesAddUp ==
    shown.at = "done" /\ shown.q.view = "traffic" =>
        LET At(ip) == Cardinality({e \in shown.then : e.ip = ip})
            counted == {e \in shown.then : e.ip \in shown.addresses}
        IN /\ MapThenSumSet(LAMBDA c : shown.countries[c], DOMAIN shown.countries) = Cardinality(counted)
           /\ \A e \in shown.then \ counted : e.ip # NoAddress =>
                  /\ Cardinality(shown.addresses) = MaxAddresses
                  /\ \A ip \in shown.addresses : At(ip) >= At(e.ip)
           /\ \A c \in DOMAIN shown.countries \ {LocalNet, NoCountry, Unknown} :
                  shown.countries[c] = Cardinality({e \in counted : e.ip >= 0 /\
                      \E i \in DOMAIN Ranges : /\ Ranges[i].country = c /\ Ranges[i].first <= e.ip
                                               /\ i = Len(Ranges) \/ e.ip < Ranges[i + 1].first})
===============================================================================
