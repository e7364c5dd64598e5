------------------------------- MODULE AttrKeys -------------------------------
(* The attribute keys SOBS has seen, which the forms for tag rules suggest:   *)
(* a table, and a cache of it that is filled once in a process                *)
(* (ingest_attr_keys.go, tag_condition_suggestions.go).                       *)
(*                                                                            *)
(* A call holds the cache's lock from its first line to its last, and nobody  *)
(* else writes the table: a call is one step.  The page of the logs reads the *)
(* table itself.                                                              *)
EXTENDS Integers, FiniteSets, FiniteSetsExt

CONSTANTS
    Keys,           \* attribute keys, numbered as the alphabet orders them
    Batches,        \* what calls remember: [type, keys] of the rows of an insert
    Typed,          \* what is typed: the keys that start with it and that hold it
    MaxTracked,     \* SOBS_LOG_ATTR_KEYS_MAX
    ShowMax,        \* the most suggestions a request asks for
    MaxAttrFaults   \* bound on reads and inserts that fail, and on restarts

attrKeyRecordTypes == {"log", "span", "resource", "scope"}
AttrKeysAssumption ==
    /\ Keys \subseteq Nat /\ {MaxTracked, ShowMax, MaxAttrFaults} \subseteq Nat
    /\ \A b \in Batches : b.type \in attrKeyRecordTypes /\ b.keys \subseteq Keys /\ IsFiniteSet(b.keys)
    /\ \A t \in Typed : t.starts \subseteq t.holds /\ t.holds \subseteq Keys

VARIABLES
    recorded,   \* sobs_log_attr_keys: [attrKeyRecordTypes -> set of keys]
    byType,     \* logAttrKeyCache.byType
    loaded,     \* logAttrKeyCache.loaded
    unread,     \* history: types whose read failed when the cache was primed,
    missed,     \* and those of which any did, in whatever process
    hinted,     \* the last suggestions: what was typed, the keys shown, and, for
                \* history, those the table held of the types that were read
    attrFaults

vars == <<recorded, byType, loaded, unread, missed, hinted, attrFaults>>

Nothing == [t \in attrKeyRecordTypes |-> {}]
NoHint == [typed |-> [starts |-> {}, holds |-> {}, all |-> TRUE], known |-> {}, keys |-> {}]

Init ==
    /\ recorded = Nothing /\ byType = Nothing /\ loaded = FALSE /\ unread = {}
    /\ missed = {} /\ hinted = NoHint /\ attrFaults = 0

\* Each type is read by a query of its own, once; what cannot be read is taken
\* to be empty, and the cache to be loaded.
prime(blind) == IF loaded THEN byType ELSE [t \in attrKeyRecordTypes |-> IF t \in blind THEN {} ELSE recorded[t]]
Primes(blind) ==
    /\ loaded => blind = {}
    /\ loaded' = TRUE /\ unread' = unread \cup blind /\ missed' = missed \cup blind

\* Faulty form: the limit is for one call.
candidatesOfCall(existing, keys) == {C \in SUBSET (keys \ existing) : Cardinality(C) <= MaxTracked}
\* As many of the new keys as there is room for: maps are read in any order.
candidates(existing, keys) ==
    LET new == keys \ existing
        room == MaxTracked - Cardinality(existing)
    IN IF room <= 0 THEN {{}}
       ELSE kSubset(IF Cardinality(new) <= room THEN Cardinality(new) ELSE room, new)

\* Faulty form: what could not be inserted is known all the same.
rememberAttrKeysRegardless(known, type, new, fails) == [known EXCEPT ![type] = @ \cup new]
remembered(known, type, new, fails) == IF fails THEN known ELSE [known EXCEPT ![type] = @ \cup new]
rememberAttrKeys(batch) ==
    \E blind \in SUBSET attrKeyRecordTypes, fails \in BOOLEAN :
        LET known == prime(blind)
            faults == Cardinality(blind) + (IF fails THEN 1 ELSE 0)
        IN /\ attrFaults + faults <= MaxAttrFaults /\ attrFaults' = attrFaults + faults
           /\ Primes(blind)
           /\ \E new \in candidates(known[batch.type], batch.keys) :
                /\ fails => new # {}
                /\ recorded' = IF fails THEN recorded ELSE [recorded EXCEPT ![batch.type] = @ \cup new]
                /\ byType' = remembered(known, batch.type, new, fails)
    /\ UNCHANGED hinted

\* The keys that hold what was typed: those that start with it, then the others,
\* each in the order of the alphabet; and the first of them.
Fitting(keys, typed) == IF typed.all THEN keys ELSE keys \cap typed.holds
Before(j, k, typed) ==
    \/ j \in typed.starts /\ k \notin typed.starts
    \/ (j \in typed.starts <=> k \in typed.starts) /\ j < k
Ahead(k, shown, typed) == {j \in shown : Before(j, k, typed)}
\* Faulty form: cut off before they are ranked.
FirstOf(keys, typed) == Fitting({k \in keys : Cardinality({j \in keys : j < k}) < ShowMax}, typed)
Best(keys, typed) ==
    {k \in Fitting(keys, typed) : Cardinality(Ahead(k, Fitting(keys, typed), typed)) < ShowMax}
tagRuleAttributeKeySuggestions(typed) ==
    \E blind \in SUBSET attrKeyRecordTypes :
        LET known == prime(blind) IN
        /\ attrFaults + Cardinality(blind) <= MaxAttrFaults
        /\ attrFaults' = attrFaults + Cardinality(blind)
        /\ Primes(blind)
        /\ byType' = known
        /\ hinted' = [typed |-> typed,
                       known |-> UNION {recorded[t] : t \in attrKeyRecordTypes \ unread'},
                       keys |-> Best(UNION {known[t] : t \in attrKeyRecordTypes}, typed)]
        /\ UNCHANGED recorded

Restart ==
    /\ attrFaults < MaxAttrFaults /\ attrFaults' = attrFaults + 1
    /\ byType' = Nothing /\ loaded' = FALSE /\ unread' = {}
    /\ UNCHANGED <<recorded, missed, hinted>>

Next ==
    \/ \E batch \in Batches : rememberAttrKeys(batch)
    \/ \E typed \in Typed : tagRuleAttributeKeySuggestions(typed)
    \/ Restart
Spec == Init /\ [][Next]_vars

-----------------------------------------------------------------------------
(* Properties.                                                               *)

\* The cache holds no key the table has not, and unless a read failed when the
\* process filled it, it is the table; which keeps to its limit until a read fails
\* (ingest_attr_keys.go:46, 100).
CacheIsTable ==
    \A t \in attrKeyRecordTypes :
        /\ byType[t] \subseteq recorded[t]
        /\ loaded /\ t \notin unread => byType[t] = recorded[t]
        /\ t \notin missed => Cardinality(recorded[t]) <= MaxTracked

\* No key that starts with what was typed has to give way to one that does not,
\* and nothing that is in the table is left out while there is room, unless a
\* read failed (tag_condition_suggestions.go:40).
BestAreShown ==
    LET left == Fitting(hinted.known, hinted.typed) \ hinted.keys
    IN /\ left # {} => Cardinality(hinted.keys) = ShowMax
       /\ left \cap hinted.typed.starts # {} => hinted.keys \subseteq hinted.typed.starts
===============================================================================
