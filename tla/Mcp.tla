--------------------------------- MODULE Mcp ---------------------------------
(* The MCP endpoint: its API keys, a list in one row of the settings that is   *)
(* read, changed and written back whole (handlers_crypto.go,                   *)
(* handlers_mutations3.go, fix_crypto_misc.go), the key that is seeded at the  *)
(* start (mcp_key_seed.go), and the limit on a client's requests               *)
(* (mcp_ratelimit.go, handlers_misc.go).                                       *)
(*                                                                             *)
(* A key stands for itself and for its hash; the date on which it expires is   *)
(* kept and shown, and no admission looks at it.  The list is the set of its   *)
(* descriptors, whose ids tell them apart, and the limiter's slice holds what  *)
(* it does in the order of admission.  All requests come from one address.     *)
EXTENDS Integers, Sequences, FiniteSets

CONSTANTS
    Users,          \* who makes, deletes and uses keys
    MaxKeysKept,    \* mcpAPIKeyMax
    Limit,          \* mcpRateLimitRequests
    Window,         \* mcpRateLimitWindowSec
    Delay,          \* bound on the time between reading the clock and the lock
    MaxMade,        \* bound on the keys made
    MaxMcpTime,     \* bound on the clock
    MaxMcpFaults    \* bound on statements that fail and on starts

VARIABLES
    keyList,    \* the setting mcp.api_keys: descriptors [id, key]
    minted,     \* descriptors made so far, which gives the next id
    mcp,        \* [Users -> what a user's request is at]
    mcpNow,     \* the clock
    stamps,     \* mcpRateLimitStore: [numbers of admissions -> when they read the clock]
    entered,    \* history: when requests were admitted, by the clock of the lock
    valid,      \* history: the keys handed out or seeded and not deleted since
    crossed,    \* history: writers overlapped, or a statement failed
    used,       \* history: the last use of a key: [let, ought, inTurn]
    mcpFaults

vars == <<keyList, minted, mcp, mcpNow, stamps, entered, valid, crossed, used, mcpFaults>>

EnvKey == 0         \* SOBS_MCP_API_KEY; the others are numbered as they are made
Idle == [at |-> "idle"]
Unused == [let |-> FALSE, ought |-> FALSE, inTurn |-> FALSE]
Ids(list) == {d.id : d \in list}
KeysOf(list) == {d.key : d \in list}
NoStamps == [i \in {} |-> 0]

McpAssumption ==
    /\ {Limit, Window, Delay, MaxMade, MaxMcpTime, MaxMcpFaults} \subseteq Nat
    /\ MaxKeysKept \in Nat \ {0}

Init ==
    /\ keyList = {[id |-> 1, key |-> EnvKey]} /\ minted = 1
    /\ mcp = [u \in Users |-> Idle] /\ mcpNow = 0 /\ stamps = NoStamps /\ entered = <<>>
    /\ valid = {EnvKey} /\ crossed = FALSE /\ used = Unused /\ mcpFaults = 0

Fault(f) == mcpFaults + (IF f THEN 1 ELSE 0) <= MaxMcpFaults /\ mcpFaults' = mcpFaults + (IF f THEN 1 ELSE 0)
Writing(u) == mcp[u].at = "write"
\* What a read of the list gives: a read that fails, an empty one.
loadMcpAPIKeys(fails) == IF fails THEN {} ELSE keyList
\* The list is written whole; a write that fails is not noticed.
saveMcpAPIKeys(list, fails) == keyList' = IF fails THEN keyList ELSE list

-----------------------------------------------------------------------------
(* Making and deleting keys: the list is read, and written later.             *)

\* Faulty form: one key too many.
HasRoomInclusive(list) == Cardinality(list) <= MaxKeysKept
HasRoom(list) == Cardinality(list) < MaxKeysKept
Begin(u, fails) ==
    /\ mcp[u] = Idle /\ Fault(fails)
    /\ crossed' = (crossed \/ fails \/ \E v \in Users : Writing(v))
mcpAPIKeysCreate(u, fails) ==
    LET list == loadMcpAPIKeys(fails) IN
    /\ Begin(u, fails) /\ minted < MaxMade
    /\ HasRoom(list)        \* or the request is refused
    /\ minted' = minted + 1
    /\ mcp' = [mcp EXCEPT ![u] = [at |-> "write", list |-> list \cup {[id |-> minted', key |-> minted']},
                                  adds |-> {minted'}, drops |-> {}]]
    /\ UNCHANGED <<keyList, mcpNow, stamps, entered, valid>> /\ used' = Unused

\* Faulty form: what was added after the key goes with it.
CutFrom(list, id) == {d \in list : d.id < id}
Without(list, id) == {d \in list : d.id # id}
handleMcpKeyByID(u, id, fails) ==
    LET list == loadMcpAPIKeys(fails) IN
    /\ Begin(u, fails)
    /\ id \in Ids(list)     \* or the request is answered with 404
    /\ mcp' = [mcp EXCEPT ![u] = [at |-> "write", list |-> Without(list, id), adds |-> {},
                                  drops |-> {d.key : d \in {e \in list : e.id = id}}]]
    /\ UNCHANGED <<keyList, minted, mcpNow, stamps, entered, valid>> /\ used' = Unused

Write(u, fails) ==
    /\ Writing(u) /\ Fault(fails)
    /\ saveMcpAPIKeys(mcp[u].list, fails)
    /\ valid' = (valid \cup mcp[u].adds) \ mcp[u].drops
    /\ crossed' = (crossed \/ fails)
    /\ mcp' = [mcp EXCEPT ![u] = Idle]
    /\ UNCHANGED <<minted, mcpNow, stamps, entered>> /\ used' = Unused

\* Faulty form: it is added in any case.
seededAnew(list, id) == IF HasRoom(list) THEN list \cup {[id |-> id, key |-> EnvKey]} ELSE list
seeded(list, id) ==
    IF EnvKey \in KeysOf(list) THEN list
    ELSE IF HasRoom(list) THEN list \cup {[id |-> id, key |-> EnvKey]} ELSE list
\* A start: requests are lost, the limiter has seen nothing, and the key of the
\* environment is added unless the list holds it.  Its read and its write may fail.
seedMcpAPIKeyFromEnv(fails, lost) ==
    LET list == loadMcpAPIKeys(fails)
        new == seeded(list, minted + 1)
    IN /\ Fault(TRUE)
       /\ (lost => new # list) /\ (new # list => minted < MaxMade)
       /\ IF new = list THEN UNCHANGED <<keyList, minted, valid>>
          ELSE saveMcpAPIKeys(new, lost) /\ minted' = minted + 1 /\ valid' = valid \cup {EnvKey}
       /\ crossed' = (crossed \/ fails \/ lost)
       /\ mcp' = [u \in Users |-> Idle] /\ stamps' = NoStamps /\ entered' = <<>>
       /\ UNCHANGED mcpNow /\ used' = Unused

-----------------------------------------------------------------------------
(* Using a key.  The clock is read before the lock is taken.                  *)

Arrive(u, key) ==
    /\ mcp[u] = Idle
    /\ mcp' = [mcp EXCEPT ![u] = [at |-> "limit", key |-> key, clock |-> mcpNow]]
    /\ UNCHANGED <<keyList, minted, mcpNow, stamps, entered, valid, crossed, mcpFaults>> /\ used' = Unused

\* Faulty form: the window is open at its beginning.
KeptWithin(clock) == {i \in DOMAIN stamps : stamps[i] > clock - Window}
\* The admissions that are within the window of a request.
Kept(clock) == {i \in DOMAIN stamps : stamps[i] >= clock - Window}
\* A request that the limiter lets in is let in further if the list holds its key.
\* The two look at different things, and are one step.
handleMcpEndpointPost(u, fails) ==
    /\ mcp[u].at = "limit" /\ Fault(fails)
    /\ LET key == mcp[u].key
           kept == Kept(mcp[u].clock)
           admitted == Cardinality(kept) < Limit
           next == Len(entered) + 1
       IN
       /\ fails => admitted
       /\ stamps' = [i \in kept \cup (IF admitted THEN {next} ELSE {}) |->
                        IF i = next THEN mcp[u].clock ELSE stamps[i]]
       /\ entered' = IF admitted THEN Append(entered, mcpNow) ELSE entered
       /\ used' = IF ~admitted THEN Unused
                  ELSE [let |-> key \in KeysOf(loadMcpAPIKeys(fails)), ought |-> key \in valid,
                        inTurn |-> ~(crossed \/ fails \/ \E v \in Users : Writing(v))]
       /\ mcp' = [mcp EXCEPT ![u] = Idle]
       /\ UNCHANGED <<keyList, minted, mcpNow, valid, crossed>>

Tick ==
    /\ mcpNow < MaxMcpTime /\ mcpNow' = mcpNow + 1
    /\ \A u \in Users : mcp[u].at = "limit" => mcpNow - mcp[u].clock < Delay
    /\ UNCHANGED <<keyList, minted, mcp, stamps, entered, valid, crossed, mcpFaults>> /\ used' = Unused

Next ==
    \/ \E u \in Users, fails \in BOOLEAN :
        \/ mcpAPIKeysCreate(u, fails)
        \/ \E id \in 1..minted : handleMcpKeyByID(u, id, fails)
        \/ Write(u, fails)
        \/ handleMcpEndpointPost(u, fails)
    \/ \E u \in Users, key \in {EnvKey} \cup 2..minted : Arrive(u, key)
    \/ \E fails, lost \in BOOLEAN : seedMcpAPIKeyFromEnv(fails, lost)
    \/ Tick
Spec == Init /\ [][Next]_vars

-----------------------------------------------------------------------------
(* Properties.                                                               *)

\* While writers take turns and no statement fails, the list holds each key that
\* is in force once and no other, and a use is answered by that; the cap holds
\* always (handlers_crypto.go:62, handlers_mutations3.go:30, mcp_key_seed.go:28).
KeysInForce ==
    /\ ~crossed /\ (\A u \in Users : ~Writing(u)) =>
        KeysOf(keyList) = valid /\ Cardinality(keyList) = Cardinality(valid)
    /\ used.inTurn => used.let = used.ought
    /\ Cardinality(keyList) <= MaxKeysKept

\* Any Limit + 1 requests that are admitted one after the other lie further apart
\* than the window, less what a request waits between the clock and the lock
\* (mcp_ratelimit.go:33).
RateIsBounded ==
    \A i \in DOMAIN entered :
        i + Limit \in DOMAIN entered => entered[i + Limit] - entered[i] > Window - Delay
===============================================================================
