-------------------------------- MODULE CiKeys --------------------------------
(***************************************************************************)
(* The key with which a CI pushes releases to one application: rotated and  *)
(* revoked by repositories_actions.go, read by the gate of the /v1 routes   *)
(* (auth.go enforceAPIKey).  Its hash and its expiry are two settings, each  *)
(* written and read on its own; a write that fails is not noticed, and a    *)
(* setting whose read fails counts as empty.                                *)
(***************************************************************************)
EXTENDS Integers, FiniteSets

CONSTANTS
    Callers,    \* requests at once: forms that rotate or revoke, and pushes of a CI
    StaticKey,  \* SOBS_API_KEY is set
    MaxKeys, MaxPushes, MaxRevokes, MaxKeyFaults

VARIABLES
    ciHash,     \* the setting with the hash: the number of a key, 0 for none
    ciExpiry,   \* the setting with the expiry: the key whose days it counts, 0 for none
    minted,     \* the keys made so far are 1..minted
    passed,     \* the keys whose days have passed
    caller,     \* the requests
    pushes, revokes, keyFaults,
    told,       \* history: keys whose rotation was answered
    over        \* history: keys that an answered rotation or revocation has ended
keyVars == <<ciHash, ciExpiry, minted, passed, caller, pushes, revokes, keyFaults, told, over>>

NoCall == [at |-> "idle", key |-> 0, ends |-> {}, wrote |-> TRUE,
           route |-> "", conf |-> FALSE, hash |-> 0, dead |-> {}, shut |-> FALSE, blind |-> FALSE]
Keys == 1 .. MaxKeys
Managed(route) == route \in {"app", "release"}

Init ==
    /\ ciHash = 0 /\ ciExpiry = 0
    /\ minted = 0 /\ passed = {}
    /\ caller = [c \in Callers |-> NoCall]
    /\ pushes = 0 /\ revokes = 0 /\ keyFaults = 0
    /\ told = {} /\ over = {}

At(c, step) == caller[c].at = step
Go(c, call) == caller' = [caller EXCEPT ![c] = call]
Fails == keyFaults < MaxKeyFaults /\ keyFaults' = keyFaults + 1

-----------------------------------------------------------------------------
(* The forms.                                                              *)

\* A fresh key; what was answered before is what it ends.
rotateCiPushKey(c) ==
    /\ At(c, "idle") /\ minted < MaxKeys
    /\ minted' = minted + 1
    /\ Go(c, [NoCall EXCEPT !.at = "hash", !.key = minted + 1, !.ends = told])
    /\ UNCHANGED <<ciHash, ciExpiry, passed, pushes, revokes, keyFaults, told, over>>
\* Revoking writes the same settings, empty; no gate that is open now counts as shut.
repoCiKeyRevoke(c) ==
    /\ At(c, "idle") /\ revokes < MaxRevokes
    /\ revokes' = revokes + 1
    /\ caller' = [d \in Callers |->
            IF d = c THEN [NoCall EXCEPT !.at = "hash", !.ends = told]
            ELSE [caller[d] EXCEPT !.shut = FALSE]]
    /\ UNCHANGED <<ciHash, ciExpiry, minted, passed, pushes, keyFaults, told, over>>

\* Faulty form: the hash is written only when there is a new one.
writeHashOfRotation(c) ==
    /\ At(c, "hash")
    /\ ciHash' = IF caller[c].key = 0 THEN ciHash ELSE caller[c].key
    /\ Go(c, [caller[c] EXCEPT !.at = "expiry"])
    /\ UNCHANGED <<ciExpiry, minted, passed, pushes, revokes, keyFaults, told, over>>
writeHash(c) ==
    /\ At(c, "hash")
    /\ \/ /\ ciHash' = caller[c].key /\ UNCHANGED keyFaults
          /\ Go(c, [caller[c] EXCEPT !.at = "expiry"])
       \/ /\ Fails /\ UNCHANGED ciHash
          /\ Go(c, [caller[c] EXCEPT !.at = "expiry", !.wrote = FALSE])
    /\ UNCHANGED <<ciExpiry, minted, passed, pushes, revokes, told, over>>
\* The answer shows the key once, whatever was written.
writeExpiry(c) ==
    /\ At(c, "expiry")
    /\ \/ ciExpiry' = caller[c].key /\ UNCHANGED keyFaults
       \/ Fails /\ UNCHANGED ciExpiry
    /\ told' = IF caller[c].key = 0 THEN told ELSE told \cup {caller[c].key}
    /\ over' = IF caller[c].wrote THEN over \cup caller[c].ends ELSE over
    /\ Go(c, NoCall)
    /\ UNCHANGED <<ciHash, minted, passed, pushes, revokes>>

\* The last second of the last day of a key passes.
Passes ==
    /\ \E k \in 1 .. minted \ passed : passed' = passed \cup {k}
    /\ UNCHANGED <<ciHash, ciExpiry, minted, caller, pushes, revokes, keyFaults, told, over>>

-----------------------------------------------------------------------------
(* The gate: a push with a key, 0 for none or a wrong one.  The gate counts  *)
(* as shut if the last key told is in force and nothing is taking it away.  *)

Shut == /\ ciHash # 0
        /\ \A c \in Callers : At(c, "hash") => caller[c].key # 0
enforceAPIKey(c) ==
    /\ At(c, "idle") /\ pushes < MaxPushes
    /\ pushes' = pushes + 1
    /\ \E k \in {0} \cup told, route \in {"app", "release", "ingest"} :
        Go(c, [NoCall EXCEPT !.at = IF Managed(route) THEN "target" ELSE "verdict",
                             !.key = k, !.route = route, !.dead = over, !.shut = Shut])
    /\ UNCHANGED <<ciHash, ciExpiry, minted, passed, revokes, keyFaults, told, over>>

\* The application of the path; that of a release is looked up, and when that fails
\* the push is not gated by a key of the application.
resolveManagedCITargetAppID(c) ==
    /\ At(c, "target")
    /\ \/ Go(c, [caller[c] EXCEPT !.at = "configured"]) /\ UNCHANGED keyFaults
       \/ /\ caller[c].route = "release" /\ Fails
          /\ Go(c, [caller[c] EXCEPT !.at = "verdict", !.blind = TRUE])
    /\ UNCHANGED <<ciHash, ciExpiry, minted, passed, pushes, revokes, told, over>>
\* Whether the application has a key is read first, and has none if that fails ...
ciPushStatus(c) ==
    /\ At(c, "configured")
    /\ \/ /\ UNCHANGED keyFaults
          /\ Go(c, IF ciHash = 0 THEN [caller[c] EXCEPT !.at = "verdict"]
                   ELSE [caller[c] EXCEPT !.at = IF caller[c].key = 0 THEN "verdict" ELSE "key",
                                          !.conf = TRUE])
       \/ Fails /\ Go(c, [caller[c] EXCEPT !.at = "verdict", !.blind = TRUE])
    /\ UNCHANGED <<ciHash, ciExpiry, minted, passed, pushes, revokes, told, over>>
\* ... then the hash again, and last the expiry.
readHash(c) ==
    /\ At(c, "key")
    /\ \/ Go(c, [caller[c] EXCEPT !.at = "days", !.hash = ciHash]) /\ UNCHANGED keyFaults
       \/ Fails /\ Go(c, [caller[c] EXCEPT !.at = "verdict"])
    /\ UNCHANGED <<ciHash, ciExpiry, minted, passed, pushes, revokes, told, over>>
\* An expiry that is empty or not read is "unknown", which is not "expired".
isValidCiPushAPIKey(c) ==
    /\ At(c, "days")
    /\ \/ /\ Go(c, [caller[c] EXCEPT !.at = "verdict",
                      !.hash = IF ciExpiry \in passed THEN 0 ELSE @])
          /\ UNCHANGED keyFaults
       \/ Fails /\ Go(c, [caller[c] EXCEPT !.at = "verdict"])
    /\ UNCHANGED <<ciHash, ciExpiry, minted, passed, pushes, revokes, told, over>>

\* The static key is not one of the keys here: a push that has it is not of interest.
ManagedOK(c) == caller[c].conf /\ caller[c].key # 0 /\ caller[c].key = caller[c].hash
Admitted(c) == At(c, "verdict") /\ (IF StaticKey THEN ManagedOK(c)
                                    ELSE caller[c].conf => ManagedOK(c))
answerPush(c) ==
    /\ At(c, "verdict")
    /\ Go(c, NoCall)
    /\ UNCHANGED <<ciHash, ciExpiry, minted, passed, pushes, revokes, keyFaults, told, over>>

Next ==
    \/ \E c \in Callers :
        \/ rotateCiPushKey(c) \/ repoCiKeyRevoke(c) \/ writeHash(c) \/ writeExpiry(c)
        \/ enforceAPIKey(c) \/ resolveManagedCITargetAppID(c) \/ ciPushStatus(c)
        \/ readHash(c) \/ isValidCiPushAPIKey(c) \/ answerPush(c)
    \/ Passes
Spec == Init /\ [][Next]_keyVars

-----------------------------------------------------------------------------
\* A push is not admitted by a key that had been ended, by a rotation or a
\* revocation that was answered and whose write went in, before it came; nor, on a
\* route of the application, without a key while one was in force all along -
\* unless there is no static key and the gate could not read the application of
\* the release or whether it has a key: then it lets the push in (auth.go:153).
KeysGovernPushes == \A c \in Callers : Admitted(c) =>
    /\ ManagedOK(c) => caller[c].key \notin caller[c].dead
    /\ Managed(caller[c].route) /\ caller[c].shut =>
           ManagedOK(c) \/ (caller[c].blind /\ ~ StaticKey)
=============================================================================
