-------------------------- MODULE NotificationRules --------------------------
(***************************************************************************)
(* Notification rules: POST /api/notifications/check (notif_check.go under *)
(* src/go/cmd/sobs) fires the rules whose conditions are met, at most once *)
(* per cooldown, while the forms of the settings page (handlers_forms.go)  *)
(* create, edit, toggle and delete them.  Every writer reads a row and     *)
(* later inserts a whole one; nothing locks them against each other, and   *)
(* the row with the greatest Version, the later of two equal ones, is the  *)
(* one a query FINAL sees.                                                 *)
(***************************************************************************)
EXTENDS Naturals, Sequences, FiniteSets

CONSTANTS
    Checks,         \* POST /api/notifications/check
    Posts,          \* POST /settings/notifications/rules and below
    Forms,          \* what the posts may do
    Rules,
    Confs,          \* what the edit form holds: name, conditions, channels, cooldown
    CooldownOf,     \* CooldownOf[c]: CooldownSeconds
    First,          \* the clock starts here, long after the epoch
    MaxTime         \* bound on the clock

NotificationAssumption ==
    /\ Forms \subseteq {"create", "save", "toggle", "delete"}
    /\ Confs # {}
    /\ CooldownOf \in [Confs -> Nat]
    /\ First \in Nat \ {0} /\ MaxTime \in Nat
    /\ \A c \in Confs : CooldownOf[c] <= First

VARIABLES
    now,        \* the clock
    rules,      \* sobs_notification_rules FINAL
    check,      \* check[k]: the local variables of check k
    post,       \* post[p]: those of form post p
    fires,      \* history: firings whose LastFiredAt was inserted
    stale,      \* history: <<k, r>>, a post wrote r after check k had read it
    reset,      \* history: rules that were toggled or deleted
    mixed       \* history: two requests were served at once

history == <<fires, stale, reset, mixed>>
vars == <<now, rules, check, post, history>>

\* The epoch, a rule's LastFiredAt before it fires.
Never == 0

Row(live, enabled, conf, last, ver) ==
    [live |-> live, enabled |-> enabled, conf |-> conf, last |-> last, ver |-> ver]

AnyConf == CHOOSE c \in Confs : TRUE
NoRow == Row(FALSE, FALSE, AnyConf, Never, Never)
Idle == [at |-> "new", rules |-> {}, id |-> "none", row |-> NoRow]

Init ==
    /\ now = First
    /\ rules \in [Rules -> {NoRow} \cup {Row(TRUE, TRUE, c, Never, First) : c \in Confs}]
    /\ check = [k \in Checks |-> Idle]
    /\ post = [p \in Posts |-> [at |-> "new", form |-> "none", id |-> "none", row |-> NoRow]]
    /\ fires = {}
    /\ stale = {}
    /\ reset = {}
    /\ mixed = FALSE

\* What an insert leaves to be seen.
Insert(r, row) ==
    rules' = IF row.ver >= rules[r].ver THEN [rules EXCEPT ![r] = row] ELSE rules

Reading == {"rule", "evaluate", "dispatch", "build", "bump"}
Over == {"new", "done", "dead"}

Serving ==
    {k \in Checks : check[k].at \notin Over} \cup {p \in Posts : post[p].at \notin Over}

\* A request begins.
Begin == mixed' = (mixed \/ Serving # {})

-----------------------------------------------------------------------------
(* Faulty forms of definitions below: bugs the properties must catch.      *)

\* IsDeleted = 0 is missing from the query.
LoadRulesDeletedToo(k) ==
    /\ check[k].at = "new"
    /\ check' = [check EXCEPT
           ![k].at = "rule",
           ![k].rules = {[id |-> r, enabled |-> rules[r].enabled, conf |-> rules[r].conf] :
                             r \in {q \in Rules : rules[q] # NoRow}}]
    /\ Begin
    /\ UNCHANGED <<now, rules, post, fires, stale, reset>>

\* The row has LastFiredAt and the key alone.
BuildRowPartial(k) ==
    /\ check[k].at = "build"
    /\ check' = [check EXCEPT ![k].at = "bump", ![k].row = Row(TRUE, TRUE, AnyConf, now, now)]
    /\ UNCHANGED <<now, rules, post, history>>

\* An edit makes a new rule of it.
SaveAfresh(p, r) ==
    /\ "save" \in Forms
    /\ rules[r].live
    /\ post[p].at = "new"
    /\ \E c \in Confs :
           post' = [post EXCEPT ![p] = [at |-> "insert", form |-> "save", id |-> r,
                                        row |-> Row(TRUE, rules[r].enabled, c, Never, now)]]
    /\ Begin
    /\ UNCHANGED <<now, rules, check, fires, stale, reset>>

-----------------------------------------------------------------------------
(* A check.                                                                *)

\* The rules are loaded, by their names.
LoadRules(k) ==
    /\ check[k].at = "new"
    /\ check' = [check EXCEPT
           ![k].at = "rule",
           ![k].rules = {[id |-> r, enabled |-> rules[r].enabled, conf |-> rules[r].conf] :
                             r \in {q \in Rules : rules[q].live}}]
    /\ Begin
    /\ UNCHANGED <<now, rules, post, fires, stale, reset>>

\* The rest of the rules a check has loaded, without rule u.
NextRule(k, u) == check' = [check EXCEPT ![k].at = "rule", ![k].rules = @ \ {u}]

\* A disabled rule is passed over, and one in its cooldown, for which
\* LastFiredAt is read again.
BeginRule(k) ==
    /\ check[k].at = "rule"
    /\ \E u \in check[k].rules :
           IF u.enabled /\ now - rules[u.id].last >= CooldownOf[u.conf]
           THEN check' = [check EXCEPT ![k].at = "evaluate", ![k].id = u.id]
           ELSE NextRule(k, u)
    /\ UNCHANGED <<now, rules, post, history>>

\* The rule at hand, as it was loaded.
Current(k) == CHOOSE u \in check[k].rules : u.id = check[k].id

\* Its conditions are met or not, as the signals and tags have it. A panic is
\* caught, and the check goes on with the next rule.
Evaluate(k) ==
    /\ check[k].at = "evaluate"
    /\ \/ check' = [check EXCEPT ![k].at = "dispatch"]
       \/ NextRule(k, Current(k))
    /\ UNCHANGED <<now, rules, post, history>>

\* The rule's channels are sent the payload one after the other, and what
\* came of it is logged: no later step depends on it.
Dispatch(k) ==
    /\ check[k].at = "dispatch"
    /\ check' = [check EXCEPT ![k].at = "build"]
    /\ UNCHANGED <<now, rules, post, history>>

\* The row with LastFiredAt is made of the rule as the check loaded it,
BuildRow(k) ==
    /\ check[k].at = "build"
    /\ check' = [check EXCEPT ![k].at = "bump",
           ![k].row = Row(TRUE, Current(k).enabled, Current(k).conf, now, now)]
    /\ UNCHANGED <<now, rules, post, history>>

\* and inserted. An insert that fails goes unnoticed.
Bump(k) ==
    /\ check[k].at = "bump"
    /\ LET r == check[k].id IN
       \/ /\ Insert(r, check[k].row)
          /\ fires' = fires \cup {[rule |-> r, at |-> check[k].row.last]}
       \/ UNCHANGED <<rules, fires>>
    /\ NextRule(k, Current(k))
    /\ UNCHANGED <<now, post, stale, reset, mixed>>

EndCheck(k) ==
    /\ check[k].at = "rule" /\ check[k].rules = {}
    /\ check' = [check EXCEPT ![k] = [Idle EXCEPT !.at = "done"]]
    /\ UNCHANGED <<now, rules, post, history>>

-----------------------------------------------------------------------------
(* The forms. Each reads the row, builds another and inserts it.           *)

Hold(p, form, r, row) ==
    /\ form \in Forms
    /\ post[p].at = "new"
    /\ post' = [post EXCEPT ![p] = [at |-> "insert", form |-> form, id |-> r, row |-> row]]
    /\ Begin
    /\ UNCHANGED <<now, rules, check, fires, stale, reset>>

\* A new rule gets an id of its own.
Create(p, r) ==
    /\ rules[r] = NoRow
    /\ \A q \in Posts : post[q].id # r
    /\ \E c \in Confs : Hold(p, "create", r, Row(TRUE, TRUE, c, Never, now))

\* An edit keeps Enabled and LastFiredAt.
Save(p, r) ==
    /\ rules[r].live
    /\ \E c \in Confs : Hold(p, "save", r, Row(TRUE, rules[r].enabled, c, rules[r].last, now))

\* The others set LastFiredAt back to the epoch.
Toggle(p, r) ==
    /\ rules[r].live
    /\ Hold(p, "toggle", r, Row(TRUE, ~ rules[r].enabled, rules[r].conf, Never, now))

Delete(p, r) ==
    /\ rules[r].live
    /\ Hold(p, "delete", r, Row(FALSE, rules[r].enabled, rules[r].conf, Never, now))

\* A failed insert is reported.
Write(p) ==
    /\ post[p].at = "insert"
    /\ LET r == post[p].id IN
       \/ /\ Insert(r, post[p].row)
          /\ stale' = stale \cup {<<k, r>> : k \in {j \in Checks : check[j].at \in Reading}}
          /\ reset' = IF post[p].form \in {"toggle", "delete"} THEN reset \cup {r} ELSE reset
       \/ UNCHANGED <<rules, stale, reset>>
    /\ post' = [post EXCEPT ![p].at = "done"]
    /\ UNCHANGED <<now, check, fires, mixed>>

-----------------------------------------------------------------------------

Tick ==
    /\ now < MaxTime
    /\ now' = now + 1
    /\ UNCHANGED <<rules, check, post, history>>

\* The process dies with the requests it was serving.
Crash ==
    /\ \/ \E k \in Checks : check[k].at \notin Over
       \/ \E p \in Posts : post[p].at \notin Over
    /\ check' = [k \in Checks |->
           IF check[k].at \in Over THEN check[k] ELSE [Idle EXCEPT !.at = "dead"]]
    /\ post' = [p \in Posts |->
           IF post[p].at \in Over THEN post[p] ELSE [post[p] EXCEPT !.at = "dead"]]
    /\ UNCHANGED <<now, rules, history>>

Check(k) ==
    \/ LoadRules(k) \/ BeginRule(k) \/ Evaluate(k) \/ Dispatch(k)
    \/ BuildRow(k) \/ Bump(k) \/ EndCheck(k)

Post(p) ==
    \/ \E r \in Rules : Create(p, r) \/ Save(p, r) \/ Toggle(p, r) \/ Delete(p, r)
    \/ Write(p)

Next ==
    \/ \E k \in Checks : Check(k)
    \/ \E p \in Posts : Post(p)
    \/ Tick
    \/ Crash

Spec == Init /\ [][Next]_vars

-----------------------------------------------------------------------------
(* Properties.                                                             *)

\* A check k that begins to dispatch its rule does so a cooldown after the
\* firings whose LastFiredAt was inserted.
Rested(k) ==
    check[k].at = "evaluate" /\ check'[k].at = "dispatch" =>
        \A e \in fires :
            e.rule = check[k].id => now - e.at >= CooldownOf[Current(k).conf]

\* "A cooldown prevents re-firing until the configured interval has elapsed", as
\* long as requests come one after the other and the rule was not toggled,
\* whatever was created and edited, and wherever the process died.
RestsInTurn == \A k \in Checks : ~ mixed /\ check[k].id \notin reset => Rested(k)

\* A check changes nothing of a rule but its LastFiredAt, and does not bring
\* it back once deleted, unless some check had it loaded when a post wrote it.
KeepsRules ==
    \A k \in Checks :
        LET r == check[k].id IN
        /\ check[k].at = "bump" /\ check'[k].at = "rule"
        /\ \A j \in Checks : <<j, r>> \notin stale
        => [rules'[r] EXCEPT !.last = 0, !.ver = 0] = [rules[r] EXCEPT !.last = 0, !.ver = 0]

\* A rule that was disabled or deleted before a check loaded the rules is not
\* dispatched by it, whatever the checks and posts beside it write.
QuietWhenOff ==
    \A k \in Checks :
        LET r == check[k].id IN
        /\ check[k].at = "evaluate" /\ check'[k].at = "dispatch"
        /\ <<k, r>> \notin stale
        => rules[r].live /\ rules[r].enabled

\* No step breaks them.
ChecksKeepRules == [][KeepsRules /\ QuietWhenOff]_vars
CooldownInTurn == [][RestsInTurn]_vars
=============================================================================
