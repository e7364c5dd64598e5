------------------------------- MODULE AiHelper -------------------------------
(***************************************************************************)
(* The AI helper (ai_helper.go, fix_ai_helper.go, ai_helper_context.go,    *)
(* ai_action_normalize.go, ai_action_execute.go, ai_chat.go).  A turn asks *)
(* the guard model, then the main model in up to MaxRounds + 1 rounds; the *)
(* calls of the model become proposals with signed tokens, which a browser *)
(* may execute until they expire.  The memories an answer suggests are     *)
(* reconciled with those of the chat.  Turns run at once, each write is    *)
(* best effort and the process may die.  The streamed answer and the JSON  *)
(* answer take the same steps.                                             *)
(***************************************************************************)
EXTENDS Integers, Sequences, FiniteSets, SequencesExt

CONSTANTS
    Turns,         \* requests to POST /api/ai/helper, all of one chat
    Questions,     \* kinds of questions that turns ask
    Actions,       \* the annotations: [id, page, implemented, confirm]
    Streams,       \* what the model may send: sequences of deltas
    Calls,         \* Calls[i]: what the arguments of tool call i say
    PivotCall,     \* the call the server makes up for a chart question
    MaxRounds,     \* maxToolRounds
    MaxToday,      \* bound on the clock
    Lifetime,      \* aiActionTokenTTLSeconds
    MaxCandidates, \* bound on the memories an answer suggests
    MaxExecuted,   \* bound on the executions looked at
    MaxAiFaults    \* bound on failing writes and deaths

HelperAssumption ==
    {MaxRounds, MaxToday, Lifetime, MaxCandidates, MaxExecuted, MaxAiFaults} \subseteq Nat

VARIABLES
    turn,      \* the turns
    memory,    \* sobs_ai_memories FINAL of the chat, and what each row covers
    tokens,    \* tokens given out
    executed,  \* history: executions answered 200
    toolLog,   \* the tool events in otel_logs
    today,     \* the clock
    aiFaults,
    forgotten  \* history: memories dropped for one that was never saved, or unseen

vars == <<turn, memory, tokens, executed, toolLog, today, aiFaults, forgotten>>

NoPage == "none"
Pages == {a.page : a \in Actions}
NoReply == [verdict |-> "", category |-> ""]
IdleTurn == [at |-> "idle", page |-> NoPage, question |-> "plain", said |-> NoReply,
             round |-> 0, answered |-> FALSE, left |-> 0, drops |-> {}, strays |-> {}, covers |-> {}]

Init ==
    /\ turn = [t \in Turns |-> IdleTurn]
    /\ memory = <<>>
    /\ tokens = {} /\ executed = {} /\ toolLog = {}
    /\ today = 0 /\ aiFaults = 0 /\ forgotten = {}

Live == {i \in DOMAIN memory : memory[i].live}
Fail == aiFaults < MaxAiFaults /\ aiFaults' = aiFaults + 1
NoFault == UNCHANGED aiFaults

\* What a request to the guard model comes to: a text, perhaps an empty one, or
\* an error, whose text may hold the body of the reply.
Says == {"safe", "unsafe S8", "unsafe S9", "chatter"}
Asked == [failed : BOOLEAN, text : Says \union {""}]

\* parseGuardReplyFull and parseOssSafeguardReply, which are strict.
parseGuardReply(text) ==
    CASE text = "safe" -> [verdict |-> "SAFE", category |-> ""]
      [] text = "unsafe S8" -> [verdict |-> "UNSAFE", category |-> "S8"]
      [] text = "unsafe S9" -> [verdict |-> "UNSAFE", category |-> "S9"]
      [] OTHER -> NoReply

\* An empty reply is asked for once more; a second one is an error of its own.
\* Of an error the text is looked at as a reply would be.
guardCallLLM(first, again) ==
    IF first.failed \/ first.text # "" THEN parseGuardReply(first.text)
    ELSE IF again.failed THEN NoReply ELSE parseGuardReply(again.text)

heuristicGuardCheck(q) == q # "injection"
aiGuardNoisyCategories == {"S8"}  \* of the categories above
Benign(q, category) ==
    \/ category \in aiGuardNoisyCategories /\ q \in {"observability", "ai_usage", "navigation"}
    \/ category = "S8" /\ q = "ai_usage"

-----------------------------------------------------------------------------
(* Faulty forms of definitions below: bugs the properties must catch.      *)

\* A guard that cannot be reached lets the question pass.
aiHelperGuardCheckOpen(q, reply) ==
    heuristicGuardCheck(q) /\ (reply.verdict # "UNSAFE" \/ Benign(q, reply.category))

\* The memories named in drop_ids go, also when the new one is ignored.
NextCandidateDropsIgnored(t) ==
    /\ turn[t].at = "reconcile" /\ turn[t].left > 0
    /\ \E drop \in SUBSET Live :
        \/ /\ turn' = [turn EXCEPT ![t].left = @ - 1]
           /\ memory' = [i \in DOMAIN memory |->
                            [memory[i] EXCEPT !.live = @ /\ i \notin drop]]
        \/ /\ turn' = [turn EXCEPT ![t].at = "save", ![t].drops = drop,
                           ![t].covers = drop \union UNION {memory[i].covers : i \in drop}]
           /\ UNCHANGED memory
    /\ UNCHANGED <<tokens, executed, toolLog, today, aiFaults, forgotten>>

-----------------------------------------------------------------------------
\* aiHelperGuardCheck: what is not a verdict blocks.
aiHelperGuardCheck(q, reply) ==
    /\ heuristicGuardCheck(q)
    /\ \/ reply.verdict = "SAFE"
       \/ reply.verdict = "UNSAFE" /\ Benign(q, reply.category)

\* Fragments of arguments gather in a slot per index.  A flush, at the end and
\* when the stream says so, turns each slot into a call; arguments that are not
\* whole do not parse, name no action and so propose nothing.
flush(acc) ==
    [acc EXCEPT !.calls = @ \union {i \in DOMAIN Calls : acc.slots[i] = <<"head", "tail">>},
                !.slots = [i \in DOMAIN Calls |-> <<>>]]

streamLLMEndpoint(stream) ==
    LET Take(acc, d) ==
            CASE d.kind = "args" -> [acc EXCEPT !.slots[d.index] = Append(@, d.part)]
              [] d.kind = "text" -> [acc EXCEPT !.text = TRUE]
              [] d.kind = "tool_calls" -> flush(acc)
    IN flush(FoldLeft(Take, [slots |-> [i \in DOMAIN Calls |-> <<>>], calls |-> {},
                             text |-> FALSE], stream))

helperActionManifestForPage(page, id) == {a \in Actions : a.page = page /\ a.id = id}

\* The descriptor is that of the page, else of the target.  Another target asks
\* for confirmation, as the descriptor may; a page among the call's arguments
\* takes the target's place in the payload, not in that question.
normalizeGenericUIActionToolCall(call, page) ==
    LET target == IF call.target # NoPage THEN call.target ELSE page
        here == helperActionManifestForPage(page, call.id)
        meta == IF here # {} THEN here ELSE helperActionManifestForPage(target, call.id)
        Proposal(p, supported, confirm) ==
            [id |-> call.id, page |-> p, supported |-> supported, confirm |-> confirm]
    IN CASE meta = {} -> Proposal(target, FALSE, TRUE)
         [] meta # {} /\ ~call.fits -> Proposal(target, FALSE, FALSE)
         [] OTHER -> Proposal(IF call.inner # NoPage THEN call.inner ELSE target,
                              \E a \in meta : a.implemented,
                              target # page \/ \E a \in meta : a.confirm)

suggestChartDashboardPivotTool(page) ==
    IF page = PivotCall.target THEN {}
    ELSE {normalizeGenericUIActionToolCall(PivotCall, page)}

attachAiActionToken(t, proposals) ==
    {[turn |-> t, id |-> p.id, page |-> p.page, confirm |-> p.confirm,
      exp |-> today + Lifetime] : p \in {q \in proposals : q.supported}}

\* emitToolProposed and the tool.executed event; the insert may fail.
Emit(events) ==
    \/ toolLog' = toolLog \union events /\ NoFault
    \/ events # {} /\ UNCHANGED toolLog /\ Fail

\* The entries of a turn: the actions by id, and whether one was executed.
loadChatToolHistory(t) ==
    LET mine == {e \in toolLog : e.turn = t}
    IN [id \in {e.id : e \in mine} |->
           IF \E e \in mine : e.id = id /\ e.event = "tool.executed"
           THEN "executed" ELSE "proposed"]

-----------------------------------------------------------------------------
\* The question arrives.  Without an endpoint the answer is 503.
Start(t) ==
    /\ turn[t].at = "idle"
    /\ \E page \in Pages, q \in Questions, configured \in BOOLEAN :
        turn' = [turn EXCEPT ![t] = [IdleTurn EXCEPT
                    !.at = IF configured THEN "guard" ELSE "refused",
                    !.page = page, !.question = q]]
    /\ UNCHANGED <<memory, tokens, executed, toolLog, today, aiFaults, forgotten>>

\* guardCallLLM and its verdict; a blocked turn is over.
Guard(t) ==
    /\ turn[t].at = "guard"
    /\ \E first, again \in Asked :
        LET reply == guardCallLLM(first, again)
        IN turn' = [turn EXCEPT ![t].said = reply,
                          ![t].at = IF aiHelperGuardCheck(turn[t].question, reply)
                                 THEN "ask" ELSE "blocked"]
    /\ UNCHANGED <<memory, tokens, executed, toolLog, today, aiFaults, forgotten>>

\* The proposals of a round: those of its calls, or the pivot.
Proposed(stream, chart, page) ==
    LET asked == {normalizeGenericUIActionToolCall(Calls[i], page) :
                     i \in streamLLMEndpoint(stream).calls}
    IN IF asked = {} /\ chart THEN suggestChartDashboardPivotTool(page) ELSE asked

\* The next round only if there is something to feed back and nothing waits for
\* a confirmation.
LoopEnds(props, round) ==
    props = {} \/ round >= MaxRounds \/ \E p \in props : p.confirm

\* A round: the stream, or nothing if the request fails, what it proposes, the
\* tokens and the events of that.
AskModel(t) ==
    /\ turn[t].at = "ask"
    /\ \E stream \in Streams \union {<<>>}, chart \in BOOLEAN :
        LET props == Proposed(stream, chart, turn[t].page)
            answered == turn[t].answered \/ streamLLMEndpoint(stream).text
        IN /\ turn' = [turn EXCEPT ![t].answered = answered, ![t].round = @ + 1,
                          ![t].at = IF ~LoopEnds(props, turn[t].round) THEN "ask"
                                    ELSE IF answered THEN "answer" ELSE "error"]
           /\ tokens' = tokens \union attachAiActionToken(t, props)
           /\ Emit({[event |-> "tool.proposed", turn |-> t, id |-> p.id] : p \in props})
    /\ UNCHANGED <<memory, executed, today, forgotten>>

\* extractMemoryCandidates: how many memories the answer may suggest.
extractMemoryCandidates == 0..MaxCandidates

Answer(t) ==
    /\ turn[t].at = "answer"
    /\ \E n \in extractMemoryCandidates :
        turn' = [turn EXCEPT ![t].at = "reconcile", ![t].left = n]
    /\ UNCHANGED <<memory, tokens, executed, toolLog, today, aiFaults, forgotten>>

\* The live memories like a candidate, at most four; none if the read fails.
semanticMemoryMatches == {r \in SUBSET Live : Cardinality(r) <= 4}

\* consolidateMemoryCandidates: the new one is ignored, or kept in the place of
\* some of them.  A model that fails keeps it.  The ids of a reply are taken as
\* they come: strays are memories of the chat it names without being shown them.
NextCandidate(t) ==
    /\ turn[t].at = "reconcile" /\ turn[t].left > 0
    /\ \/ turn' = [turn EXCEPT ![t].left = @ - 1]
       \/ \E related \in semanticMemoryMatches, drop \in SUBSET DOMAIN memory :
            LET shown == drop \intersect related
            IN turn' = [turn EXCEPT ![t].at = "save", ![t].drops = drop,
                           ![t].strays = drop \ related,
                           ![t].covers = shown \union UNION {memory[i].covers : i \in shown}]
    /\ UNCHANGED <<memory, tokens, executed, toolLog, today, aiFaults, forgotten>>

\* upsertAIMemory, a tombstone for each dropped memory in turn, a stray one
\* unchecked like the others ...
DropMemory(t) ==
    /\ turn[t].at = "save"
    /\ \E i \in turn[t].drops :
        /\ turn' = [turn EXCEPT ![t].drops = @ \ {i}]
        /\ \/ /\ memory' = [memory EXCEPT ![i].live = FALSE] /\ NoFault
              /\ forgotten' = IF i \in turn[t].strays
                              THEN forgotten \union {i} \union memory[i].covers ELSE forgotten
           \/ Fail /\ UNCHANGED <<memory, forgotten>>
    /\ UNCHANGED <<tokens, executed, toolLog, today>>

\* ... then the new one, under a fresh id.  Errors go unnoticed.
SaveMemory(t) ==
    /\ turn[t].at = "save" /\ turn[t].drops = {}
    /\ turn' = [turn EXCEPT ![t].at = "reconcile", ![t].left = @ - 1,
                        ![t].strays = {}, ![t].covers = {}]
    /\ \/ /\ memory' = Append(memory, [live |-> TRUE, covers |-> turn[t].covers])
          /\ NoFault /\ UNCHANGED forgotten
       \/ /\ Fail /\ UNCHANGED memory
          /\ forgotten' = forgotten \union turn[t].covers
    /\ UNCHANGED <<tokens, executed, toolLog, today>>

\* The turn.complete and turn.summary events, and the answer.
Complete(t) ==
    /\ turn[t].at = "reconcile" /\ turn[t].left = 0
    /\ turn' = [turn EXCEPT ![t].at = "done"]
    /\ UNCHANGED <<memory, tokens, executed, toolLog, today, aiFaults, forgotten>>

\* handleApiAiHelperExecute: a token that is signed and has not expired, whose
\* action is implemented on its page, else on any, and is confirmed if the token
\* asks for it.  A token is good for any number of executions.
Execute(k, confirmed) ==
    LET here == helperActionManifestForPage(k.page, k.id)
        meta == IF here # {} THEN here ELSE {a \in Actions : a.id = k.id}
    IN /\ k.exp > today
       /\ \E a \in meta : a.implemented
       /\ k.confirm => confirmed
       /\ Cardinality(executed) < MaxExecuted
       /\ Emit({[event |-> "tool.executed", turn |-> k.turn, id |-> k.id]})
       /\ executed' = executed \union
              {[token |-> k, confirmed |-> confirmed, on |-> today,
                logged |-> aiFaults' = aiFaults]}
       /\ UNCHANGED <<turn, memory, tokens, today, forgotten>>

Tick ==
    /\ today < MaxToday
    /\ today' = today + 1
    /\ UNCHANGED <<turn, memory, tokens, executed, toolLog, aiFaults, forgotten>>

\* The process dies: tokens, signed with the secret of the settings, stay good.
Die ==
    /\ Fail
    /\ turn' = [t \in Turns |-> [turn[t] EXCEPT !.at =
                   IF @ \in {"guard", "ask", "answer", "reconcile", "save"} THEN "dead" ELSE @]]
    /\ forgotten' = forgotten \union
           UNION {turn[t].covers : t \in {u \in Turns : turn[u].at = "save"}}
    /\ UNCHANGED <<memory, tokens, executed, toolLog, today>>

Next ==
    \/ \E t \in Turns :
        \/ Start(t) \/ Guard(t) \/ AskModel(t) \/ Answer(t) \/ NextCandidate(t)
        \/ DropMemory(t) \/ SaveMemory(t) \/ Complete(t)
    \/ \E k \in tokens, confirmed \in BOOLEAN : Execute(k, confirmed)
    \/ Tick
    \/ Die

Spec == Init /\ [][Next]_vars

-----------------------------------------------------------------------------
TypeOK ==
    /\ \A t \in Turns : turn[t].round \in 0..(MaxRounds + 1) /\ turn[t].drops \subseteq DOMAIN memory
    /\ executed \subseteq [token : tokens, confirmed : BOOLEAN, on : 0..MaxToday, logged : BOOLEAN]
    /\ aiFaults \in 0..MaxAiFaults

\* What a browser executes was proposed by a turn that the guard let pass, less
\* than the lifetime of a token ago, and is implemented; without a confirmation
\* only what the page of the question offers unconfirmed; and the history of the
\* chat shows it as executed, unless the event could not be written.
SanctionedActions ==
    \A e \in executed :
        LET k == e.token
            asked == turn[k.turn]
        IN /\ e.on < k.exp
           /\ asked.question # "injection" /\ asked.said.verdict # ""
           /\ asked.said.verdict = "UNSAFE" => asked.said.category # "S9"
           /\ \E a \in Actions : a.id = k.id /\ a.implemented
           /\ ~e.confirmed =>
                \E a \in Actions : a.id = k.id /\ a.page = asked.page /\ ~a.confirm
           /\ e.logged => loadChatToolHistory(k.turn)[k.id] = "executed"

\* No memory gets lost between turns that reconcile the same ones at once: each
\* is live or stood in for by a live one, while no turn is about to save that
\* one - unless the write of that one failed or the process died before it, or
\* a reply named the memory, or one standing in for it, without having been
\* shown it (ai_helper_context.go:473): nothing compares such ids.
NothingForgotten ==
    \A i \in DOMAIN memory :
        \/ i \in Live \union forgotten
        \/ \E j \in Live : i \in memory[j].covers
        \/ \E t \in Turns : turn[t].at = "save" /\ i \in turn[t].covers
=============================================================================
