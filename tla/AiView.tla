-------------------------------- MODULE AiView --------------------------------
(* The page of AI calls by trace (ai_view.go, handlers_pages.go              *)
(* handleViewAi): the spans of a trace are gathered into the turns of a chat, *)
(* one card each.                                                            *)
(*                                                                           *)
(* Spans of a turn arrive one by one and in any order; their time does not    *)
(* tell those of one moment apart, and each statement may order these anew.   *)
EXTENDS Integers, Sequences, FiniteSets, FiniteSetsExt

CONSTANTS
    AiSpans,    \* spans that may arrive: [id, trace, turn, ts, event, model,
                \* tokens, system, input, output, action]
    AiRequests, \* what is asked for: [where, rowType, window]
    MaxAiSpans, \* bound on the spans that arrive
    MaxAiFaults \* bound on failing statements

AiViewAssumption == \A s \in AiSpans : s.ts \in Nat /\ s.tokens \in Nat

VARIABLES
    spans,      \* otel_traces, of the AI
    page,       \* the request: where it is and what it has read
    aiFaults

vars == <<spans, page, aiFaults>>
Blank == [at |-> "blank"]
Init == spans = {} /\ page = Blank /\ aiFaults = 0

-----------------------------------------------------------------------------
(* The text of a message.  Its content is "" when there is none, and a list   *)
(* of its own form when it came as one; parts and calls are texts in order.   *)

Join(chunks) == SelectSeq(chunks, LAMBDA c : c # "")
genaiToolCallsToText(calls) == [i \in DOMAIN calls |-> "call"]
genaiMessageContentToText(msg) ==
    IF msg.form = "list" THEN Join(msg.content)
    ELSE IF msg.content # <<>> THEN msg.content
    ELSE IF Join(msg.parts) # <<>> THEN Join(msg.parts)
    ELSE genaiToolCallsToText(msg.calls)
normalizeGenaiMessagesForDisplay(msgs) ==
    [i \in DOMAIN msgs |-> [role |-> msgs[i].role, content |-> genaiMessageContentToText(msgs[i])]]

\* System messages that repeat the instructions are counted and left out.
dedupeSystemInputMessages(shown, instructions) ==
    IF instructions = <<>> THEN shown
    ELSE SelectSeq(shown, LAMBDA msg : ~(msg.role = "system" /\ msg.content = instructions))
firstMessageContentForRoles(shown, role) ==
    LET said == {i \in DOMAIN shown : shown[i].role = role /\ shown[i].content # <<>>}
    IN IF said = {} THEN <<>> ELSE shown[CHOOSE i \in said : \A k \in said : i <= k].content

-----------------------------------------------------------------------------
(* The condition of the page.                                               *)

\* A filter of one's own is refused for its words; else its names become
\* columns, outside of what stands in quotes.
normalizeAiSQLWhere(words) ==
    IF \E i \in DOMAIN words : words[i].word = "drop" THEN <<>>
    ELSE [i \in DOMAIN words |-> IF ~words[i].quoted /\ words[i].word = "model"
                                 THEN [words[i] EXCEPT !.word = "column"] ELSE words[i]]
parseTimeWindowArgsStrings(w) ==
    LET to == IF w.to = 0 /\ w.from # 0 /\ w.len # 0 THEN w.from + w.len ELSE w.to
    IN [from |-> w.from, to |-> to, bad |-> w.from # 0 /\ to # 0 /\ to <= w.from]
timeWindowConditions(w, s) == (w.from = 0 \/ s.ts >= w.from) /\ (w.to = 0 \/ s.ts < w.to)

Refused(r) ==
    \/ parseTimeWindowArgsStrings(r.window).bad
    \/ r.where # <<>> /\ normalizeAiSQLWhere(r.where) = <<>>
\* With a filter of one's own the page's other filters do not count.
Where(r, s) ==
    /\ timeWindowConditions(parseTimeWindowArgsStrings(r.window), s)
    /\ IF r.where # <<>>
       THEN s.model = (CHOOSE w \in Range(normalizeAiSQLWhere(r.where)) : w.quoted).word
       ELSE CASE r.rowType = "llm" -> s.model # ""
              [] r.rowType = "system" -> s.model = ""
              [] OTHER -> TRUE
InTime(S) == {q \in Bijection(1 .. Cardinality(S), S) : \A i, k \in DOMAIN q : i < k => q[i].ts <= q[k].ts}

-----------------------------------------------------------------------------
(* The cards of one trace: a fold over its spans.                            *)

Item(s) ==
    [turn |-> s.turn, ts |-> s.ts, event |-> s.event, model |-> s.model, tokens |-> s.tokens,
     user |-> firstMessageContentForRoles(
        dedupeSystemInputMessages(normalizeGenaiMessagesForDisplay(s.input), s.system), "user"),
     reply |-> firstMessageContentForRoles(normalizeGenaiMessagesForDisplay(s.output), "assistant"),
     action |-> s.action]
newTurn(item) ==
    [turn |-> item.turn, status |-> "in_progress", started |-> item.ts, completed |-> item.ts,
     model |-> "", tokens |-> 0, user |-> <<>>, reply |-> <<>>, tools |-> <<>>]

\* Faulty form: the end of the turn has the last word on how it ended.
statusByLastEvent(t, item) ==
    CASE item.event = "turn.blocked" -> "blocked"
      [] item.event = "turn.error" -> "failed"
      [] item.event = "turn.cancelled" -> "cancelled"
      [] item.event = "turn.complete" -> "completed"
      [] OTHER -> t.status
status(t, item) ==
    CASE item.event = "turn.blocked" -> "blocked"
      [] item.event = "turn.error" -> "failed"
      [] item.event = "turn.cancelled" -> "cancelled"
      [] item.event = "turn.complete" /\ t.status = "in_progress" -> "completed"
      [] OTHER -> t.status
toolStatus(item) == IF item.event = "tool.executed" THEN "executed" ELSE "proposed"
addTool(t, item) ==
    LET tool == [action |-> item.action, status |-> toolStatus(item)]
    IN IF item.event \notin {"tool.proposed", "tool.executed"} \/ tool \in Range(t.tools)
       THEN t.tools ELSE Append(t.tools, tool)
orElse(held, given, none) == IF held = none THEN given ELSE held
absorb(t, item) ==
    [turn |-> t.turn, status |-> status(t, item),
     started |-> IF item.ts < t.started THEN item.ts ELSE t.started,
     completed |-> IF item.ts > t.completed THEN item.ts ELSE t.completed,
     model |-> orElse(t.model, item.model, ""),
     tokens |-> t.tokens + item.tokens,
     user |-> orElse(t.user, item.user, <<>>),
     reply |-> IF item.reply # <<>> /\ (item.event = "turn.complete" \/ t.reply = <<>>)
               THEN item.reply ELSE t.reply,
     tools |-> addTool(t, item)]

OfTurn(items, tid, id) == {i \in DOMAIN items : items[i].trace = tid /\ items[i].turn = id}
TurnIds(items, tid) == {items[i].turn : i \in {k \in DOMAIN items : items[k].trace = tid}} \ {""}
\* The spans at these positions, in their order.
Turn(items, mine) ==
    MapThenFoldSet(LAMBDA item, t : absorb(t, item), newTurn(Item(items[Min(mine)])),
                   LAMBDA i : Item(items[i]), LAMBDA S : Max(S), mine)
\* By their beginning, and by the id (here: any order) when they began at once.
InTurn(cards) ==
    {q \in Bijection(1 .. Cardinality(cards), cards) : \A i, k \in DOMAIN q : i < k => q[i].started <= q[k].started}
buildAiTraceTurnCards(items, tid) ==
    CHOOSE q \in InTurn({Turn(items, OfTurn(items, tid, id)) : id \in TurnIds(items, tid)}) : TRUE

-----------------------------------------------------------------------------
(* Actions.                                                                  *)

Arrive(s) ==
    /\ s \notin spans /\ Cardinality(spans) < MaxAiSpans
    /\ spans' = spans \cup {s} /\ UNCHANGED <<page, aiFaults>>

Show(r, items, msg) ==
    page' = [at |-> "shown", req |-> r, msg |-> msg, items |-> items,
             groups |-> [tid \in {s.trace : s \in Range(items)} |-> buildAiTraceTurnCards(items, tid)]]
\* The traces the page has room for (here: all of them).
ReadTraces(r) ==
    /\ page.at \in {"blank", "shown"} /\ UNCHANGED spans
    /\ \/ Refused(r) /\ Show(r, <<>>, TRUE) /\ UNCHANGED aiFaults
       \/ /\ ~Refused(r) /\ UNCHANGED aiFaults
          /\ page' = [at |-> "traces", req |-> r,
                      ids |-> {s.trace : s \in {t \in spans : t.trace # "" /\ Where(r, t)}}]
       \/ /\ ~Refused(r) /\ aiFaults < MaxAiFaults /\ aiFaults' = aiFaults + 1
          /\ Show(r, <<>>, TRUE)
\* Their spans, of now.
ReadSpans ==
    /\ page.at = "traces" /\ UNCHANGED spans
    /\ \/ /\ \E q \in InTime({s \in spans : s.trace \in page.ids /\ Where(page.req, s)}) :
                Show(page.req, q, FALSE)
          /\ UNCHANGED aiFaults
       \/ aiFaults < MaxAiFaults /\ aiFaults' = aiFaults + 1 /\ Show(page.req, <<>>, TRUE)

Next == (\E s \in AiSpans : Arrive(s)) \/ (\E r \in AiRequests : ReadTraces(r)) \/ ReadSpans
Spec == Init /\ [][Next]_vars

-----------------------------------------------------------------------------
(* Properties.                                                               *)

\* A turn whose spans are on the page has one card, and the card says how the
\* turn ended and what it cost in whatever order the store returned spans of
\* one moment: a turn that failed, was blocked or cancelled never shows as
\* completed (ai_view.go:921), its tokens are those of its spans, and every
\* action that was proposed or carried out is on it, once.
CardsTellOutcome ==
    page.at = "shown" =>
        \A tid \in DOMAIN page.groups :
            \A id \in {s.turn : s \in {t \in Range(page.items) : t.trace = tid}} \ {""} :
                LET items == page.items
                    mine == {i \in DOMAIN items : items[i].turn = id /\ items[i].trace = tid}
                    at == {k \in DOMAIN page.groups[tid] : page.groups[tid][k].turn = id}
                    card == page.groups[tid][CHOOSE k \in at : TRUE]
                    events == {items[i].event : i \in mine}
                    ended == events \cap {"turn.blocked", "turn.error", "turn.cancelled"}
                IN /\ Cardinality(at) = 1
                   /\ (card.status = "completed") <=> ("turn.complete" \in events /\ ended = {})
                   /\ (card.status = "in_progress") <=> ("turn.complete" \notin events /\ ended = {})
                   /\ card.tokens = SumFunction([i \in mine |-> items[i].tokens])
                   /\ \A i \in mine :
                        /\ card.started <= items[i].ts /\ items[i].ts <= card.completed
                        /\ items[i].event \in {"tool.proposed", "tool.executed"} =>
                            Cardinality({k \in DOMAIN card.tools : card.tools[k] =
                                [action |-> items[i].action, status |-> toolStatus(items[i])]}) = 1
===============================================================================
