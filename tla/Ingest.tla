-------------------------------- MODULE Ingest --------------------------------
(***************************************************************************)
(* The ingest handlers POST /v1/{logs,traces,metrics,ai,errors,rum} and    *)
(* the span the server emits for its own AI calls, "genai" below           *)
(* (handlers_v1_ingest.go, otlp_ingest.go, ingest_tag_rules.go, ai_llm.go  *)
(* under src/go/cmd/sobs), over the background DB writer, which is taken   *)
(* at its promise, the commit log: WriteQueue.tla implements it.           *)
(***************************************************************************)
EXTENDS Naturals, Sequences, FiniteSets

CONSTANTS
    Requests,      \* one per POST
    Wait,          \* cfg.Parity: the handler awaits its write
    MaxBacklog     \* capacity of the write queue and the batch together

OTLP == {"logs", "traces", "metrics"}
Kinds == OTLP \cup {"ai", "errors", "rum", "genai"}

ASSUME IngestAssumption ==
    /\ Wait \in BOOLEAN
    /\ MaxBacklog \in Nat \ {0}

VARIABLES
    kind, withErrors,   \* the endpoint of a request, and which of them report exceptions
    pc,        \* pc[r]: where the handler is
    answer,    \* answer[r]: the HTTP status, or "none"
    offered, backlog, executed,   \* the commit log
    result,    \* result[op]: what the executed operation returned
    stage,     \* tables the operation at the head has written
    rows,      \* <<r, part, table>>: rows stored in chDB
    tags,      \* <<r, part>>: auto-tag rows stored
    tail,      \* requests whose events went to the /tail subscribers
    late       \* history: requests that gave up awaiting

payload == <<kind, withErrors>>
vars == <<payload, pc, answer, offered, backlog, executed, result, stage, rows,
          tags, tail, late>>
logVars == <<offered, backlog, executed>>
dbVars == <<result, stage, rows, tags>>

\* The write operations a request hands over, each a closure: the exception
\* rows of a trace request go in a second one.
Ops == Requests \X {"main", "errors"}
HasErrorsOp(r) == kind[r] = "traces" /\ r \in withErrors

Log == INSTANCE CommitLog WITH Tasks <- Ops

Stored == "stored"
Failed == "failed"

RangeOf(s) == {s[i] : i \in DOMAIN s}

\* The tables an operation inserts into, in order; the first failing insert
\* ends it.
Inserts(op) ==
    LET k == kind[op[1]] IN
    IF op[2] = "errors" THEN <<"otel_logs">>
    ELSE
    CASE k \in {"logs", "errors"} -> <<"otel_logs">>
      [] k \in {"traces", "ai", "genai"} -> <<"otel_traces">>
      [] k = "metrics" -> <<"otel_metrics_gauge", "otel_metrics_sum", "otel_metrics_histogram">>
      [] k = "rum" -> IF op[1] \in withErrors THEN <<"hyperdx_sessions", "otel_logs">>
                      ELSE <<"hyperdx_sessions">>

\* Tag rules are applied by every operation but the metrics' and /v1/ai's.
AppliesTagRules(op) == kind[op[1]] \notin {"metrics", "ai"}

Broadcasts(r) == kind[r] \in {"logs", "traces", "ai", "genai"}

\* The span of an AI call is emitted on the side: nobody gets an answer.
Answer(r, status) ==
    answer' = IF kind[r] = "genai" THEN answer ELSE [answer EXCEPT ![r] = status]

Init ==
    /\ kind \in [Requests -> Kinds]
    /\ withErrors \in SUBSET {r \in Requests : kind[r] \in {"traces", "rum"}}
    /\ pc = [r \in Requests |-> "new"]
    /\ answer = [r \in Requests |-> "none"]
    /\ Log!Init
    /\ result = [op \in Ops |-> "none"]
    /\ stage = 0
    /\ rows = {}
    /\ tags = {}
    /\ tail = {}
    /\ late = {}

-----------------------------------------------------------------------------
(* Faulty forms of definitions below: bugs the properties must catch.      *)

\* The exception rows are offered before the spans.
EnqueueErrorsFirst(r) ==
    /\ pc[r] = "new"
    /\ \/ /\ HasErrorsOp(r)
          /\ <<r, "errors">> \notin offered
          /\ Log!Accept(<<r, "errors">>)
          /\ UNCHANGED pc
       \/ /\ Log!Accept(<<r, "main">>)
          /\ pc' = [pc EXCEPT ![r] = IF Wait THEN "await" ELSE "accepted"]
    /\ UNCHANGED <<payload, answer, dbVars, tail, late>>

\* The events go out before the write is offered.
RefuseAfterBroadcast(r) ==
    /\ pc[r] = "new"
    /\ Log!Refuse(<<r, "main">>)
    /\ pc' = [pc EXCEPT ![r] = "done"]
    /\ Answer(r, "503")
    /\ tail' = IF Broadcasts(r) THEN tail \cup {r} ELSE tail
    /\ UNCHANGED <<payload, dbVars, late>>

\* Every insert is tried whatever became of the others.
InsertFailsGoesOn ==
    /\ backlog # <<>>
    /\ stage < Len(Inserts(Head(backlog)))
    /\ stage' = stage + 1
    /\ UNCHANGED <<payload, pc, answer, logVars, result, rows, tags, tail, late>>

\* Tags are written before the rows they describe.
InsertTagsFirst ==
    /\ backlog # <<>>
    /\ LET op == Head(backlog) IN
           /\ stage < Len(Inserts(op))
           /\ rows' = rows \cup {<<op[1], op[2], Inserts(op)[stage + 1]>>}
           /\ tags' = IF AppliesTagRules(op) THEN tags \cup {op} ELSE tags
    /\ stage' = stage + 1
    /\ UNCHANGED <<payload, pc, answer, logVars, result, tail, late>>

\* The handler answers without looking at the operation's result.
AwaitIgnoresResult(r) ==
    /\ pc[r] = "await"
    /\ result[<<r, "main">>] # "none"
    /\ pc' = [pc EXCEPT ![r] = "accepted"]
    /\ UNCHANGED <<payload, answer, logVars, dbVars, tail, late>>

\* The result is handed to the handler, which may have stopped waiting.
FinishHandsOver ==
    /\ backlog # <<>>
    /\ LET op == Head(backlog) IN
           /\ stage = Len(Inserts(op))
           /\ pc[op[1]] = "await"
           /\ \/ AppliesTagRules(op) /\ tags' = tags \cup {op}
              \/ UNCHANGED tags
           /\ Log!Execute
           /\ result' = [result EXCEPT ![op] = Stored]
           /\ stage' = 0
    /\ UNCHANGED <<payload, pc, answer, rows, tail, late>>

\* The next process starts in the middle of an operation.
CrashKeepsStage ==
    /\ Log!Die({op \in Ops \ offered : pc[op[1]] \in {"await", "accepted"}})
    /\ pc' = [r \in Requests |->
                 IF pc[r] \in {"await", "accepted"} THEN "done" ELSE pc[r]]
    /\ UNCHANGED <<payload, answer, dbVars, tail, late>>

-----------------------------------------------------------------------------
(* A handler's goroutine.                                                  *)

\* enqueueWrite(main) is accepted.
Enqueue(r) ==
    /\ pc[r] = "new"
    /\ Log!Accept(<<r, "main">>)
    /\ pc' = [pc EXCEPT ![r] = IF Wait THEN "await" ELSE "accepted"]
    /\ UNCHANGED <<payload, answer, dbVars, tail, late>>

\* The wrong method, a body that cannot be inflated or parsed, a RUM client
\* without its token: 4xx. An OTLP batch without records: 200.
AnswerEarly(r) ==
    /\ pc[r] = "new"
    /\ kind[r] # "genai"
    /\ pc' = [pc EXCEPT ![r] = "done"]
    /\ \/ Answer(r, "4xx")
       \/ kind[r] \in OTLP /\ Answer(r, "200")
    /\ UNCHANGED <<payload, logVars, dbVars, tail, late>>

\* errWriteQueueFull: 503, and nothing else of the request is done. An AI
\* call's span is discarded and the rest goes on.
Refuse(r) ==
    /\ pc[r] = "new"
    /\ Log!Refuse(<<r, "main">>)
    /\ pc' = [pc EXCEPT ![r] = IF kind[r] = "genai" THEN "accepted" ELSE "done"]
    /\ Answer(r, "503")
    /\ UNCHANGED <<payload, dbVars, tail, late>>

\* In parity mode: on an error /v1/ai, /v1/errors and /v1/rum answer 500 and
\* the OTLP endpoints skip the rest and answer 200.
Await(r) ==
    /\ pc[r] = "await"
    /\ \/ /\ result[<<r, "main">>] = Failed
          /\ kind[r] # "genai"
          /\ pc' = [pc EXCEPT ![r] = "done"]
          /\ Answer(r, IF kind[r] \in OTLP THEN "200" ELSE "500")
          /\ UNCHANGED late
       \/ /\ result[<<r, "main">>] \in IF kind[r] = "genai" THEN {Stored, Failed} ELSE {Stored}
          /\ pc' = [pc EXCEPT ![r] = "accepted"]
          /\ UNCHANGED <<answer, late>>
       \/ /\ pc' = [pc EXCEPT ![r] = "accepted"]     \* 15 s are over
          /\ late' = late \cup {r}
          /\ UNCHANGED answer
    /\ UNCHANGED <<payload, logVars, dbVars, tail>>

\* The second operation of a trace request; its outcome is discarded, so that
\* awaiting it in parity mode is only a delay.
EnqueueErrors(r) ==
    /\ pc[r] = "accepted"
    /\ HasErrorsOp(r)
    /\ <<r, "errors">> \notin offered
    /\ Log!Accept(<<r, "errors">>) \/ Log!Refuse(<<r, "errors">>)
    /\ UNCHANGED <<payload, pc, answer, dbVars, tail, late>>

\* sseBroadcast for each row, then 200.
BroadcastAndAnswer(r) ==
    /\ pc[r] = "accepted"
    /\ HasErrorsOp(r) => <<r, "errors">> \in offered
    /\ tail' = IF Broadcasts(r) THEN tail \cup {r} ELSE tail
    /\ pc' = [pc EXCEPT ![r] = "done"]
    /\ Answer(r, "200")
    /\ UNCHANGED <<payload, logVars, dbVars, late>>

-----------------------------------------------------------------------------
(* The worker's goroutine inside the operation at the head of the log.     *)

Return(op, res) ==
    /\ Log!Execute
    /\ result' = [result EXCEPT ![op] = res]
    /\ stage' = 0

\* insertRowsNormalized into the next table.
Insert ==
    /\ backlog # <<>>
    /\ LET op == Head(backlog) IN
           /\ stage < Len(Inserts(op))
           /\ rows' = rows \cup {<<op[1], op[2], Inserts(op)[stage + 1]>>}
    /\ stage' = stage + 1
    /\ UNCHANGED <<payload, pc, answer, logVars, result, tags, tail, late>>

\* The insert reports an error: the operation returns it.
InsertFails ==
    /\ backlog # <<>>
    /\ stage < Len(Inserts(Head(backlog)))
    /\ Return(Head(backlog), Failed)
    /\ UNCHANGED <<payload, pc, answer, rows, tags, tail, late>>

\* Attribute keys and tag rules follow the rows; the tag insert's error is
\* discarded, and a rule may match or not.
Finish ==
    /\ backlog # <<>>
    /\ LET op == Head(backlog) IN
           /\ stage = Len(Inserts(op))
           /\ \/ AppliesTagRules(op) /\ tags' = tags \cup {op}
              \/ UNCHANGED tags
           /\ Return(op, Stored)
    /\ UNCHANGED <<payload, pc, answer, rows, tail, late>>

\* The process dies: the backlog and the calls in flight are gone, the rows
\* stay.
Crash ==
    /\ Log!Die({op \in Ops \ offered : pc[op[1]] \in {"await", "accepted"}})
    /\ pc' = [r \in Requests |->
                 IF pc[r] \in {"await", "accepted"} THEN "done" ELSE pc[r]]
    /\ stage' = 0
    /\ UNCHANGED <<payload, answer, result, rows, tags, tail, late>>

Handler(r) ==
    AnswerEarly(r) \/ Enqueue(r) \/ Refuse(r) \/ Await(r) \/ EnqueueErrors(r) \/ BroadcastAndAnswer(r)

Writer == Insert \/ InsertFails \/ Finish

Next ==
    \/ \E r \in Requests : Handler(r)
    \/ Writer
    \/ Crash

Spec == Init /\ [][Next]_vars

\* Handlers that are running and the writer keep running.
FairSpec ==
    /\ Spec
    /\ \A r \in Requests : WF_vars(Await(r) \/ EnqueueErrors(r) \/ BroadcastAndAnswer(r))
    /\ WF_vars(Writer)

-----------------------------------------------------------------------------
(* Properties.                                                             *)

\* Types.
TypeOK ==
    /\ kind \in [Requests -> Kinds] /\ withErrors \subseteq Requests
    /\ pc \in [Requests -> {"new", "await", "accepted", "done"}]
    /\ answer \in [Requests -> {"none", "200", "4xx", "500", "503"}]
    /\ offered \subseteq Ops
    /\ backlog \in Seq(Ops) /\ Len(backlog) <= MaxBacklog
    /\ executed \in Seq(Ops)
    /\ result \in [Ops -> {"none", Stored, Failed}]
    /\ stage \in 0..3 /\ (backlog = <<>> => stage = 0)
    /\ rows \subseteq UNION {{<<op[1], op[2], t>> : t \in RangeOf(Inserts(op))} : op \in Ops}
    /\ tags \subseteq Ops
    /\ tail \subseteq Requests
    /\ late \subseteq Requests

RowsOf(op) == {x \in rows : x[1] = op[1] /\ x[2] = op[2]}

\* After a 503 or a 4xx nothing of the request is or will be stored, tagged or
\* shown on /tail: resending the payload duplicates nothing.
RefusedLeavesNothing ==
    \A r \in Requests : answer[r] \in {"4xx", "503"} =>
        /\ \A part \in {"main", "errors"} :
               /\ RowsOf(<<r, part>>) = {}
               /\ <<r, part>> \notin RangeOf(backlog) \cup tags
        /\ r \notin tail

\* A multi-table operation cut short by an error or a death leaves a prefix
\* of its inserts, never a later table without the earlier ones.
TablesFillInOrder ==
    \A op \in Ops : \E n \in 0..Len(Inserts(op)) :
        RowsOf(op) = {<<op[1], op[2], Inserts(op)[i]>> : i \in 1..n}

\* An auto-tag describes rows that are all there.
TagsDescribeRows ==
    \A op \in tags : Cardinality(RowsOf(op)) = Len(Inserts(op))

\* The exception rows of a trace never run ahead of its spans.
ExceptionsAfterSpans ==
    \A r \in Requests :
        RowsOf(<<r, "errors">>) # {} => <<r, "main">> \in RangeOf(executed)

\* The tables hold what operations got to, in the order they write: nothing of
\* what was refused, exceptions after their spans, tags of rows that are there
\* (otlp_ingest.go).
RowsAreTrue ==
    TypeOK /\ RefusedLeavesNothing /\ TablesFillInOrder /\ ExceptionsAfterSpans /\ TagsDescribeRows

\* In parity mode a 200 from /v1/ai, /v1/errors or /v1/rum that did not time
\* out means every row is stored.
ParityAnswerIsCommit ==
    Wait => \A r \in Requests \ late :
        answer[r] = "200" /\ kind[r] \in {"ai", "errors", "rum"} =>
            Cardinality(RowsOf(<<r, "main">>)) = Len(Inserts(<<r, "main">>))

\* "after the write succeeds, _sse_broadcast one event per log to the live
\* /tail subscribers"
EventFollowsWrite ==
    \A r \in tail : RowsOf(<<r, "main">>) # {}

\* Every accepted operation gets its result, unless a death drops it.
AcceptedIsDecided ==
    \A op \in Ops : op \in RangeOf(backlog) ~> op \notin RangeOf(backlog)
=============================================================================
