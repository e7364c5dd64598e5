----------------------------- MODULE IngestProofs -----------------------------
(***************************************************************************)
(* Proofs about the ingest handlers, for any set of requests, any kinds of *)
(* them, any capacity of the backlog, and with or without waiting.         *)
(***************************************************************************)
EXTENDS Ingest, FiniteSetTheorems, TLAPS

-----------------------------------------------------------------------------
(* The inductive invariant: how far the operation at the head has got, that *)
(* those behind it have done nothing yet, and what a handler that has come  *)
(* to a point may rely on.                                                  *)

Main(r) == <<r, "main">>
Errs(r) == <<r, "errors">>

\* The rows of an operation that has made its first n inserts.
Upto(op, n) == {<<op[1], op[2], Inserts(op)[i]>> : i \in 1..n}
All(op) == Upto(op, Len(Inserts(op)))

\* An operation that has not run at all.
Fresh(op) == RowsOf(op) = {} /\ op \notin tags /\ result[op] = "none"

UnofferedAreFresh == \A op \in Ops \ offered : Fresh(op)

\* Each waits once, and only the one at the head has begun.
QueuedInOrder ==
    /\ \A i, j \in DOMAIN backlog : backlog[i] = backlog[j] => i = j
    /\ \A i \in DOMAIN backlog, op \in Ops : backlog[i] = op =>
        /\ op \in offered /\ op \notin tags /\ result[op] = "none"
        /\ i = 1 => stage <= Len(Inserts(op)) /\ RowsOf(op) = Upto(op, stage)
        /\ i # 1 => RowsOf(op) = {}

\* What is tagged or stored has all its rows.
TaggedAreWhole == \A op \in tags : RowsOf(op) = All(op)
StoredAreWhole == \A op \in Ops : result[op] = Stored => RowsOf(op) = All(op)

\* The exception rows wait behind the spans.
SpansFirst ==
    \A j \in DOMAIN backlog, r \in Requests : backlog[j] = Errs(r) =>
        Main(r) \in RangeOf(executed) \/ \E i \in 1..j - 1 : backlog[i] = Main(r)

\* What a handler has done so far.
Progress ==
    \A r \in Requests :
        /\ pc[r] = "new" => Main(r) \notin offered /\ Errs(r) \notin offered
        /\ pc[r] # "done" => answer[r] = "none" /\ r \notin tail
        /\ pc[r] \in {"await", "accepted"} /\ kind[r] # "genai" =>
               Main(r) \in RangeOf(executed) \cup RangeOf(backlog)
        /\ /\ pc[r] = "accepted" \/ answer[r] = "200"
           /\ Wait /\ r \notin late /\ kind[r] \in {"ai", "errors", "rum"}
           => result[Main(r)] = Stored

IInv ==
    /\ TypeOK
    /\ UnofferedAreFresh
    /\ QueuedInOrder
    /\ TaggedAreWhole
    /\ StoredAreWhole
    /\ SpansFirst
    /\ Progress
    /\ RefusedLeavesNothing
    /\ TablesFillInOrder
    /\ ExceptionsAfterSpans

-----------------------------------------------------------------------------
(* Inserts and rows.                                                       *)

\* Every operation writes between one and three tables, none of them twice.
LEMMA InsertsShape ==
  ASSUME TypeOK, NEW op \in Ops
  PROVE  /\ DOMAIN Inserts(op) = 1..Len(Inserts(op)) /\ Len(Inserts(op)) \in 1..3
         /\ \A i, j \in 1..Len(Inserts(op)) : Inserts(op)[i] = Inserts(op)[j] => i = j
<1> DEFINE k == kind[op[1]]
<1>1. op[1] \in Requests /\ op[2] \in {"main", "errors"} /\ k \in Kinds
  BY DEF TypeOK, Ops
<1>2. CASE op[2] = "errors"
  <2>1. Inserts(op) = <<"otel_logs">>
    BY <1>2, Zenon DEF Inserts
  <2> QED
    BY <2>1
<1>3. CASE op[2] = "main" /\ k \in {"logs", "errors"}
  <2>1. Inserts(op) = <<"otel_logs">>
    BY <1>3, Zenon DEF Inserts
  <2> QED
    BY <2>1
<1>4. CASE op[2] = "main" /\ k \in {"traces", "ai", "genai"}
  <2>1. Inserts(op) = <<"otel_traces">>
    BY <1>4, Zenon DEF Inserts
  <2> QED
    BY <2>1
<1>5. CASE op[2] = "main" /\ k = "metrics"
  <2>1. Inserts(op) = <<"otel_metrics_gauge", "otel_metrics_sum", "otel_metrics_histogram">>
    BY <1>5, Zenon DEF Inserts
  <2> QED
    BY <2>1
<1>6. CASE op[2] = "main" /\ k = "rum" /\ op[1] \in withErrors
  <2>1. Inserts(op) = <<"hyperdx_sessions", "otel_logs">>
    BY <1>6, Zenon DEF Inserts
  <2> QED
    BY <2>1
<1>7. CASE op[2] = "main" /\ k = "rum" /\ op[1] \notin withErrors
  <2>1. Inserts(op) = <<"hyperdx_sessions">>
    BY <1>7, Zenon DEF Inserts
  <2> QED
    BY <2>1
<1> QED
  BY <1>1, <1>2, <1>3, <1>4, <1>5, <1>6, <1>7 DEF Kinds, OTLP

\* An operation whose inserts are all there has as many rows as inserts.
LEMMA AllCardinality ==
  ASSUME TypeOK, NEW op \in Ops
  PROVE  Cardinality(All(op)) = Len(Inserts(op))
<1> DEFINE n == Len(Inserts(op))
           row(i) == <<op[1], op[2], Inserts(op)[i]>>
<1>1. /\ n \in 1..3
      /\ \A i, j \in 1..n : row(i) = row(j) => i = j
  BY InsertsShape
<1>2. All(op) = {row(i) : i \in 1..n}
  BY DEF All, Upto
<1> HIDE DEF row
<1>3. /\ IsFiniteSet({row(1)}) /\ Cardinality({row(1)}) = 1
  BY FS_Singleton
<1>4. CASE n = 1
  <2>1. 1..n = {1}
    BY <1>4
  <2> QED
    BY <1>2, <1>3, <1>4, <2>1
<1>5. /\ IsFiniteSet({row(1)} \cup {row(2)})
      /\ row(2) # row(1) => Cardinality({row(1)} \cup {row(2)}) = 2
  BY <1>3, FS_AddElement
<1>6. CASE n = 2
  <2>1. 1..n = {1, 2} /\ row(2) # row(1)
    BY <1>1, <1>6
  <2>2. All(op) = {row(1)} \cup {row(2)}
    BY <1>2, <2>1
  <2> QED
    BY <1>5, <1>6, <2>1, <2>2
<1>7. CASE n = 3
  <2>1. 1..n = {1, 2, 3} /\ row(2) # row(1) /\ row(3) \notin {row(1)} \cup {row(2)}
    BY <1>1, <1>7
  <2>2. All(op) = {row(1)} \cup {row(2)} \cup {row(3)}
    BY <1>2, <2>1
  <2> QED
    BY <1>5, <1>7, <2>1, <2>2, FS_AddElement
<1> QED
  BY <1>1, <1>4, <1>6, <1>7

\* The payload of a request never changes, nor do the inserts it calls for.
LEMMA PayloadIsFixed ==
  ASSUME [Next]_vars
  PROVE  /\ UNCHANGED payload
         /\ \A op : Inserts(op)' = Inserts(op)
         /\ \A op : All(op)' = All(op)
         /\ \A op, n : Upto(op, n)' = Upto(op, n)
<1>1. UNCHANGED payload
  BY DEF Next, Handler, Writer, vars, AnswerEarly, Enqueue, Refuse, Await, EnqueueErrors,
         BroadcastAndAnswer, Insert, InsertFails, Finish, Crash
<1>2. UNCHANGED <<kind, withErrors>>
  BY <1>1 DEF payload
<1> QED
  BY <1>1, <1>2 DEF Inserts, All, Upto

-----------------------------------------------------------------------------
(* What the commit log's steps do to its queue, place by place.            *)

\* A place in the queue for an operation accepted: the last.
LEMMA Accepting ==
  ASSUME TypeOK, NEW op \in Ops, Log!Accept(op)
  PROVE  /\ op \notin offered /\ offered' = offered \cup {op} /\ executed' = executed
         /\ DOMAIN backlog = 1..Len(backlog) /\ DOMAIN backlog' = 1..Len(backlog) + 1
         /\ Len(backlog) \in Nat /\ backlog'[Len(backlog) + 1] = op
         /\ \A i \in DOMAIN backlog : backlog'[i] = backlog[i]
         /\ RangeOf(backlog') = RangeOf(backlog) \cup {op}
         /\ backlog' \in Seq(Ops) /\ Len(backlog') <= MaxBacklog /\ backlog' # <<>>
         /\ backlog = <<>> <=> Len(backlog) = 0
<1>1. /\ backlog \in Seq(Ops) /\ Len(backlog) < MaxBacklog
      /\ backlog' = Append(backlog, op)
      /\ op \notin offered /\ offered' = offered \cup {op} /\ executed' = executed
  BY DEF Log!Accept, TypeOK
<1>2. /\ DOMAIN backlog = 1..Len(backlog) /\ DOMAIN backlog' = 1..Len(backlog) + 1
      /\ Len(backlog) \in Nat /\ backlog'[Len(backlog) + 1] = op
      /\ \A i \in DOMAIN backlog : backlog'[i] = backlog[i]
      /\ backlog' \in Seq(Ops) /\ Len(backlog') <= MaxBacklog /\ backlog' # <<>>
      /\ backlog = <<>> <=> Len(backlog) = 0
  BY <1>1, IngestAssumption
<1>3. RangeOf(backlog') = RangeOf(backlog) \cup {op}
  BY <1>2 DEF RangeOf
<1> QED
  BY <1>1, <1>2, <1>3

\* What is executed is the first, and the others move up.
LEMMA Executing ==
  ASSUME TypeOK, Log!Execute
  PROVE  /\ backlog # <<>> /\ Head(backlog) = backlog[1] /\ backlog[1] \in Ops
         /\ offered' = offered
         /\ DOMAIN backlog = 1..Len(backlog) /\ DOMAIN backlog' = 1..Len(backlog) - 1
         /\ Len(backlog) \in Nat \ {0}
         /\ \A i \in DOMAIN backlog' :
                backlog'[i] = backlog[i + 1] /\ i + 1 \in DOMAIN backlog
         /\ RangeOf(backlog) = RangeOf(backlog') \cup {backlog[1]}
         /\ RangeOf(executed') = RangeOf(executed) \cup {backlog[1]}
         /\ backlog' \in Seq(Ops) /\ Len(backlog') <= MaxBacklog /\ executed' \in Seq(Ops)
         /\ backlog' # <<>> => 1 \in DOMAIN backlog'
<1>1. /\ backlog \in Seq(Ops) /\ Len(backlog) <= MaxBacklog /\ backlog # <<>>
      /\ backlog' = Tail(backlog) /\ executed' = Append(executed, Head(backlog))
      /\ executed \in Seq(Ops) /\ offered' = offered
  BY DEF Log!Execute, TypeOK
<1>2. /\ Head(backlog) = backlog[1] /\ backlog[1] \in Ops
      /\ DOMAIN backlog = 1..Len(backlog) /\ DOMAIN backlog' = 1..Len(backlog) - 1
      /\ Len(backlog) \in Nat \ {0}
      /\ \A i \in DOMAIN backlog' :
             backlog'[i] = backlog[i + 1] /\ i + 1 \in DOMAIN backlog
      /\ backlog' \in Seq(Ops) /\ Len(backlog') <= MaxBacklog
      /\ backlog' # <<>> => 1 \in DOMAIN backlog'
  BY <1>1, IngestAssumption
<1>3. RangeOf(backlog) = RangeOf(backlog') \cup {backlog[1]}
  <2>1. ASSUME NEW i \in DOMAIN backlog, i # 1
        PROVE  i - 1 \in DOMAIN backlog' /\ backlog'[i - 1] = backlog[i]
    BY <1>2, <2>1
  <2> QED
    BY <1>2, <2>1 DEF RangeOf
<1>4. executed' \in Seq(Ops) /\ DOMAIN executed' = 1..Len(executed) + 1
      /\ DOMAIN executed = 1..Len(executed) /\ Len(executed) \in Nat
      /\ executed'[Len(executed) + 1] = backlog[1]
      /\ \A i \in DOMAIN executed : executed'[i] = executed[i]
  BY <1>1, <1>2
<1>5. RangeOf(executed') = RangeOf(executed) \cup {backlog[1]}
  BY <1>4 DEF RangeOf
<1> QED
  BY <1>1, <1>2, <1>3, <1>4, <1>5

\* A death leaves no queue.
LEMMA EmptyQueue == RangeOf(<<>>) = {} /\ DOMAIN <<>> = {} /\ Len(<<>>) = 0
BY DEF RangeOf

\* A row more, among those of one operation.
LEMMA AddedRow ==
  ASSUME NEW R, NEW x, NEW a, NEW b
  PROVE  {y \in R \cup {x} : y[1] = a /\ y[2] = b} =
             IF x[1] = a /\ x[2] = b THEN {y \in R : y[1] = a /\ y[2] = b} \cup {x}
             ELSE {y \in R : y[1] = a /\ y[2] = b}
OBVIOUS

\* Rows are only ever added, and only to the operation at the head.
LEMMA RowsMove ==
  ASSUME IInv, [Next]_vars
  PROVE  /\ ~Insert => \A op : RowsOf(op)' = RowsOf(op)
         /\ \A op \in Ops : Insert =>
                RowsOf(op)' = IF op = backlog[1] THEN Upto(op, stage + 1) ELSE RowsOf(op)
<1>1. CASE UNCHANGED rows /\ ~Insert
  BY <1>1 DEF RowsOf
<1>2. ASSUME Insert, NEW op \in Ops
      PROVE  RowsOf(op)' = IF op = backlog[1] THEN Upto(op, stage + 1) ELSE RowsOf(op)
  <2> DEFINE h == backlog[1]
             new == <<h[1], h[2], Inserts(h)[stage + 1]>>
  <2>1. /\ h \in Ops /\ Head(backlog) = h /\ 1 \in DOMAIN backlog
        /\ stage \in Nat /\ rows' = rows \cup {new}
    BY <1>2 DEF Insert, IInv, TypeOK
  <2>2. RowsOf(op)' = {x \in rows \cup {new} : x[1] = op[1] /\ x[2] = op[2]}
    BY <2>1 DEF RowsOf
  <2>3. CASE op # h
    <3>1. ~(new[1] = op[1] /\ new[2] = op[2])
      BY <2>1, <2>3 DEF Ops
    <3> HIDE DEF new
    <3> QED
      BY <2>2, <2>3, <3>1, AddedRow DEF RowsOf
  <2>4. CASE op = h
    <3>1. new[1] = op[1] /\ new[2] = op[2] /\ new = <<op[1], op[2], Inserts(op)[stage + 1]>>
      BY <2>4
    <3>2. RowsOf(op) = Upto(op, stage)
      BY <2>1, <2>4 DEF IInv, QueuedInOrder
    <3>3. 1..stage + 1 = (1..stage) \cup {stage + 1}
      BY <2>1
    <3>4. Upto(op, stage + 1) = Upto(op, stage) \cup {new}
      BY <3>1, <3>3 DEF Upto
    <3> HIDE DEF new
    <3>5. RowsOf(op)' = RowsOf(op) \cup {new}
      BY <2>2, <3>1, AddedRow DEF RowsOf
    <3> QED
      BY <2>4, <3>2, <3>4, <3>5
  <2> QED
    BY <2>3, <2>4
<1>3. Insert \/ UNCHANGED rows
  BY DEF Next, Handler, Writer, vars, AnswerEarly, Enqueue, Refuse, Await, EnqueueErrors,
         BroadcastAndAnswer, InsertFails, Finish, Crash, dbVars
<1> QED
  BY <1>1, <1>2, <1>3

-----------------------------------------------------------------------------
(* The writer's side.                                                      *)

\* An operation returns: stored with all its inserts made, or failed.
Returns(op) ==
    /\ Log!Execute /\ op = backlog[1]
    /\ stage' = 0 /\ UNCHANGED rows
    /\ \/ /\ stage = Len(Inserts(op))
          /\ result' = [result EXCEPT ![op] = Stored]
          /\ tags' \subseteq tags \cup {op} /\ tags \subseteq tags'
       \/ result' = [result EXCEPT ![op] = Failed] /\ UNCHANGED tags

\* However an operation ends, a Failed one leaves no tag it did not have.
LEMMA WriterReturns ==
  ASSUME TypeOK, InsertFails \/ Finish
  PROVE  (\E op \in Ops : Returns(op)) /\ UNCHANGED <<pc, answer, tail, late>>
<1>1. Log!Execute /\ UNCHANGED <<pc, answer, tail, late>>
  BY DEF InsertFails, Finish, Return
<1>2. Head(backlog) = backlog[1] /\ backlog[1] \in Ops
  BY <1>1, Executing
<1>3. Returns(backlog[1])
  BY <1>1, <1>2 DEF InsertFails, Finish, Return, Returns
<1> QED
  BY <1>1, <1>2, <1>3

\* What a step can be for the log and the database.
LEMMA StepKinds ==
  ASSUME TypeOK, [Next]_vars
  PROVE  \/ UNCHANGED <<logVars, dbVars>>
         \/ \E op \in Ops : (Log!Accept(op) \/ Log!Refuse(op)) /\ UNCHANGED dbVars
         \/ Insert
         \/ \E op \in Ops : Returns(op)
         \/ Crash
<1> DEFINE Goal == \/ UNCHANGED <<logVars, dbVars>>
                   \/ \E op \in Ops : (Log!Accept(op) \/ Log!Refuse(op)) /\ UNCHANGED dbVars
                   \/ Insert
                   \/ \E op \in Ops : Returns(op)
                   \/ Crash
<1>1. ASSUME NEW r \in Requests, AnswerEarly(r) \/ Await(r) \/ BroadcastAndAnswer(r)
      PROVE  Goal
  BY <1>1 DEF AnswerEarly, Await, BroadcastAndAnswer
<1>2. ASSUME NEW r \in Requests, Enqueue(r) \/ Refuse(r) \/ EnqueueErrors(r)
      PROVE  Goal
  <2>1. <<r, "main">> \in Ops /\ <<r, "errors">> \in Ops
    BY DEF Ops
  <2> QED
    BY <1>2, <2>1 DEF Enqueue, Refuse, EnqueueErrors
<1>3. CASE InsertFails \/ Finish
  BY <1>3, WriterReturns
<1>4. CASE UNCHANGED vars
  BY <1>4 DEF vars, logVars, dbVars
<1> QED
  BY <1>1, <1>2, <1>3, <1>4 DEF Next, Handler, Writer

\* The operation waiting behind, the refused, the tagged and the stored.
LEMMA WriterStep ==
  IInv /\ [Next]_vars =>
      UnofferedAreFresh' /\ QueuedInOrder' /\ TaggedAreWhole' /\ StoredAreWhole'
<1> SUFFICES ASSUME IInv, [Next]_vars
             PROVE  UnofferedAreFresh' /\ QueuedInOrder' /\ TaggedAreWhole' /\ StoredAreWhole'
  OBVIOUS
<1> DEFINE Goal == UnofferedAreFresh' /\ QueuedInOrder' /\ TaggedAreWhole' /\ StoredAreWhole'
<1>0. /\ TypeOK
      /\ \A op : Inserts(op)' = Inserts(op)
      /\ \A op : All(op)' = All(op)
      /\ \A op, n : Upto(op, n)' = Upto(op, n)
  BY PayloadIsFixed DEF IInv
<1>1. CASE UNCHANGED <<logVars, dbVars>>
  <2>1. \A op : RowsOf(op)' = RowsOf(op) /\ Fresh(op)' = Fresh(op)
    BY <1>1 DEF RowsOf, Fresh, dbVars
  <2> QED
    BY <1>0, <1>1, <2>1
       DEF IInv, logVars, dbVars, UnofferedAreFresh, QueuedInOrder, TaggedAreWhole, StoredAreWhole
<1>2. ASSUME NEW op \in Ops, Log!Accept(op), UNCHANGED dbVars PROVE Goal
  <2>1. \A o : RowsOf(o)' = RowsOf(o) /\ Fresh(o)' = Fresh(o)
    BY <1>2 DEF RowsOf, Fresh, dbVars
  <2>2. Fresh(op)
    BY <1>2, <1>0, Accepting DEF IInv, UnofferedAreFresh
  <2>3. UnofferedAreFresh' /\ TaggedAreWhole' /\ StoredAreWhole'
    BY <1>0, <1>2, <2>1, Accepting
       DEF IInv, UnofferedAreFresh, TaggedAreWhole, StoredAreWhole, dbVars
  <2>4. QueuedInOrder'
    <3> USE <1>0, <1>2, <2>1, <2>2, Accepting DEF Fresh, dbVars
    <3>1. \A i, j \in DOMAIN backlog' : backlog'[i] = backlog'[j] => i = j
      BY DEF IInv, QueuedInOrder
    <3>2. ASSUME NEW i \in DOMAIN backlog', NEW o \in Ops, backlog'[i] = o
          PROVE  /\ o \in offered' /\ o \notin tags' /\ result'[o] = "none"
                 /\ i = 1 => stage' <= Len(Inserts(o)') /\ RowsOf(o)' = Upto(o, stage)'
                 /\ i # 1 => RowsOf(o)' = {}
      <4>1. CASE i \in DOMAIN backlog
        BY <3>2, <4>1 DEF IInv, QueuedInOrder
      <4>2. CASE i \notin DOMAIN backlog
        <5>1. o = op /\ (i = 1 => stage = 0)
          BY <3>2, <4>2 DEF TypeOK
        <5>2. Upto(op, 0) = {} /\ 0 <= Len(Inserts(op))
          BY InsertsShape DEF Upto
        <5> QED
          BY <5>1, <5>2
      <4> QED
        BY <4>1, <4>2
    <3> QED
      BY <3>1, <3>2 DEF QueuedInOrder
  <2> QED
    BY <2>3, <2>4
<1>3. ASSUME NEW op \in Ops, Log!Refuse(op), UNCHANGED dbVars PROVE Goal
  <2>1. \A o : RowsOf(o)' = RowsOf(o) /\ Fresh(o)' = Fresh(o)
    BY <1>3 DEF RowsOf, Fresh, dbVars
  <2> QED
    BY <1>0, <1>3, <2>1
       DEF IInv, Log!Refuse, dbVars, UnofferedAreFresh, QueuedInOrder, TaggedAreWhole, StoredAreWhole
<1>4. CASE Insert
  <2>1. /\ UNCHANGED <<offered, backlog, executed, result, tags>> /\ stage' = stage + 1
        /\ Head(backlog) = backlog[1] /\ backlog[1] \in Ops /\ 1 \in DOMAIN backlog
        /\ stage \in Nat /\ stage < Len(Inserts(backlog[1]))
    BY <1>0, <1>4 DEF Insert, logVars, TypeOK
  <2>2. /\ \A op \in Ops \ {backlog[1]} : RowsOf(op)' = RowsOf(op) /\ Fresh(op)' = Fresh(op)
        /\ \A op \in Ops : op = backlog[1] => RowsOf(op)' = Upto(op, stage + 1)
    BY <1>4, <2>1, RowsMove DEF Fresh
  <2>3. /\ backlog[1] \in offered /\ backlog[1] \notin tags
        /\ result[backlog[1]] = "none"
    BY <2>1 DEF IInv, QueuedInOrder
  <2>4. UnofferedAreFresh' /\ TaggedAreWhole' /\ StoredAreWhole'
    BY <1>0, <2>1, <2>2, <2>3
       DEF IInv, UnofferedAreFresh, TaggedAreWhole, StoredAreWhole, Stored, TypeOK
  <2>5. ASSUME NEW i \in DOMAIN backlog', NEW o \in Ops, backlog'[i] = o
        PROVE  /\ o \in offered' /\ o \notin tags' /\ result'[o] = "none"
               /\ i = 1 => stage' <= Len(Inserts(o)') /\ RowsOf(o)' = Upto(o, stage)'
               /\ i # 1 => RowsOf(o)' = {}
    <3>1. CASE i = 1
      <4>1. o = backlog[1] /\ Len(Inserts(o)) \in Nat
        BY <1>0, <2>1, <2>5, <3>1, InsertsShape
      <4>2. Upto(o, stage)' = Upto(o, stage + 1)
        BY <1>0, <2>1
      <4> QED
        BY <1>0, <2>1, <2>2, <2>3, <3>1, <4>1, <4>2
    <3>2. CASE i # 1
      BY <2>1, <2>2, <2>5, <3>2 DEF IInv, QueuedInOrder
    <3> QED
      BY <3>1, <3>2
  <2>6. QueuedInOrder'
    BY <2>1, <2>5 DEF IInv, QueuedInOrder
  <2> QED
    BY <2>4, <2>6
<1>5. ASSUME NEW op \in Ops, Returns(op) PROVE Goal
  <2>1. /\ op = backlog[1] /\ 1 \in DOMAIN backlog
        /\ \A o \in Ops \ {op} : result'[o] = result[o] /\ (o \in tags' <=> o \in tags)
        /\ \A o : RowsOf(o)' = RowsOf(o)
        /\ stage' = 0
    BY <1>0, <1>5, Executing DEF Returns, TypeOK, RowsOf
  <2>2. op \in offered /\ op \notin tags /\ RowsOf(op) = Upto(op, stage)
    BY <2>1 DEF IInv, QueuedInOrder
  <2>3. result'[op] = Stored \/ op \in tags' => RowsOf(op) = All(op)
    BY <1>0, <1>5, <2>2 DEF Returns, All, TypeOK, Stored, Failed
  <2>4. UnofferedAreFresh' /\ TaggedAreWhole' /\ StoredAreWhole'
    <3>1. \A o \in Ops \ {op} : Fresh(o)' = Fresh(o)
      BY <2>1 DEF Fresh
    <3> QED
      BY <1>0, <1>5, <2>1, <2>2, <2>3, <3>1, Executing
         DEF Returns, IInv, UnofferedAreFresh, TaggedAreWhole, StoredAreWhole, TypeOK
  <2>5. \A i, j \in DOMAIN backlog' : backlog'[i] = backlog'[j] => i = j
    BY <1>0, <1>5, Executing DEF Returns, IInv, QueuedInOrder
  <2>6. ASSUME NEW i \in DOMAIN backlog', NEW o \in Ops, backlog'[i] = o
        PROVE  /\ o \in offered' /\ o \notin tags' /\ result'[o] = "none"
               /\ stage' <= Len(Inserts(o)') /\ Upto(o, stage)' = {} /\ RowsOf(o)' = {}
    <3>1. backlog[i + 1] = o /\ i + 1 \in DOMAIN backlog /\ i + 1 # 1 /\ offered' = offered
      BY <1>0, <1>5, <2>6, Executing DEF Returns
    <3>2. o \in offered /\ o # op /\ o \notin tags /\ result[o] = "none" /\ RowsOf(o) = {}
      BY <2>1, <3>1 DEF IInv, QueuedInOrder
    <3>3. Upto(o, 0) = {} /\ 0 <= Len(Inserts(o))
      BY <1>0, InsertsShape DEF Upto
    <3> QED
      BY <1>0, <2>1, <3>1, <3>2, <3>3
  <2> QED
    BY <2>4, <2>5, <2>6 DEF QueuedInOrder
<1>6. CASE Crash
  <2>1. \A op : RowsOf(op)' = RowsOf(op) /\ Fresh(op)' = Fresh(op)
    BY <1>6 DEF RowsOf, Fresh, Crash
  <2> QED
    BY <1>0, <1>6, <2>1, EmptyQueue
       DEF IInv, Crash, Log!Die, UnofferedAreFresh, QueuedInOrder, TaggedAreWhole, StoredAreWhole
<1> QED
  BY <1>0, <1>1, <1>2, <1>3, <1>4, <1>5, <1>6, StepKinds

\* An operation's rows stay a prefix of its inserts, and exceptions stay
\* behind their spans.
LEMMA RowsStep == IInv /\ [Next]_vars => TablesFillInOrder' /\ ExceptionsAfterSpans'
<1> SUFFICES ASSUME IInv, [Next]_vars PROVE TablesFillInOrder' /\ ExceptionsAfterSpans'
  OBVIOUS
<1>0. TypeOK /\ \A op : Inserts(op)' = Inserts(op)
  BY PayloadIsFixed DEF IInv
<1>1. Insert => /\ UNCHANGED executed /\ stage \in Nat /\ 1 \in DOMAIN backlog
                /\ \A op \in Ops : op = backlog[1] => stage + 1 <= Len(Inserts(op))
  BY <1>0, InsertsShape DEF Insert, logVars, TypeOK
<1>2. ASSUME NEW op \in Ops
      PROVE  \E n \in 0..Len(Inserts(op)) : RowsOf(op)' = Upto(op, n)
  <2>1. PICK n \in 0..Len(Inserts(op)) : RowsOf(op) = Upto(op, n)
    BY DEF IInv, TablesFillInOrder, Upto
  <2>2. Len(Inserts(op)) \in Nat
    BY <1>0, InsertsShape
  <2> QED
    BY <1>1, <2>1, <2>2, RowsMove
<1>3. TablesFillInOrder'
  BY <1>0, <1>2 DEF TablesFillInOrder, Upto
<1>4. RangeOf(executed) \subseteq RangeOf(executed')
  BY <1>0, <1>1, StepKinds, Executing
     DEF Returns, Log!Accept, Log!Refuse, Crash, Log!Die, logVars
<1>5. ExceptionsAfterSpans'
  <2> SUFFICES ASSUME NEW r \in Requests, RowsOf(<<r, "errors">>)' # {}
               PROVE  <<r, "main">> \in RangeOf(executed')
    BY DEF ExceptionsAfterSpans
  <2>0. <<r, "errors">> \in Ops
    BY DEF Ops
  <2>1. CASE RowsOf(<<r, "errors">>) # {}
    BY <1>4, <2>1 DEF IInv, ExceptionsAfterSpans
  <2>2. CASE RowsOf(<<r, "errors">>) = {}
    <3>1. Insert /\ backlog[1] = Errs(r)
      BY <2>0, <2>2, RowsMove DEF Errs
    <3>2. Main(r) \in RangeOf(executed)
      BY <1>1, <3>1 DEF IInv, SpansFirst
    <3> QED
      BY <1>4, <3>2 DEF Main
  <2> QED
    BY <2>1, <2>2
<1> QED
  BY <1>3, <1>5

-----------------------------------------------------------------------------
(* The handlers' side.                                                     *)

\* What one handler's step leaves alone: the database, the other handlers and
\* their operations.
LEMMA HandlerStep ==
  ASSUME IInv, NEW r \in Requests, Handler(r)
  PROVE  /\ UNCHANGED dbVars /\ executed' = executed
         /\ pc[r] # "done"
         /\ \A q \in Requests \ {r} :
                /\ pc'[q] = pc[q] /\ answer'[q] = answer[q]
                /\ (q \in tail' <=> q \in tail) /\ (q \in late' <=> q \in late)
                /\ Main(q) \in offered' <=> Main(q) \in offered
                /\ Errs(q) \in offered' <=> Errs(q) \in offered
         /\ \A op \in RangeOf(backlog) : op \in RangeOf(backlog')
         /\ \A op \in RangeOf(backlog') : op \in RangeOf(backlog) \/ op \in {Main(r), Errs(r)}
         /\ pc'[r] \in {"new", "await", "accepted", "done"}
         /\ answer'[r] \in {answer[r], "200", "4xx", "500", "503"}
         /\ tail' \subseteq Requests /\ late' \subseteq Requests
<1> DEFINE Goal ==
         /\ UNCHANGED dbVars /\ executed' = executed
         /\ pc[r] # "done"
         /\ \A q \in Requests \ {r} :
                /\ pc'[q] = pc[q] /\ answer'[q] = answer[q]
                /\ (q \in tail' <=> q \in tail) /\ (q \in late' <=> q \in late)
                /\ Main(q) \in offered' <=> Main(q) \in offered
                /\ Errs(q) \in offered' <=> Errs(q) \in offered
         /\ \A op \in RangeOf(backlog) : op \in RangeOf(backlog')
         /\ \A op \in RangeOf(backlog') : op \in RangeOf(backlog) \/ op \in {Main(r), Errs(r)}
         /\ pc'[r] \in {"new", "await", "accepted", "done"}
         /\ answer'[r] \in {answer[r], "200", "4xx", "500", "503"}
         /\ tail' \subseteq Requests /\ late' \subseteq Requests
<1>0. Main(r) \in Ops /\ Errs(r) \in Ops
  BY DEF Ops, Main, Errs
<1> USE <1>0, Accepting
    DEF IInv, TypeOK, Answer, logVars, Main, Errs
<1>1. CASE AnswerEarly(r)
  BY <1>1 DEF AnswerEarly
<1>2. CASE Enqueue(r)
  BY <1>2 DEF Enqueue
<1>3. CASE Refuse(r)
  BY <1>3 DEF Refuse, Log!Refuse
<1>4. CASE Await(r)
  BY <1>4 DEF Await
<1>5. CASE EnqueueErrors(r)
  BY <1>5 DEF EnqueueErrors, Log!Refuse
<1>6. CASE BroadcastAndAnswer(r)
  BY <1>6 DEF BroadcastAndAnswer
<1> QED
  BY <1>1, <1>2, <1>3, <1>4, <1>5, <1>6 DEF Handler

\* The types, and the capacity of the backlog.
LEMMA TypeStep == IInv /\ [Next]_vars => TypeOK'
<1> SUFFICES ASSUME IInv, [Next]_vars PROVE TypeOK'
  OBVIOUS
<1>0. /\ TypeOK /\ UNCHANGED payload
      /\ \A op : Inserts(op)' = Inserts(op)
  BY PayloadIsFixed DEF IInv
<1>1. ASSUME NEW r \in Requests, Handler(r) PROVE TypeOK'
  <2>1. offered' \subseteq Ops /\ backlog' \in Seq(Ops) /\ Len(backlog') <= MaxBacklog
        /\ (backlog' = <<>> => backlog = <<>>)
    <3>1. Main(r) \in Ops /\ Errs(r) \in Ops
      BY DEF Ops, Main, Errs
    <3> QED
      BY <1>0, <1>1, <3>1, Accepting
         DEF Handler, AnswerEarly, Enqueue, Refuse, Await, EnqueueErrors, BroadcastAndAnswer,
             Log!Refuse, TypeOK, logVars, Main, Errs
  <2>2. /\ pc' \in [Requests -> {"new", "await", "accepted", "done"}]
        /\ answer' \in [Requests -> {"none", "200", "4xx", "500", "503"}]
    BY <1>0, <1>1
       DEF Handler, AnswerEarly, Enqueue, Refuse, Await, EnqueueErrors, BroadcastAndAnswer,
           Answer, TypeOK
  <2> QED
    BY <1>0, <1>1, <2>1, <2>2, HandlerStep DEF TypeOK, dbVars, payload
<1>2. CASE Insert
  <2>1. /\ UNCHANGED <<pc, answer, offered, backlog, executed, result, tags, tail, late>>
        /\ stage' = stage + 1 /\ stage \in Nat /\ Head(backlog) \in Ops /\ backlog # <<>>
        /\ stage < Len(Inserts(Head(backlog)))
        /\ rows' = rows \cup {<<Head(backlog)[1], Head(backlog)[2],
                                Inserts(Head(backlog))[stage + 1]>>}
    BY <1>0, <1>2 DEF Insert, logVars, TypeOK
  <2>2. stage + 1 \in DOMAIN Inserts(Head(backlog)) /\ stage' \in 0..3
    BY <1>0, <2>1, InsertsShape
  <2>3. rows' \subseteq UNION {{<<op[1], op[2], t>> : t \in RangeOf(Inserts(op))} : op \in Ops}
    BY <1>0, <2>1, <2>2 DEF TypeOK, RangeOf
  <2> QED
    BY <1>0, <2>1, <2>2, <2>3 DEF TypeOK, payload
<1>3. ASSUME NEW op \in Ops, Returns(op), UNCHANGED <<pc, answer, tail, late>> PROVE TypeOK'
  <2>1. /\ offered' = offered /\ backlog' \in Seq(Ops) /\ Len(backlog') <= MaxBacklog
        /\ executed' \in Seq(Ops) /\ stage' = 0 /\ rows' = rows
    BY <1>0, <1>3, Executing DEF Returns
  <2>2. result' \in [Ops -> {"none", Stored, Failed}] /\ tags' \subseteq Ops
    BY <1>0, <1>3 DEF Returns, TypeOK
  <2> QED
    BY <1>0, <1>3, <2>1, <2>2 DEF TypeOK, payload
<1>4. CASE InsertFails \/ Finish
  BY <1>0, <1>3, <1>4, WriterReturns
<1>5. CASE Crash
  <2>1. pc' \in [Requests -> {"new", "await", "accepted", "done"}]
    BY <1>0, <1>5 DEF Crash, TypeOK
  <2>2. offered' \subseteq Ops /\ backlog' = <<>> /\ executed' = executed /\ stage' = 0
        /\ UNCHANGED <<payload, answer, result, rows, tags, tail, late>>
    BY <1>0, <1>5 DEF Crash, Log!Die, TypeOK
  <2>3. <<>> \in Seq(Ops) /\ Len(<<>>) <= MaxBacklog
    BY EmptyQueue, IngestAssumption
  <2> QED
    BY <1>0, <2>1, <2>2, <2>3 DEF TypeOK, payload
<1>6. CASE UNCHANGED vars
  BY <1>0, <1>6 DEF vars, TypeOK, logVars, dbVars, payload
<1> QED
  BY <1>1, <1>2, <1>4, <1>5, <1>6 DEF Next, Writer

\* What a handler has done, when it comes to each point.
LEMMA ProgressStep == IInv /\ [Next]_vars => Progress'
<1> SUFFICES ASSUME IInv, [Next]_vars PROVE Progress'
  OBVIOUS
<1>0. TypeOK /\ UNCHANGED payload /\ Progress
  BY PayloadIsFixed DEF IInv
<1> DEFINE P(q) ==
      /\ pc[q] = "new" => Main(q) \notin offered /\ Errs(q) \notin offered
      /\ pc[q] # "done" => answer[q] = "none" /\ q \notin tail
      /\ pc[q] \in {"await", "accepted"} /\ kind[q] # "genai" =>
             Main(q) \in RangeOf(executed) \cup RangeOf(backlog)
      /\ /\ pc[q] = "accepted" \/ answer[q] = "200"
         /\ Wait /\ q \notin late /\ kind[q] \in {"ai", "errors", "rum"}
         => result[Main(q)] = Stored
<1>01. \A q \in Requests : P(q) /\ Main(q) \in Ops /\ Errs(q) \in Ops
  BY <1>0 DEF Progress, Main, Errs, Ops
<1>1. ASSUME NEW r \in Requests, Handler(r) PROVE Progress'
  <2>1. ASSUME NEW q \in Requests, q # r PROVE P(q)'
    BY <1>0, <1>1, <1>01, <2>1, HandlerStep DEF payload, dbVars
  <2>2. P(r)'
    <3> USE <1>0, <1>01, Accepting DEF TypeOK, Answer, payload, dbVars, logVars, Main, Errs, OTLP
    <3>1. CASE AnswerEarly(r)
      BY <3>1 DEF AnswerEarly
    <3>2. CASE Enqueue(r)
      <4>1. /\ pc[r] = "new" /\ UNCHANGED <<answer, tail, late, result, kind, executed>>
            /\ pc' = [pc EXCEPT ![r] = IF Wait THEN "await" ELSE "accepted"]
            /\ Log!Accept(Main(r))
        BY <3>2 DEF Enqueue
      <4>2. Main(r) \in RangeOf(executed') \cup RangeOf(backlog')
        BY <4>1, Accepting
      <4>3. pc'[r] \in {"await", "accepted"} /\ (pc'[r] = "accepted" => ~Wait)
        BY <4>1
      <4> HIDE DEF TypeOK, Main, Errs
      <4> QED
        BY <4>1, <4>2, <4>3
    <3>3. CASE Refuse(r)
      <4>1. /\ pc[r] = "new" /\ UNCHANGED <<backlog, executed, tail, late, result, kind>>
            /\ answer'[r] = IF kind[r] = "genai" THEN answer[r] ELSE "503"
            /\ pc'[r] = IF kind[r] = "genai" THEN "accepted" ELSE "done"
        BY <3>3 DEF Refuse, Log!Refuse
      <4> HIDE DEF TypeOK, Main, Errs
      <4> QED
        BY <4>1
    <3>4. CASE Await(r)
      BY <3>4 DEF Await
    <3>5. CASE EnqueueErrors(r)
      BY <3>5 DEF EnqueueErrors, Log!Refuse
    <3>6. CASE BroadcastAndAnswer(r)
      BY <3>6 DEF BroadcastAndAnswer
    <3> QED
      BY <1>1, <3>1, <3>2, <3>3, <3>4, <3>5, <3>6 DEF Handler
  <2> QED
    BY <2>1, <2>2 DEF Progress
<1>2. CASE Writer
  <2>1. UNCHANGED <<pc, answer, tail, late, offered>>
    BY <1>2 DEF Writer, Insert, InsertFails, Finish, Return, Log!Execute, logVars
  <2>2. Insert \/ \E op \in Ops : Returns(op)
    BY <1>0, <1>2, WriterReturns DEF Writer
  <2>3. RangeOf(executed) \cup RangeOf(backlog) = RangeOf(executed') \cup RangeOf(backlog')
    BY <1>0, <2>2, Executing DEF Returns, Insert, logVars
  <2>4. \A o \in Ops : result[o] = Stored => result'[o] = Stored
    <3>1. ASSUME NEW op \in Ops, Returns(op) PROVE result[op] = "none"
      <4>1. 1 \in DOMAIN backlog /\ backlog[1] = op
        BY <1>0, <3>1, Executing DEF Returns
      <4> QED
        BY <4>1 DEF IInv, QueuedInOrder
    <3> QED
      BY <1>0, <2>2, <3>1 DEF Returns, Insert, Stored, TypeOK
  <2> QED
    BY <1>0, <1>01, <2>1, <2>3, <2>4 DEF Progress, payload
<1>3. CASE Crash
  <2>1. /\ UNCHANGED <<answer, tail, late, executed, result>>
        /\ \A q \in Requests : pc'[q] = pc[q] \/ pc'[q] = "done"
        /\ \A q \in Requests : pc'[q] \notin {"await", "accepted"}
        /\ \A q \in Requests : pc[q] = "new" =>
               (Main(q) \in offered' <=> Main(q) \in offered)
               /\ (Errs(q) \in offered' <=> Errs(q) \in offered)
    BY <1>3 DEF Crash, Log!Die, Main, Errs
  <2> QED
    BY <1>0, <1>01, <2>1 DEF Progress, payload
<1>4. CASE UNCHANGED vars
  BY <1>0, <1>4 DEF Progress, vars, payload, logVars, dbVars, Main, Errs
<1> QED
  BY <1>1, <1>2, <1>3, <1>4 DEF Next

\* The exception rows go on waiting behind their spans.
LEMMA SpansStep == IInv /\ [Next]_vars => SpansFirst'
<1> SUFFICES ASSUME IInv, [Next]_vars, NEW j \in DOMAIN backlog', NEW r \in Requests,
                    backlog'[j] = Errs(r)
             PROVE  Main(r) \in RangeOf(executed') \/ \E i \in 1..j - 1 : backlog'[i] = Main(r)
  BY DEF SpansFirst, Main, Errs
<1> DEFINE Goal == Main(r) \in RangeOf(executed') \/ \E i \in 1..j - 1 : backlog'[i] = Main(r)
<1>0. TypeOK /\ Errs(r) \in Ops /\ Main(r) \in Ops
  BY DEF IInv, Main, Errs, Ops
<1>1. CASE UNCHANGED <<backlog, executed>>
  BY <1>1 DEF IInv, SpansFirst
<1>2. ASSUME NEW q \in Requests, Handler(q), NEW op \in Ops, Log!Accept(op) PROVE Goal
  <2>1. CASE j \in DOMAIN backlog
    <3>1. \A i \in 1..j - 1 : i \in DOMAIN backlog /\ backlog'[i] = backlog[i]
      BY <1>0, <1>2, <2>1, Accepting
    <3>2. backlog[j] = Errs(r) /\ executed' = executed
      BY <1>0, <1>2, <2>1, Accepting
    <3> QED
      BY <2>1, <3>1, <3>2 DEF IInv, SpansFirst
  <2>2. CASE j \notin DOMAIN backlog
    <3>1. op = Errs(r) /\ j = Len(backlog) + 1 /\ executed' = executed
      BY <1>0, <1>2, <2>2, Accepting
    <3>2. op \notin offered /\ offered' = offered \cup {op}
      BY <1>0, <1>2, Accepting
    <3>3. q = r /\ EnqueueErrors(r)
      BY <1>2, <3>1, <3>2
         DEF Handler, AnswerEarly, Enqueue, Refuse, Await, EnqueueErrors, BroadcastAndAnswer,
             Log!Accept, Log!Refuse, logVars, Main, Errs
    <3>4. Main(r) \in RangeOf(executed) \cup RangeOf(backlog)
      BY <3>3 DEF EnqueueErrors, HasErrorsOp, IInv, Progress
    <3>5. Main(r) \in RangeOf(backlog) => \E i \in 1..j - 1 : backlog'[i] = Main(r)
      BY <1>0, <1>2, <3>1, Accepting DEF RangeOf
    <3> QED
      BY <3>1, <3>4, <3>5
  <2> QED
    BY <2>1, <2>2
<1>3. ASSUME NEW op \in Ops, Returns(op) PROVE Goal
  <2>1. /\ backlog[j + 1] = Errs(r) /\ j + 1 \in DOMAIN backlog /\ j \in Nat
        /\ RangeOf(executed') = RangeOf(executed) \cup {backlog[1]}
        /\ DOMAIN backlog = 1..Len(backlog) /\ DOMAIN backlog' = 1..Len(backlog) - 1
    BY <1>0, <1>3, Executing DEF Returns
  <2>2. CASE Main(r) \in RangeOf(executed)
    BY <2>1, <2>2
  <2>3. ASSUME NEW i \in 1..j, backlog[i] = Main(r) PROVE Goal
    <3>1. CASE i = 1
      BY <2>1, <2>3, <3>1
    <3>2. CASE i # 1
      <4>1. i - 1 \in DOMAIN backlog' /\ i - 1 \in 1..j - 1 /\ (i - 1) + 1 = i
        BY <2>1, <3>2
      <4>2. backlog'[i - 1] = backlog[i]
        BY <1>0, <1>3, <4>1, Executing DEF Returns
      <4> QED
        BY <2>3, <4>1, <4>2
    <3> QED
      BY <3>1, <3>2
  <2>4. Main(r) \in RangeOf(executed) \/ \E i \in 1..(j + 1) - 1 : backlog[i] = Main(r)
    BY <2>1 DEF IInv, SpansFirst
  <2>5. (j + 1) - 1 = j
    BY <2>1
  <2> QED
    BY <2>2, <2>3, <2>4, <2>5
<1>4. CASE Crash
  BY <1>4, EmptyQueue DEF Crash, Log!Die
<1>5. \/ UNCHANGED <<backlog, executed>>
      \/ \E q \in Requests : Handler(q) /\ \E op \in Ops : Log!Accept(op)
      \/ \E op \in Ops : Returns(op)
      \/ Crash
  <2>1. ASSUME NEW q \in Requests, Handler(q)
        PROVE  UNCHANGED <<backlog, executed>> \/ \E op \in Ops : Log!Accept(op)
    <3>1. <<q, "main">> \in Ops /\ <<q, "errors">> \in Ops
      BY DEF Ops
    <3> QED
      BY <2>1, <3>1 DEF Handler, AnswerEarly, Enqueue, Refuse, Await, EnqueueErrors,
           BroadcastAndAnswer, Log!Refuse, logVars
  <2>2. Insert \/ UNCHANGED vars => UNCHANGED <<backlog, executed>>
    BY DEF Insert, vars, logVars
  <2> QED
    BY <1>0, <2>1, <2>2, WriterReturns DEF Next, Writer
<1> QED
  BY <1>1, <1>2, <1>3, <1>4, <1>5

\* What was refused stays without rows, tags, a place in the queue and events.
LEMMA RefusedStep == IInv /\ [Next]_vars => RefusedLeavesNothing'
<1> SUFFICES ASSUME IInv, [Next]_vars, NEW r \in Requests, answer'[r] \in {"4xx", "503"}
             PROVE  /\ \A op \in {Main(r), Errs(r)} :
                           RowsOf(op)' = {} /\ op \notin RangeOf(backlog') \cup tags'
                    /\ r \notin tail'
  BY DEF RefusedLeavesNothing, Main, Errs, RowsOf
<1>0. TypeOK /\ Errs(r) \in Ops /\ Main(r) \in Ops
  BY DEF IInv, Main, Errs, Ops
<1>1. /\ \A op \in {Main(r), Errs(r)} : RowsOf(op) = {} /\ op \notin RangeOf(backlog) \cup tags
      /\ r \notin tail
      /\ pc[r] = "done" \/ AnswerEarly(r) \/ Refuse(r)
  <2>1. CASE answer[r] \in {"4xx", "503"}
    BY <2>1 DEF IInv, RefusedLeavesNothing, Progress, Main, Errs
  <2>2. CASE answer[r] \notin {"4xx", "503"}
    <3>1. (AnswerEarly(r) \/ Refuse(r)) /\ pc[r] = "new"
      <4>1. PICK q \in Requests : Handler(q)
        BY <2>2 DEF Next, Writer, Insert, InsertFails, Finish, Crash, vars
      <4>2. q = r
        BY <2>2, <4>1, HandlerStep
      <4> QED
        BY <1>0, <2>2, <4>1, <4>2
           DEF Handler, AnswerEarly, Refuse, Enqueue, Await, EnqueueErrors, BroadcastAndAnswer,
               Answer, TypeOK, OTLP
    <3>2. Main(r) \notin offered /\ Errs(r) \notin offered /\ r \notin tail
      BY <3>1 DEF IInv, Progress
    <3>3. \A op \in Ops \ offered : Fresh(op) /\ op \notin RangeOf(backlog)
      BY DEF IInv, UnofferedAreFresh, QueuedInOrder, RangeOf
    <3> QED
      BY <1>0, <3>1, <3>2, <3>3 DEF Fresh
  <2> QED
    BY <2>1, <2>2
<1>2. CASE Insert
  <2>1. backlog[1] \in RangeOf(backlog)
    BY <1>0, <1>2 DEF Insert, RangeOf, TypeOK
  <2>2. \A op \in {Main(r), Errs(r)} : RowsOf(op)' = RowsOf(op)
    BY <1>0, <1>1, <1>2, <2>1, RowsMove
  <2> QED
    BY <1>1, <1>2, <2>2 DEF Insert, logVars
<1>3. CASE ~Insert
  <2>1. \A op \in {Main(r), Errs(r)} : RowsOf(op)' = RowsOf(op)
    BY <1>0, <1>3, RowsMove
  <2>2. ASSUME NEW q \in Requests, Handler(q)
        PROVE  \A op \in {Main(r), Errs(r)} : op \notin RangeOf(backlog') \cup tags' /\ r \notin tail'
    <3>1. CASE q = r
      BY <1>1, <2>2, <3>1, HandlerStep DEF AnswerEarly, Refuse, Log!Refuse, logVars, dbVars
    <3>2. CASE q # r
      <4>1. Main(r) \notin {Main(q), Errs(q)} /\ Errs(r) \notin {Main(q), Errs(q)}
        BY <3>2 DEF Main, Errs
      <4> QED
        BY <1>1, <2>2, <3>2, <4>1, HandlerStep DEF dbVars
    <3> QED
      BY <3>1, <3>2
  <2>3. CASE InsertFails \/ Finish
    <3>1. PICK op \in Ops : Returns(op)
      BY <1>0, <2>3, WriterReturns
    <3>2. tail' = tail
      BY <1>0, <2>3, WriterReturns
    <3>3. RangeOf(backlog) = RangeOf(backlog') \cup {op} /\ tags' \subseteq tags \cup {op}
      BY <1>0, <3>1, Executing DEF Returns
    <3> QED
      BY <1>1, <2>1, <3>2, <3>3
  <2>4. CASE Crash
    BY <1>1, <2>1, <2>4, EmptyQueue DEF Crash, Log!Die
  <2>5. CASE UNCHANGED vars
    BY <1>1, <2>1, <2>5 DEF vars, logVars, dbVars
  <2> QED
    BY <1>1, <1>3, <2>1, <2>2, <2>3, <2>4, <2>5 DEF Next, Writer
<1> QED
  BY <1>2, <1>3

\* Before any request the invariant holds.
LEMMA InitIInv == Init => IInv
<1> SUFFICES ASSUME Init PROVE IInv
  OBVIOUS
<1>1. \A op : RowsOf(op) = {} /\ Upto(op, 0) = {}
  BY DEF Init, RowsOf, Upto
<1>2. TypeOK
  BY IngestAssumption, EmptyQueue DEF Init, TypeOK, Log!Init
<1>3. UnofferedAreFresh /\ QueuedInOrder /\ TaggedAreWhole /\ StoredAreWhole
  BY <1>1, EmptyQueue
     DEF Init, Log!Init, UnofferedAreFresh, QueuedInOrder, TaggedAreWhole, StoredAreWhole,
         Fresh, Stored
<1>4. SpansFirst /\ Progress /\ RefusedLeavesNothing
  BY <1>1, EmptyQueue
     DEF Init, Log!Init, SpansFirst, Progress, RefusedLeavesNothing, Main, Errs
<1>5. TablesFillInOrder /\ ExceptionsAfterSpans
  <2>1. \A op \in Ops : 0 \in 0..Len(Inserts(op))
    BY <1>2, InsertsShape
  <2> QED
    BY <1>1, <2>1 DEF TablesFillInOrder, ExceptionsAfterSpans, Upto
<1> QED
  BY <1>2, <1>3, <1>4, <1>5 DEF IInv

\* The invariant is inductive.
LEMMA Inductive == Spec => []IInv
<1>1. IInv /\ [Next]_vars => IInv'
  BY TypeStep, WriterStep, RowsStep, ProgressStep, SpansStep, RefusedStep DEF IInv
<1> QED
  BY InitIInv, <1>1, PTL DEF Spec

-----------------------------------------------------------------------------
(* The safety theorems.                                                    *)

\* Whatever was refused left nothing, a multi-table write is a prefix of its
\* inserts, exceptions follow their spans and tags describe rows that are all
\* there: for any requests, interleaved with any failures and deaths.
THEOREM RowsStayTrue == Spec => []RowsAreTrue
<1>1. IInv => RowsAreTrue
  <2> SUFFICES ASSUME IInv, NEW op \in tags PROVE Cardinality(RowsOf(op)) = Len(Inserts(op))
    BY DEF RowsAreTrue, TagsDescribeRows, IInv
  <2> QED
    BY AllCardinality DEF IInv, TaggedAreWhole, TypeOK
<1> QED
  BY Inductive, <1>1, PTL

\* A server that awaits its writes says 200 on /v1/ai, /v1/errors and /v1/rum
\* when every row is stored, or else has given up awaiting.
THEOREM ParityAnswersAreCommits == Spec => []ParityAnswerIsCommit
<1>1. IInv => ParityAnswerIsCommit
  <2> SUFFICES ASSUME IInv, Wait, NEW r \in Requests \ late, answer[r] = "200",
                      kind[r] \in {"ai", "errors", "rum"}
               PROVE  Cardinality(RowsOf(Main(r))) = Len(Inserts(Main(r)))
    BY DEF ParityAnswerIsCommit, Main
  <2>1. Main(r) \in Ops /\ result[Main(r)] = Stored
    BY DEF IInv, Progress, Main, Ops
  <2> QED
    BY <2>1, AllCardinality DEF IInv, StoredAreWhole
<1> QED
  BY Inductive, <1>1, PTL

=============================================================================
