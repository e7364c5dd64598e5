-------------------------- MODULE WriteQueueProofs --------------------------
(***************************************************************************)
(* Proofs about the background DB writer, for any set of tasks, channel    *)
(* capacity, batch bound and mode.                                         *)
(***************************************************************************)
EXTENDS WriteQueue, SequenceTheorems, TLAPS

-----------------------------------------------------------------------------
(* Type correctness.                                                       *)

\* Every action keeps the types, the channel's capacity and the batch's bound.
LEMMA TypeStep == TypeOK /\ [Next]_vars => TypeOK'
<1> SUFFICES ASSUME TypeOK, [Next]_vars PROVE TypeOK'
  OBVIOUS
<1> USE QueueAssumption DEF TypeOK, CallState, Outcome, Worker, history
<1>1. ASSUME NEW t \in Tasks, Enqueue(t) PROVE TypeOK'
  BY <1>1 DEF Enqueue
<1>2. ASSUME NEW t \in Tasks, Offer(t) PROVE TypeOK'
  BY <1>2 DEF Offer
<1>3. ASSUME NEW t \in Tasks, OfferTimeout(t) PROVE TypeOK'
  BY <1>3 DEF OfferTimeout
<1>4. ASSUME NEW t \in Tasks, AwaitDone(t) PROVE TypeOK'
  BY <1>4 DEF AwaitDone
<1>5. ASSUME NEW t \in Tasks, AwaitTimeout(t) PROVE TypeOK'
  BY <1>5 DEF AwaitTimeout, Recording
<1>6. CASE Receive
  BY <1>6 DEF Receive
<1>7. CASE Fill
  BY <1>7 DEF Fill
<1>8. CASE EndFill
  BY <1>8 DEF EndFill
<1>9. CASE RunOp
  BY <1>9 DEF RunOp
<1>10. CASE Record
  BY <1>10 DEF Record
<1>11. CASE Crash
  BY <1>11 DEF Crash, RangeOf, Backlog
<1>12. CASE UNCHANGED vars
  BY <1>12 DEF vars
<1> QED
  BY <1>1, <1>2, <1>3, <1>4, <1>5, <1>6, <1>7, <1>8, <1>9, <1>10, <1>11,
     <1>12 DEF Next, Handler, WorkerStep

\* Types, capacity and batch bound hold in every reachable state.
THEOREM TypeCorrect == Spec => []TypeOK
<1>1. Init => TypeOK
  BY QueueAssumption DEF Init, TypeOK, CallState, Outcome, Worker
<1>2. TypeOK /\ [Next]_vars => TypeOK'
  BY TypeStep
<1> QED
  BY <1>1, <1>2, PTL DEF Spec

-----------------------------------------------------------------------------
(* Sequences without repetition, and their elements.                       *)

Distinct(s) == \A i, j \in DOMAIN s : s[i] = s[j] => i = j

\* A send on a channel, an append to the batch or to the log.
LEMMA AppendElements ==
  ASSUME NEW S, NEW s \in Seq(S), NEW e \in S
  PROVE  /\ RangeOf(Append(s, e)) = RangeOf(s) \cup {e}
         /\ Distinct(s) /\ e \notin RangeOf(s) => Distinct(Append(s, e))
<1>1. /\ DOMAIN Append(s, e) = 1..Len(s) + 1
      /\ Append(s, e)[Len(s) + 1] = e
      /\ \A i \in DOMAIN s : Append(s, e)[i] = s[i] /\ i \in 1..Len(s) + 1
      /\ DOMAIN s = 1..Len(s) /\ Len(s) \in Nat
  OBVIOUS
<1>2. RangeOf(Append(s, e)) = RangeOf(s) \cup {e}
  BY <1>1 DEF RangeOf
<1>3. ASSUME Distinct(s), e \notin RangeOf(s) PROVE Distinct(Append(s, e))
  BY <1>1, <1>3 DEF Distinct, RangeOf
<1> QED
  BY <1>2, <1>3

\* A receive from a channel, a step to the batch's next task.
LEMMA TailElements ==
  ASSUME NEW S, NEW s \in Seq(S), s # <<>>, Distinct(s)
  PROVE  /\ Head(s) \in RangeOf(s) /\ Head(s) \in S
         /\ RangeOf(Tail(s)) = RangeOf(s) \ {Head(s)}
         /\ Distinct(Tail(s))
<1>1. /\ DOMAIN Tail(s) = 1..Len(s) - 1
      /\ \A i \in DOMAIN Tail(s) : Tail(s)[i] = s[i + 1] /\ i + 1 \in DOMAIN s
      /\ DOMAIN s = 1..Len(s) /\ Len(s) \in Nat /\ Len(s) >= 1
      /\ Head(s) = s[1] /\ s[1] \in S
  OBVIOUS
<1>2. ASSUME NEW i \in DOMAIN s, i # 1
      PROVE  i - 1 \in DOMAIN Tail(s) /\ Tail(s)[i - 1] = s[i]
  BY <1>1, <1>2
<1>3. RangeOf(Tail(s)) \subseteq RangeOf(s) \ {Head(s)}
  <2> SUFFICES ASSUME NEW i \in DOMAIN Tail(s)
               PROVE  Tail(s)[i] \in RangeOf(s) \ {Head(s)}
    BY DEF RangeOf
  <2>1. i + 1 # 1 /\ i + 1 \in DOMAIN s /\ 1 \in DOMAIN s
    BY <1>1
  <2> QED
    BY <2>1, <1>1 DEF RangeOf, Distinct
<1>4. RangeOf(s) \ {Head(s)} \subseteq RangeOf(Tail(s))
  <2> SUFFICES ASSUME NEW i \in DOMAIN s, s[i] # Head(s)
               PROVE  s[i] \in RangeOf(Tail(s))
    BY DEF RangeOf
  <2> QED
    BY <1>1, <1>2 DEF RangeOf
<1>5. Distinct(Tail(s))
  <2> SUFFICES ASSUME NEW i \in DOMAIN Tail(s), NEW j \in DOMAIN Tail(s),
                      Tail(s)[i] = Tail(s)[j]
               PROVE  i = j
    BY DEF Distinct
  <2> QED
    BY <1>1 DEF Distinct
<1> QED
  BY <1>1, <1>3, <1>4, <1>5 DEF RangeOf

-----------------------------------------------------------------------------
(* The inductive invariant: a task is in one place at a time, what was     *)
(* accepted is not on offer any more, and what has not run has no outcome. *)

\* The task whose operation has returned and is not recorded yet.
Current == IF worker = "record" THEN {Head(batch)} ELSE {}

\* The tasks whose offer succeeded.
Accepted == {t \in Tasks : call[t] \in {"wait", "nil", "error", "dead"}}

OnePlace ==
    /\ Distinct(executed) /\ Distinct(batch) /\ Distinct(ch)
    /\ RangeOf(batch) \cap RangeOf(ch) = {}
    /\ RangeOf(executed) \cap RangeOf(ch) = {}
    /\ RangeOf(executed) \cap RangeOf(batch) = Current

AcceptedOnly ==
    RangeOf(executed) \cup RangeOf(batch) \cup RangeOf(ch) \subseteq Accepted

UnrunHasNoOutcome ==
    \A t \in (RangeOf(batch) \cup RangeOf(ch) \cup (Tasks \ Accepted)) \ Current :
        outcome[t] = "none" /\ t \notin done

IInv ==
    /\ TypeOK
    /\ OnePlace
    /\ AcceptedOnly
    /\ UnrunHasNoOutcome
    /\ DoneAfterRecord
    /\ AckTellsOutcome

\* The empty queue satisfies it.
LEMMA InitIInv == Init => IInv
<1> SUFFICES ASSUME Init PROVE IInv
  OBVIOUS
<1>1. TypeOK
  BY QueueAssumption DEF Init, TypeOK, CallState, Outcome, Worker
<1>2. RangeOf(<<>>) = {} /\ Distinct(<<>>)
  BY DEF RangeOf, Distinct
<1>3. OnePlace /\ AcceptedOnly /\ UnrunHasNoOutcome
  BY <1>2 DEF Init, OnePlace, AcceptedOnly, UnrunHasNoOutcome, Current
<1>4. DoneAfterRecord /\ AckTellsOutcome
  BY QueueAssumption DEF Init, DoneAfterRecord, AckTellsOutcome
<1> QED
  BY <1>1, <1>3, <1>4 DEF IInv

\* What each queue operation does to the elements of the queues.
LEMMA Elements ==
  ASSUME IInv
  PROVE  /\ \A t \in Tasks : Offer(t) =>
                /\ RangeOf(ch') = RangeOf(ch) \cup {t}
                /\ t \notin RangeOf(ch) => Distinct(ch')
         /\ Receive =>
                /\ Head(ch) \in RangeOf(ch)
                /\ RangeOf(ch') = RangeOf(ch) \ {Head(ch)} /\ Distinct(ch')
                /\ RangeOf(batch') = {Head(ch)} /\ Distinct(batch')
                /\ RangeOf(batch) = {}
         /\ Fill =>
                /\ Head(ch) \in RangeOf(ch)
                /\ RangeOf(ch') = RangeOf(ch) \ {Head(ch)} /\ Distinct(ch')
                /\ RangeOf(batch') = RangeOf(batch) \cup {Head(ch)}
                /\ Distinct(batch')
         /\ RunOp =>
                /\ Head(batch) \in RangeOf(batch) \ RangeOf(executed)
                /\ RangeOf(executed') = RangeOf(executed) \cup {Head(batch)}
                /\ Distinct(executed')
         /\ Record =>
                /\ Head(batch) \in RangeOf(batch)
                /\ RangeOf(batch') = RangeOf(batch) \ {Head(batch)}
                /\ Distinct(batch')
<1> USE DEF IInv, TypeOK, OnePlace
<1>1. ASSUME NEW t \in Tasks, Offer(t)
      PROVE  /\ RangeOf(ch') = RangeOf(ch) \cup {t}
             /\ t \notin RangeOf(ch) => Distinct(ch')
  BY <1>1, AppendElements DEF Offer
<1>2. ASSUME Receive
      PROVE  /\ Head(ch) \in RangeOf(ch)
             /\ RangeOf(ch') = RangeOf(ch) \ {Head(ch)} /\ Distinct(ch')
             /\ RangeOf(batch') = {Head(ch)} /\ Distinct(batch')
             /\ RangeOf(batch) = {}
  <2>1. /\ Head(ch) \in RangeOf(ch)
        /\ RangeOf(ch') = RangeOf(ch) \ {Head(ch)} /\ Distinct(ch')
    BY <1>2, TailElements DEF Receive
  <2>2. batch' = <<Head(ch)>> /\ batch = <<>>
    BY <1>2 DEF Receive
  <2>3. \A e : RangeOf(<<e>>) = {e} /\ Distinct(<<e>>) /\ RangeOf(<<>>) = {}
    BY DEF RangeOf, Distinct
  <2> QED
    BY <2>1, <2>2, <2>3
<1>3. ASSUME Fill
      PROVE  /\ Head(ch) \in RangeOf(ch)
             /\ RangeOf(ch') = RangeOf(ch) \ {Head(ch)} /\ Distinct(ch')
             /\ RangeOf(batch') = RangeOf(batch) \cup {Head(ch)}
             /\ Distinct(batch')
  <2>1. /\ Head(ch) \in RangeOf(ch) /\ Head(ch) \in Tasks
        /\ RangeOf(ch') = RangeOf(ch) \ {Head(ch)} /\ Distinct(ch')
    BY <1>3, TailElements DEF Fill
  <2>2. batch' = Append(batch, Head(ch)) /\ Head(ch) \notin RangeOf(batch)
    BY <1>3, <2>1 DEF Fill
  <2> QED
    BY <2>1, <2>2, AppendElements
<1>4. ASSUME RunOp
      PROVE  /\ Head(batch) \in RangeOf(batch) \ RangeOf(executed)
             /\ RangeOf(executed') = RangeOf(executed) \cup {Head(batch)}
             /\ Distinct(executed')
  <2>1. /\ Head(batch) \in RangeOf(batch) /\ Head(batch) \in Tasks
        /\ worker = "run"
    BY <1>4, TailElements DEF RunOp
  <2>2. Head(batch) \notin RangeOf(executed)
    BY <2>1 DEF Current
  <2> QED
    BY <1>4, <2>1, <2>2, AppendElements DEF RunOp
<1>5. ASSUME Record
      PROVE  /\ Head(batch) \in RangeOf(batch)
             /\ RangeOf(batch') = RangeOf(batch) \ {Head(batch)}
             /\ Distinct(batch')
  BY <1>5, TailElements DEF Record
<1> QED
  BY <1>1, <1>2, <1>3, <1>4, <1>5

\* The handler's other steps leave the worker's side alone and never take a
\* call out of the accepted ones.
LEMMA HandlerStep ==
  ASSUME IInv, NEW t \in Tasks,
         Enqueue(t) \/ OfferTimeout(t) \/ AwaitDone(t) \/ AwaitTimeout(t)
  PROVE  /\ UNCHANGED <<ch, batch, worker, err, done, outcome, executed>>
         /\ Accepted \subseteq Accepted'
         /\ late \subseteq late'
         /\ \E v \in CallState : call' = [call EXCEPT ![t] = v]
<1> USE DEF IInv, TypeOK, Accepted, CallState, Outcome, history
<1>1. CASE Enqueue(t)
  BY <1>1 DEF Enqueue
<1>2. CASE OfferTimeout(t)
  BY <1>2 DEF OfferTimeout
<1>3. CASE AwaitDone(t)
  BY <1>3 DEF AwaitDone
<1>4. CASE AwaitTimeout(t)
  BY <1>4 DEF AwaitTimeout, Recording
<1> QED
  BY <1>1, <1>2, <1>3, <1>4

\* No step puts a task in two places, or a task not accepted in any.
LEMMA PlacesStep ==
  IInv /\ [Next]_vars => OnePlace' /\ AcceptedOnly' /\ UnrunHasNoOutcome'
<1> SUFFICES ASSUME IInv, [Next]_vars
             PROVE  OnePlace' /\ AcceptedOnly' /\ UnrunHasNoOutcome'
  OBVIOUS
<1> DEFINE Goal == OnePlace' /\ AcceptedOnly' /\ UnrunHasNoOutcome'
<1> USE DEF IInv, TypeOK, OnePlace, AcceptedOnly, UnrunHasNoOutcome, Current
<1>1. ASSUME NEW t \in Tasks, Offer(t) PROVE Goal
  <2>1. RangeOf(ch') = RangeOf(ch) \cup {t} /\ (t \notin RangeOf(ch) => Distinct(ch'))
    BY <1>1, Elements
  <2>2. t \notin Accepted /\ Accepted' = Accepted \cup {t}
    BY <1>1 DEF Offer, Accepted, CallState
  <2>3. UNCHANGED <<batch, worker, done, outcome, executed>>
    BY <1>1 DEF Offer, history
  <2>4. outcome[t] = "none" /\ t \notin done
    BY <2>2, <1>1
  <2> QED
    BY <2>1, <2>2, <2>3, <2>4
<1>2. CASE Receive
  BY <1>2, Elements DEF Receive, history, Accepted
<1>3. CASE Fill
  BY <1>3, Elements DEF Fill, history, Accepted
<1>4. CASE EndFill
  BY <1>4 DEF EndFill, history, Accepted
<1>5. CASE RunOp
  <2>1. /\ worker = "run" /\ worker' = "record"
        /\ UNCHANGED <<call, ch, batch, done>>
        /\ \A t \in Tasks \ {Head(batch)} : outcome'[t] = outcome[t]
    BY <1>5 DEF RunOp
  <2> QED
    BY <1>5, <2>1, Elements DEF Accepted
<1>6. CASE Record
  <2>1. /\ worker = "record" /\ worker' # "record"
        /\ UNCHANGED <<call, ch, outcome, executed>>
        /\ done' \subseteq done \cup {Head(batch)}
    BY <1>6 DEF Record, history
  <2> QED
    BY <1>6, <2>1, Elements DEF Accepted
<1>7. CASE Crash
  <2>1. RangeOf(<<>>) = {} /\ Distinct(<<>>)
    BY DEF RangeOf, Distinct
  <2>2. /\ ch' = <<>> /\ batch' = <<>> /\ worker' = "recv"
        /\ UNCHANGED <<executed, outcome, done>>
    BY <1>7 DEF Crash
  <2>3. Accepted \subseteq Accepted'
    BY <1>7 DEF Crash, Accepted
  <2> QED
    BY <2>1, <2>2, <2>3
<1>8. ASSUME NEW t \in Tasks,
             Enqueue(t) \/ OfferTimeout(t) \/ AwaitDone(t) \/ AwaitTimeout(t)
      PROVE Goal
  BY <1>8, HandlerStep
<1>9. CASE UNCHANGED vars
  BY <1>9 DEF vars, Accepted
<1> QED
  BY <1>1, <1>2, <1>3, <1>4, <1>5, <1>6, <1>7, <1>8, <1>9
     DEF Next, Handler, WorkerStep

\* No step spoils what a task's err, done and answer say.
LEMMA AnswerStep == IInv /\ [Next]_vars => DoneAfterRecord' /\ AckTellsOutcome'
<1> SUFFICES ASSUME IInv, [Next]_vars
             PROVE  DoneAfterRecord' /\ AckTellsOutcome'
  OBVIOUS
<1> DEFINE Goal == DoneAfterRecord' /\ AckTellsOutcome'
<1> USE QueueAssumption DEF IInv, TypeOK, DoneAfterRecord, AckTellsOutcome
<1>1. ASSUME UNCHANGED <<err, done, outcome>>, late \subseteq late',
             \A t \in Tasks \ late' :
                 t \in Waits /\ call'[t] \in {"nil", "error"} => call'[t] = call[t]
      PROVE  Goal
  BY <1>1
<1>2. ASSUME NEW t \in Tasks, Enqueue(t) \/ Offer(t) \/ OfferTimeout(t)
      PROVE  Goal
  <2>1. /\ UNCHANGED <<err, done, outcome, late>>
        /\ \E v \in {"offer", "full", IF t \in Waits THEN "wait" ELSE "nil"} :
               call' = [call EXCEPT ![t] = v]
    BY <1>2 DEF Enqueue, Offer, OfferTimeout, history
  <2> QED
    BY <2>1, <1>1
<1>3. ASSUME NEW t \in Tasks, AwaitDone(t) PROVE Goal
  BY <1>3 DEF AwaitDone, history
<1>4. ASSUME NEW t \in Tasks, AwaitTimeout(t) PROVE Goal
  <2>1. /\ UNCHANGED <<err, done, outcome>>
        /\ late' = late \cup {t}
        /\ \A u \in Tasks \ {t} : call'[u] = call[u]
    BY <1>4 DEF AwaitTimeout
  <2> QED
    BY <2>1, <1>1
<1>5. CASE Receive \/ Fill \/ EndFill
  <2>1. UNCHANGED <<call, err, done, outcome, late>>
    BY <1>5 DEF Receive, Fill, EndFill, history
  <2> QED
    BY <2>1, <1>1
<1>6. CASE RunOp
  <2>1. /\ UNCHANGED <<call, err, done, late>>
        /\ \A u \in Tasks \ {Head(batch)} : outcome'[u] = outcome[u]
        /\ worker = "run"
    BY <1>6 DEF RunOp
  <2>2. outcome[Head(batch)] = "none" /\ Head(batch) \notin done
    BY <2>1, <1>6, Elements DEF UnrunHasNoOutcome, Current
  <2> QED
    BY <2>1, <2>2
<1>7. CASE Record
  <2>1. /\ UNCHANGED <<call, outcome, late>>
        /\ done' \subseteq done \cup {Head(batch)}
        /\ Head(batch) \in Tasks
        /\ err' = [err EXCEPT ![Head(batch)] = outcome[Head(batch)]]
        /\ outcome[Head(batch)] # "none"
    BY <1>7 DEF Record, history
  <2> QED
    BY <2>1
<1>8. CASE Crash
  <2>1. /\ UNCHANGED <<err, done, outcome, late>>
        /\ \A t \in Tasks : call'[t] = call[t] \/ call'[t] = "dead"
    BY <1>8 DEF Crash
  <2> QED
    BY <2>1, <1>1
<1>9. CASE UNCHANGED vars
  BY <1>9 DEF vars
<1> QED
  BY <1>2, <1>3, <1>4, <1>5, <1>6, <1>7, <1>8, <1>9
     DEF Next, Handler, WorkerStep

\* The backlog has no other elements than the batch's and the channel's.
LEMMA BacklogElements ==
  IInv => RangeOf(Backlog) \subseteq RangeOf(batch) \cup RangeOf(ch)
<1> SUFFICES ASSUME IInv
             PROVE  RangeOf(Backlog) \subseteq RangeOf(batch) \cup RangeOf(ch)
  OBVIOUS
<1> DEFINE left == IF worker = "record" THEN Tail(batch) ELSE batch
<1>1. left \in Seq(Tasks) /\ ch \in Seq(Tasks) /\ RangeOf(left) \subseteq RangeOf(batch)
  BY TailElements DEF IInv, TypeOK, OnePlace
<1>2. RangeOf(left \o ch) \subseteq RangeOf(left) \cup RangeOf(ch)
  BY <1>1 DEF RangeOf
<1> QED
  BY <1>1, <1>2 DEF Backlog

\* The invariant is inductive.
LEMMA Inductive == Spec => []IInv
<1>1. IInv /\ [Next]_vars => IInv'
  BY TypeStep, PlacesStep, AnswerStep DEF IInv
<1> QED
  BY InitIInv, <1>1, PTL DEF Spec

-----------------------------------------------------------------------------
(* The safety theorems.                                                    *)

\* Every task runs at most once, for any interleaving of any number of
\* handlers with the worker and with process deaths.
THEOREM RunsOnce == Spec => []ExactlyOnce
<1>1. IInv => ExactlyOnce
  BY DEF IInv, OnePlace, Distinct, ExactlyOnce
<1> QED
  BY Inductive, <1>1, PTL

\* A write answered 503 has not run and never runs.
THEOREM RefusedIsSafeToRetry == Spec => []RefusedNeverRuns
<1>1. IInv => RefusedNeverRuns
  <2> SUFFICES ASSUME IInv, NEW t \in Tasks, call[t] = "full"
               PROVE  t \notin RangeOf(executed) \cup RangeOf(Backlog)
    BY DEF RefusedNeverRuns
  <2>1. t \notin Accepted
    BY DEF Accepted
  <2>2. RangeOf(Backlog) \subseteq RangeOf(batch) \cup RangeOf(ch)
    BY BacklogElements
  <2> QED
    BY <2>1, <2>2 DEF IInv, AcceptedOnly
<1> QED
  BY Inductive, <1>1, PTL

\* Awaiting handlers are told the truth, and a closed done means recorded.
THEOREM AnswersAreTrue == Spec => [](AckTellsOutcome /\ DoneAfterRecord)
<1>1. IInv => AckTellsOutcome /\ DoneAfterRecord
  BY DEF IInv
<1> QED
  BY Inductive, <1>1, PTL

-----------------------------------------------------------------------------
(* The write queue implements the commit log.                              *)

\* How concatenation meets Append, Head and Tail.
LEMMA ConcatMoves ==
  ASSUME NEW S, NEW r \in Seq(S), NEW s \in Seq(S)
  PROVE  /\ \A e \in S : r \o Append(s, e) = Append(r \o s, e)
         /\ s # <<>> => <<Head(s)>> \o Tail(s) = s
         /\ s # <<>> => Append(r, Head(s)) \o Tail(s) = r \o s
         /\ r # <<>> => /\ r \o s # <<>>
                        /\ Head(r \o s) = Head(r)
                        /\ Tail(r \o s) = Tail(r) \o s
<1>1. \A e \in S : r \o Append(s, e) = Append(r \o s, e)
  OBVIOUS
<1>2. s # <<>> => <<Head(s)>> \o Tail(s) = s
  OBVIOUS
<1>3. s # <<>> => Append(r, Head(s)) \o Tail(s) = r \o s
  OBVIOUS
<1>4. r # <<>> => /\ r \o s # <<>>
                  /\ Head(r \o s) = Head(r)
                  /\ Tail(r \o s) = Tail(r) \o s
  OBVIOUS
<1> QED
  BY <1>1, <1>2, <1>3, <1>4

\* The tasks no longer on offer.
Offered == {t \in Tasks : call[t] \notin {"new", "offer"}}

\* A step that moves none of the commit log's state stutters there.
LEMMA LogStutter ==
  UNCHANGED <<Offered, Backlog, executed>> => UNCHANGED Log!vars
BY DEF Log!vars, Offered

\* Every step of the queue is a step of the commit log, or a stutter.
LEMMA LogStep == IInv /\ [Next]_vars => [Log!Next]_(Log!vars)
<1> SUFFICES ASSUME IInv, [Next]_vars PROVE [Log!Next]_(Log!vars)
  OBVIOUS
<1> DEFINE left == IF worker = "record" THEN Tail(batch) ELSE batch
<1> USE QueueAssumption DEF IInv, TypeOK
<1>0. left \in Seq(Tasks) /\ Len(left) <= BatchMax /\ Backlog = left \o ch
  BY DEF Backlog
<1>1. ASSUME NEW t \in Tasks, Offer(t) PROVE Log!Accept(t)
  <2>1. t \notin Offered /\ Offered' = Offered \cup {t}
    BY <1>1 DEF Offer, Offered
  <2>2. Backlog' = Append(Backlog, t)
    <3>1. Backlog' = left \o Append(ch, t)
      BY <1>1 DEF Offer, Backlog
    <3>2. \A r \in Seq(Tasks) : r \o Append(ch, t) = Append(r \o ch, t)
      BY ConcatMoves
    <3> QED
      BY <1>0, <3>1, <3>2
  <2>3. Len(Backlog) < QueueMax + BatchMax
    BY <1>0, <1>1 DEF Offer
  <2>4. UNCHANGED executed
    BY <1>1 DEF Offer, history
  <2> QED
    BY <2>1, <2>2, <2>3, <2>4 DEF Log!Accept, Offered
<1>2. ASSUME NEW t \in Tasks, OfferTimeout(t) PROVE Log!Refuse(t)
  <2>1. t \notin Offered /\ Offered' = Offered \cup {t}
    BY <1>2 DEF OfferTimeout, Offered
  <2>2. UNCHANGED <<Backlog, executed>>
    BY <1>2 DEF OfferTimeout, history, Backlog
  <2> QED
    BY <2>1, <2>2 DEF Log!Refuse, Offered
<1>3. CASE RunOp
  <2>1. /\ batch # <<>> /\ worker = "run" /\ worker' = "record"
        /\ executed' = Append(executed, Head(batch))
        /\ UNCHANGED <<batch, ch, call>>
    BY <1>3 DEF RunOp
  <2>2. /\ Backlog = batch \o ch /\ Backlog' = Tail(batch) \o ch
    BY <2>1 DEF Backlog
  <2>3. Backlog # <<>> /\ Head(Backlog) = Head(batch) /\ Backlog' = Tail(Backlog)
    <3>1. /\ batch \o ch # <<>>
          /\ Head(batch \o ch) = Head(batch)
          /\ Tail(batch \o ch) = Tail(batch) \o ch
      BY <2>1, ConcatMoves
    <3> QED
      BY <2>2, <3>1
  <2>4. UNCHANGED Offered
    BY <2>1 DEF Offered
  <2> QED
    BY <2>1, <2>3, <2>4 DEF Log!Execute, Log!Next, Offered
<1>4. CASE Crash
  <2>1. Backlog' = <<>> /\ UNCHANGED executed
    BY <1>4 DEF Crash, Backlog
  <2>2. PICK S \in SUBSET Tasks : S = {t \in Tasks : call[t] = "offer"}
    OBVIOUS
  <2>3. S \cap Offered = {}
    BY <2>2 DEF Offered
  <2>4. Offered' = Offered \cup S
    BY <1>4, <2>2 DEF Crash, Offered, CallState
  <2>5. Log!Die(S)
    BY <2>1, <2>3, <2>4 DEF Log!Die, Offered
  <2> QED
    BY <2>5 DEF Log!Next
<1>5. CASE Receive
  <2>1. UNCHANGED <<call, executed>> /\ batch = <<>> /\ ch # <<>>
        /\ worker = "recv" /\ worker' = "fill"
        /\ batch' = <<Head(ch)>> /\ ch' = Tail(ch)
    BY <1>5 DEF Receive, history
  <2>2. UNCHANGED Backlog
    <3>1. <<Head(ch)>> \o Tail(ch) = ch /\ <<>> \o ch = ch
      BY <2>1, ConcatMoves, ConcatEmptySeq
    <3> QED
      BY <2>1, <3>1 DEF Backlog
  <2> QED
    BY <2>1, <2>2, LogStutter DEF Offered
<1>6. CASE Fill
  <2>1. UNCHANGED <<call, executed, worker>> /\ ch # <<>> /\ worker = "fill"
        /\ batch' = Append(batch, Head(ch)) /\ ch' = Tail(ch)
    BY <1>6 DEF Fill, history
  <2>2. UNCHANGED Backlog
    BY <2>1, ConcatMoves DEF Backlog
  <2> QED
    BY <2>1, <2>2, LogStutter DEF Offered
<1>7. CASE EndFill \/ Record
  <2>1. UNCHANGED <<call, executed, Backlog>>
    BY <1>7 DEF EndFill, Record, history, Backlog
  <2> QED
    BY <2>1, LogStutter DEF Offered
<1>8. ASSUME NEW t \in Tasks, Enqueue(t) \/ AwaitDone(t) \/ AwaitTimeout(t)
      PROVE  UNCHANGED Log!vars
  <2>1. UNCHANGED <<Backlog, executed>>
    BY <1>8, HandlerStep DEF Backlog
  <2>2. UNCHANGED Offered
    BY <1>8 DEF Enqueue, AwaitDone, AwaitTimeout, Recording, Offered, Outcome
  <2> QED
    BY <2>1, <2>2, LogStutter
<1>9. CASE UNCHANGED vars
  BY <1>9, LogStutter DEF vars, Backlog, Offered
<1> QED
  BY <1>1, <1>2, <1>3, <1>4, <1>5, <1>6, <1>7, <1>8, <1>9
     DEF Next, Handler, WorkerStep, Log!Next

\* Channel, batches, timers and deaths together still execute the accepted
\* writes one at a time in the order of acceptance.
THEOREM QueueIsACommitLog == Spec => ImplementsCommitLog
<1>1. Init => Log!Init
  BY ConcatEmptySeq DEF Init, Log!Init, Backlog
<1> QED
  BY <1>1, Inductive, LogStep, PTL DEF Spec, ImplementsCommitLog, Log!Spec
=============================================================================
