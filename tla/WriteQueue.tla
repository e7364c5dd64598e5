------------------------------ MODULE WriteQueue ------------------------------
(***************************************************************************)
(* The background DB writer (src/go/cmd/sobs/writequeue.go): handlers      *)
(* offer write operations to a bounded channel; one worker goroutine takes *)
(* a first task, fills a batch until it is full or a timer fires, and runs *)
(* the batch one operation at a time.  Under SOBS_PARITY=1 the handler     *)
(* also awaits its task, for 15 s at most.                                 *)
(***************************************************************************)
EXTENDS Naturals, Sequences, FiniteSets

CONSTANTS
    Tasks,       \* the enqueue calls; each call makes one task
    QueueMax,    \* SOBS_WRITE_QUEUE_MAX, the channel's capacity
    BatchMax,    \* SOBS_WRITE_BATCH_MAX
    Waits        \* the calls with wait = TRUE: under SOBS_PARITY=1 all, else none

ASSUME QueueAssumption ==
    /\ QueueMax \in Nat \ {0}    \* max(1, ...) in newDefaultWriteQueue
    /\ BatchMax \in Nat \ {0}
    /\ Waits \subseteq Tasks

VARIABLES
    call,      \* call[t]: where the handler's enqueue call for t is
    ch,        \* the channel
    batch,     \* the worker's slice, tasks not yet run
    worker,    \* what the worker goroutine is doing
    err,       \* err[t]: the task's err field
    done,      \* tasks whose done channel is closed
    outcome,   \* outcome[t]: how the operation ended ("none" before it ran)
    executed,  \* history: the tasks whose operation ran, in order
    late,      \* history: the calls that gave up awaiting
    lost       \* history: the accepted tasks a process death dropped

vars == <<call, ch, batch, worker, err, done, outcome, executed, late, lost>>
history == <<executed, late, lost>>

CallState == {"new",      \* the handler has not called enqueue
              "offer",    \* in the first select, offering the task
              "wait",     \* in the second select, awaiting done
              "nil",      \* enqueue returned nil: the handler answers 200
              "error",    \* enqueue returned the operation's error
              "full",     \* enqueue returned errWriteQueueFull
              "dead"}     \* the process died under the call
Outcome == {"none", "nil", "error"}
Worker == {"recv",        \* blocked on range q.ch
           "fill",        \* filling the batch
           "run",         \* about to run the head of the batch
           "record"}      \* the operation returned; err not stored yet

Returned == {"nil", "error", "full", "dead"}
RangeOf(s) == {s[i] : i \in DOMAIN s}

\* Accepted and not yet run, oldest first.
Backlog == (IF worker = "record" THEN Tail(batch) ELSE batch) \o ch

Init ==
    /\ call = [t \in Tasks |-> "new"]
    /\ ch = <<>>
    /\ batch = <<>>
    /\ worker = "recv"
    /\ err = [t \in Tasks |-> "nil"]
    /\ done = {}
    /\ outcome = [t \in Tasks |-> "none"]
    /\ executed = <<>>
    /\ late = {}
    /\ lost = {}

-----------------------------------------------------------------------------
(* Faulty forms of actions below: bugs the properties must catch.          *)

\* The offer ignores the channel's capacity.
OfferUnbounded(t) ==
    /\ call[t] = "offer"
    /\ ch' = Append(ch, t)
    /\ call' = [call EXCEPT ![t] = IF t \in Waits THEN "wait" ELSE "nil"]
    /\ UNCHANGED <<batch, worker, err, done, outcome, history>>

\* The timeout answers 503 but leaves a sender behind.
OfferTimeoutLeavesSender(t) ==
    /\ call[t] = "offer"
    /\ Len(ch) < QueueMax
    /\ ch' = Append(ch, t)
    /\ call' = [call EXCEPT ![t] = "full"]
    /\ UNCHANGED <<batch, worker, err, done, outcome, history>>

\* enqueue does not await its task.
AwaitNothing(t) ==
    /\ call[t] = "wait"
    /\ call' = [call EXCEPT ![t] = err[t]]
    /\ UNCHANGED <<ch, batch, worker, err, done, outcome, history>>

\* The 15 s timer is missing.
AwaitWithoutTimer(t) ==
    /\ call[t] = "wait"
    /\ t \in done
    /\ call' = [call EXCEPT ![t] = err[t]]
    /\ UNCHANGED <<ch, batch, worker, err, done, outcome, history>>

\* The batch has no bound.
FillUnbounded ==
    /\ worker = "fill"
    /\ ch # <<>>
    /\ batch' = Append(batch, Head(ch))
    /\ ch' = Tail(ch)
    /\ UNCHANGED <<call, worker, err, done, outcome, history>>

\* The batch is filled at the wrong end.
FillNewestFirst ==
    /\ worker = "fill"
    /\ Len(batch) < BatchMax
    /\ ch # <<>>
    /\ batch' = <<Head(ch)>> \o batch
    /\ ch' = Tail(ch)
    /\ UNCHANGED <<call, worker, err, done, outcome, history>>

\* An operation that failed is kept for another try.
RecordRetries ==
    /\ worker = "record"
    /\ err' = [err EXCEPT ![Head(batch)] = outcome[Head(batch)]]
    /\ done' = done \cup ({Head(batch)} \cap Waits)
    /\ batch' = IF outcome[Head(batch)] = "error" THEN batch ELSE Tail(batch)
    /\ worker' = IF batch' = <<>> THEN "recv" ELSE "run"
    /\ UNCHANGED <<call, ch, outcome, history>>

\* The first error ends the batch.
RecordStopsAtError ==
    /\ worker = "record"
    /\ err' = [err EXCEPT ![Head(batch)] = outcome[Head(batch)]]
    /\ done' = done \cup ({Head(batch)} \cap Waits)
    /\ batch' = IF outcome[Head(batch)] = "error" THEN <<>> ELSE Tail(batch)
    /\ worker' = IF batch' = <<>> THEN "recv" ELSE "run"
    /\ UNCHANGED <<call, ch, outcome, history>>

\* done is closed before err is stored.
RecordClosesFirst ==
    /\ worker = "record"
    /\ done' = done \cup ({Head(batch)} \cap Waits)
    /\ batch' = Tail(batch)
    /\ worker' = IF Tail(batch) = <<>> THEN "recv" ELSE "run"
    /\ UNCHANGED <<call, ch, err, outcome, history>>

-----------------------------------------------------------------------------
(* The handler's goroutine: enqueue.                                       *)

Enqueue(t) ==
    /\ call[t] = "new"
    /\ call' = [call EXCEPT ![t] = "offer"]
    /\ UNCHANGED <<ch, batch, worker, err, done, outcome, history>>

\* case q.ch <- t
Offer(t) ==
    /\ call[t] = "offer"
    /\ Len(ch) < QueueMax
    /\ ch' = Append(ch, t)
    /\ call' = [call EXCEPT ![t] = IF t \in Waits THEN "wait" ELSE "nil"]
    /\ UNCHANGED <<batch, worker, err, done, outcome, history>>

\* case <-time.After(1s): with the channel ready as well, Go's select picks
\* either case, so the guard does not ask for a full channel.
OfferTimeout(t) ==
    /\ call[t] = "offer"
    /\ call' = [call EXCEPT ![t] = "full"]
    /\ UNCHANGED <<ch, batch, worker, err, done, outcome, history>>

\* case <-t.done: the close orders the worker's write of err before the read.
AwaitDone(t) ==
    /\ call[t] = "wait"
    /\ t \in done
    /\ call' = [call EXCEPT ![t] = err[t]]
    /\ UNCHANGED <<ch, batch, worker, err, done, outcome, history>>

Recording(t) == worker = "record" /\ Head(batch) = t

\* case <-time.After(15s), then an unsynchronised read of t.err: while the
\* worker stores it, either value may be read.
AwaitTimeout(t) ==
    /\ call[t] = "wait"
    /\ \E v \in {err[t]} \cup (IF Recording(t) THEN {outcome[t]} ELSE {}) :
           call' = [call EXCEPT ![t] = v]
    /\ late' = late \cup {t}
    /\ UNCHANGED <<ch, batch, worker, err, done, outcome, executed, lost>>

-----------------------------------------------------------------------------
(* The worker's goroutine.                                                 *)

\* for first := range q.ch: the batch starts with the task received.
Receive ==
    /\ worker = "recv"
    /\ ch # <<>>
    /\ batch' = <<Head(ch)>>
    /\ ch' = Tail(ch)
    /\ worker' = "fill"
    /\ UNCHANGED <<call, err, done, outcome, history>>

Fill ==
    /\ worker = "fill"
    /\ Len(batch) < BatchMax
    /\ ch # <<>>
    /\ batch' = Append(batch, Head(ch))
    /\ ch' = Tail(ch)
    /\ UNCHANGED <<call, worker, err, done, outcome, history>>

\* The loop's bound or the timer ends the filling; runWriteBatch starts.
EndFill ==
    /\ worker = "fill"
    /\ worker' = "run"
    /\ UNCHANGED <<call, ch, batch, err, done, outcome, history>>

\* t.op() returns: its rows are in chDB, or it reports an error.
RunOp ==
    /\ worker = "run"
    /\ \E o \in {"nil", "error"} :
           outcome' = [outcome EXCEPT ![Head(batch)] = o]
    /\ executed' = Append(executed, Head(batch))
    /\ worker' = "record"
    /\ UNCHANGED <<call, ch, batch, err, done, late, lost>>

\* t.err = ..., close(t.done), on to the next task or the next batch.
Record ==
    /\ worker = "record"
    /\ err' = [err EXCEPT ![Head(batch)] = outcome[Head(batch)]]
    /\ done' = done \cup ({Head(batch)} \cap Waits)
    /\ batch' = Tail(batch)
    /\ worker' = IF Tail(batch) = <<>> THEN "recv" ELSE "run"
    /\ UNCHANGED <<call, ch, outcome, history>>

-----------------------------------------------------------------------------
(* The process dies: an operation panics in the worker (nothing recovers   *)
(* there) or the host stops it.  newServer starts over with an empty       *)
(* queue; what reached chDB stays.                                         *)

Crash ==
    /\ \E t \in Tasks : call[t] # "new"
    /\ call' = [t \in Tasks |->
                   IF call[t] \in {"offer", "wait"} THEN "dead" ELSE call[t]]
    /\ ch' = <<>>
    /\ batch' = <<>>
    /\ worker' = "recv"
    /\ lost' = lost \cup RangeOf(Backlog)
    /\ UNCHANGED <<err, done, outcome, executed, late>>

Handler(t) ==
    Offer(t) \/ OfferTimeout(t) \/ AwaitDone(t) \/ AwaitTimeout(t)

WorkerStep == Receive \/ Fill \/ EndFill \/ RunOp \/ Record

Next ==
    \/ \E t \in Tasks : Enqueue(t) \/ Handler(t)
    \/ WorkerStep
    \/ Crash

Spec == Init /\ [][Next]_vars

\* The handlers' timers fire; nothing is assumed of the worker, whose
\* operation may be stuck in chDB.
FairSpec == Spec /\ \A t \in Tasks : WF_vars(Handler(t))

\* What AcceptedRuns asks of the worker: every operation returns.
WorkerRuns == WF_vars(WorkerStep)

-----------------------------------------------------------------------------
(* Properties.                                                             *)

\* Types, the channel's capacity and the batch's bound.
TypeOK ==
    /\ call \in [Tasks -> CallState]
    /\ ch \in Seq(Tasks) /\ Len(ch) <= QueueMax
    /\ batch \in Seq(Tasks) /\ Len(batch) <= BatchMax
    /\ worker \in Worker
    /\ (worker = "recv") <=> (batch = <<>>)
    /\ err \in [Tasks -> Outcome \ {"none"}]
    /\ done \subseteq Tasks
    /\ outcome \in [Tasks -> Outcome]
    /\ worker = "record" => outcome[Head(batch)] # "none"
    /\ executed \in Seq(Tasks)
    /\ late \subseteq Tasks
    /\ lost \subseteq Tasks

\* The single worker runs every task at most once, however offers, batches
\* and deaths interleave.
ExactlyOnce ==
    \A i, j \in DOMAIN executed : executed[i] = executed[j] => i = j

\* A handler that answers 503 has not written and never will: the client may
\* send the payload again without duplicating it.
RefusedNeverRuns ==
    \A t \in Tasks :
        call[t] = "full" => t \notin RangeOf(executed) \cup RangeOf(Backlog)

\* In parity mode a nil answer means the rows are stored, and an error that
\* they are not, for every call that did not give up after 15 s.
AckTellsOutcome ==
    \A t \in Waits \ late :
        call[t] \in {"nil", "error"} => outcome[t] = call[t]

\* Once the done channel is closed the task's err is final and is what the
\* operation returned: the close comes after the store.
DoneAfterRecord ==
    \A t \in done : outcome[t] # "none" /\ err[t] = outcome[t]

\* A process death drops at most a full channel and a full batch of writes
\* the clients were told are fine.
LossIsBounded ==
    [][Cardinality(lost' \ lost) <= QueueMax + BatchMax]_vars

\* While operations return, an accepted task runs, unless the process dies
\* with it in memory.
AcceptedRuns ==
    WorkerRuns => \A t \in Tasks :
        t \in RangeOf(Backlog) ~> t \in RangeOf(executed) \cup lost

\* No handler hangs in enqueue: a full channel or an operation stuck in chDB
\* ends in an answer.
CallReturns ==
    \A t \in Tasks : call[t] \in {"offer", "wait"} ~> call[t] \in Returned

\* The channel, the batch and the calls implement the commit log.
Log == INSTANCE CommitLog
         WITH MaxBacklog <- QueueMax + BatchMax,
              offered <- {t \in Tasks : call[t] \notin {"new", "offer"}},
              backlog <- Backlog

ImplementsCommitLog == Log!Spec

\* An accepted call runs, unless the process dies; and then as much is lost as
\* channel and batch hold, no more (worker).
AcceptedRunOrFew == AcceptedRuns /\ LossIsBounded
=============================================================================
