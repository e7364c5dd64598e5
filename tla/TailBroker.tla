------------------------------ MODULE TailBroker ------------------------------
(***************************************************************************)
(* The /tail live stream (src/go/cmd/sobs/handlers_tail.go): a hub with a  *)
(* mutex and a set of subscriber channels, the ingest handlers that        *)
(* broadcast through it, and the SSE connections that drain their channel. *)
(* Client I/O may stall for ever; a broadcast must not.                    *)
(***************************************************************************)
EXTENDS Naturals, Sequences, FiniteSets

CONSTANTS
    Conns,        \* GET /tail requests
    Events,       \* broadcasts; each is published once
    QueueMax,     \* SOBS_SSE_QUEUE_MAX, a subscriber channel's capacity
    Source,       \* Source[e]: the event's "source" field
    Service,      \* Service[e]: the event's "service" field
    WantSource,   \* WantSource[c]: the ?source= parameter, or "all"
    WantService   \* WantService[c]: the ?service= parameter, or ""

ASSUME TailAssumption ==
    /\ QueueMax \in Nat \ {0}
    /\ "none" \notin Events /\ "free" \notin Events

VARIABLES
    mu,         \* who holds the broker's mutex: an event being broadcast, or "free"
    subs,       \* the connections whose channel is registered
    todo,       \* channels the broadcast under way has not tried yet
    event,      \* event[e]: "new", "sending" or "done"
    queue,      \* queue[c]: the connection's channel
    conn,       \* conn[c]: where the handler is
    writing,    \* writing[c]: the event being written to the client, if any
    online,     \* connections whose client has not gone
    published,  \* history: the events in the order their broadcast began
    since,      \* history: since[c] = Len(published) when c subscribed
    received,   \* history: received[c]: events written to the client
    dropped     \* history: dropped[c]: events that found the channel full

vars == <<mu, subs, todo, event, queue, conn, writing, online, published,
          since, received, dropped>>
history == <<published, since, received, dropped>>

None == "none"
ConnState == {"new", "select", "write", "leaving", "gone"}

Init ==
    /\ mu = "free"
    /\ subs = {}
    /\ todo = {}
    /\ event = [e \in Events |-> "new"]
    /\ queue = [c \in Conns |-> <<>>]
    /\ conn = [c \in Conns |-> "new"]
    /\ writing = [c \in Conns |-> None]
    /\ online = Conns
    /\ published = <<>>
    /\ since = [c \in Conns |-> 0]
    /\ received = [c \in Conns |-> <<>>]
    /\ dropped = [c \in Conns |-> {}]

\* Exact comparison of the event's fields with the connection's filters.
sseEventMatches(e, c) ==
    /\ WantSource[c] \in {"all", Source[e]}
    /\ WantService[c] \in {"", Service[e]}

-----------------------------------------------------------------------------
(* Faulty forms of definitions below: bugs the properties must catch.      *)

\* A full channel blocks the broadcaster, which holds the mutex.
SendBlocks(e, c) ==
    /\ mu = e
    /\ c \in todo
    /\ todo' = todo \ {c}
    /\ Len(queue[c]) < QueueMax
    /\ queue' = [queue EXCEPT ![c] = Append(@, e)]
    /\ UNCHANGED <<mu, subs, event, conn, writing, online, history>>

\* A full channel makes room by forgetting its oldest event.
SendEvicts(e, c) ==
    /\ mu = e
    /\ c \in todo
    /\ todo' = todo \ {c}
    /\ queue' = [queue EXCEPT
                    ![c] = Append(IF Len(@) < QueueMax THEN @ ELSE Tail(@), e)]
    /\ UNCHANGED <<mu, subs, event, conn, writing, online, history>>

\* The channel has no capacity.
SendUnbounded(e, c) ==
    /\ mu = e
    /\ c \in todo
    /\ todo' = todo \ {c}
    /\ queue' = [queue EXCEPT ![c] = Append(@, e)]
    /\ UNCHANGED <<mu, subs, event, conn, writing, online, history>>

\* A channel that took the event is tried again.
SendRepeats(e, c) ==
    /\ mu = e
    /\ c \in todo
    /\ \/ todo' = todo \ {c}
       \/ todo' = todo
    /\ Len(queue[c]) < QueueMax
    /\ queue' = [queue EXCEPT ![c] = Append(@, e)]
    /\ UNCHANGED <<mu, subs, event, conn, writing, online, history>>

\* The filter is not asked.
ReceiveUnfiltered(c) ==
    /\ conn[c] = "select"
    /\ queue[c] # <<>>
    /\ queue' = [queue EXCEPT ![c] = Tail(@)]
    /\ writing' = [writing EXCEPT ![c] = Head(queue[c])]
    /\ conn' = [conn EXCEPT ![c] = "write"]
    /\ UNCHANGED <<mu, subs, todo, event, online, history>>

\* A failed write returns without the deferred unsubscribe.
WriteFailsLeaks(c) ==
    /\ conn[c] = "write"
    /\ c \notin online
    /\ writing' = [writing EXCEPT ![c] = None]
    /\ conn' = [conn EXCEPT ![c] = "gone"]
    /\ UNCHANGED <<mu, subs, todo, event, queue, online, history>>

\* The context is looked at only when an event arrives.
ContextDoneOnEvent(c) ==
    /\ conn[c] = "select"
    /\ c \notin online
    /\ queue[c] # <<>>
    /\ conn' = [conn EXCEPT ![c] = "leaving"]
    /\ UNCHANGED <<mu, subs, todo, event, queue, writing, online, history>>

-----------------------------------------------------------------------------
(* An ingest handler's goroutine: broadcast.                               *)

\* b.mu.Lock(), then the range over b.subs begins.
Broadcast(e) ==
    /\ event[e] = "new"
    /\ mu = "free"
    /\ mu' = e
    /\ todo' = subs
    /\ event' = [event EXCEPT ![e] = "sending"]
    /\ published' = Append(published, e)
    /\ UNCHANGED <<subs, queue, conn, writing, online, since, received, dropped>>

\* One turn of the range, in the map's arbitrary order: a non-blocking send.
Send(e, c) ==
    /\ mu = e
    /\ c \in todo
    /\ todo' = todo \ {c}
    /\ IF Len(queue[c]) < QueueMax
       THEN /\ queue' = [queue EXCEPT ![c] = Append(@, e)]
            /\ UNCHANGED dropped
       ELSE /\ dropped' = [dropped EXCEPT ![c] = @ \cup {e}]
            /\ UNCHANGED queue
    /\ UNCHANGED <<mu, subs, event, conn, writing, online, published, since, received>>

\* The deferred b.mu.Unlock().
EndBroadcast(e) ==
    /\ mu = e
    /\ todo = {}
    /\ mu' = "free"
    /\ event' = [event EXCEPT ![e] = "done"]
    /\ UNCHANGED <<subs, todo, queue, conn, writing, online, history>>

-----------------------------------------------------------------------------
(* A connection's goroutine: handleTail.                                   *)

\* The opening frame is written, then the channel is registered.
Subscribe(c) ==
    /\ conn[c] = "new"
    /\ mu = "free"
    /\ subs' = subs \cup {c}
    /\ conn' = [conn EXCEPT ![c] = "select"]
    /\ since' = [since EXCEPT ![c] = Len(published)]
    /\ UNCHANGED <<mu, todo, event, queue, writing, online, published, received, dropped>>

\* case ev := <-ch: an event the filters reject is skipped.
Receive(c) ==
    /\ conn[c] = "select"
    /\ queue[c] # <<>>
    /\ queue' = [queue EXCEPT ![c] = Tail(@)]
    /\ IF sseEventMatches(Head(queue[c]), c)
       THEN /\ writing' = [writing EXCEPT ![c] = Head(queue[c])]
            /\ conn' = [conn EXCEPT ![c] = "write"]
       ELSE UNCHANGED <<writing, conn>>
    /\ UNCHANGED <<mu, subs, todo, event, online, history>>

\* case <-ticker.C: a keepalive is written instead of an event.
Keepalive(c) ==
    /\ conn[c] = "select"
    /\ conn' = [conn EXCEPT ![c] = "write"]
    /\ UNCHANGED <<mu, subs, todo, event, queue, writing, online, history>>

WriteSucceeds(c) ==
    /\ conn[c] = "write"
    /\ conn' = [conn EXCEPT ![c] = "select"]
    /\ writing' = [writing EXCEPT ![c] = None]
    /\ received' = IF writing[c] = None THEN received
                   ELSE [received EXCEPT ![c] = Append(@, writing[c])]
    /\ UNCHANGED <<mu, subs, todo, event, queue, online, published, since, dropped>>

WriteFails(c) ==
    /\ conn[c] = "write"
    /\ c \notin online
    /\ conn' = [conn EXCEPT ![c] = "leaving"]
    /\ writing' = [writing EXCEPT ![c] = None]
    /\ UNCHANGED <<mu, subs, todo, event, queue, online, history>>

\* case <-r.Context().Done()
ContextDone(c) ==
    /\ conn[c] = "select"
    /\ c \notin online
    /\ conn' = [conn EXCEPT ![c] = "leaving"]
    /\ UNCHANGED <<mu, subs, todo, event, queue, writing, online, history>>

\* The deferred unsubscribe.
Unsubscribe(c) ==
    /\ conn[c] = "leaving"
    /\ mu = "free"
    /\ subs' = subs \ {c}
    /\ conn' = [conn EXCEPT ![c] = "gone"]
    /\ UNCHANGED <<mu, todo, event, queue, writing, online, history>>

\* The client closes the connection, whatever the handler is doing.
Disconnect(c) ==
    /\ c \in online
    /\ conn[c] # "new"
    /\ online' = online \ {c}
    /\ UNCHANGED <<mu, subs, todo, event, queue, conn, writing, history>>

-----------------------------------------------------------------------------
Publishing(e) ==
    Broadcast(e) \/ EndBroadcast(e) \/ \E c \in Conns : Send(e, c)

Leaving(c) == WriteFails(c) \/ ContextDone(c) \/ Unsubscribe(c)

Next ==
    \/ \E e \in Events : Publishing(e)
    \/ \E c \in Conns :
           \/ Subscribe(c) \/ Receive(c) \/ Keepalive(c)
           \/ WriteSucceeds(c) \/ Disconnect(c) \/ Leaving(c)

Spec == Init /\ [][Next]_vars

\* Goroutines that hold or want the mutex run; a write to a client may never
\* return while the client is connected.
PublisherSpec == Spec /\ \A e \in Events : WF_vars(Publishing(e))

\* When the client is gone its writes fail, and the select that finds the
\* context done again and again takes that case at last.
FairSpec ==
    /\ PublisherSpec
    /\ \A c \in Conns :
           /\ WF_vars(WriteFails(c) \/ ContextDone(c))
           /\ WF_vars(Unsubscribe(c))

-----------------------------------------------------------------------------
(* Properties.                                                             *)

RangeOf(s) == {s[i] : i \in DOMAIN s}

\* Types and the channels' capacity.
TypeOK ==
    /\ mu \in Events \cup {"free"}
    /\ subs \subseteq Conns
    /\ todo \subseteq Conns
    /\ event \in [Events -> {"new", "sending", "done"}]
    /\ queue \in [Conns -> Seq(Events)]
    /\ \A c \in Conns : Len(queue[c]) <= QueueMax
    /\ conn \in [Conns -> ConnState]
    /\ writing \in [Conns -> Events \cup {None}]
    /\ online \subseteq Conns
    /\ published \in Seq(Events)
    /\ since \in [Conns -> Nat]
    /\ received \in [Conns -> Seq(Events)]
    /\ dropped \in [Conns -> SUBSET Events]

\* A channel is registered exactly while its handler runs: nothing is left
\* behind for the process's lifetime when a client goes in mid-write.
RegisteredWhileServed ==
    \A c \in Conns : c \in subs <=> conn[c] \in {"select", "write", "leaving"}

\* What a connection got, is being sent and has queued.
InFlight(c) == IF writing[c] = None THEN <<>> ELSE <<writing[c]>>
Stream(c) == received[c] \o InFlight(c) \o queue[c]

\* Every client sees the events in the one order of their broadcasts, each
\* at most once, however broadcasts and slow clients interleave.
StreamInOrder ==
    \A c \in Conns : \A i, j \in DOMAIN Stream(c) :
        i < j => \E m, n \in DOMAIN published :
                     m < n /\ published[m] = Stream(c)[i]
                           /\ published[n] = Stream(c)[j]

\* A client gets only events its filters ask for that were broadcast after
\* it subscribed.
StreamIsAskedFor ==
    \A c \in Conns : \A e \in RangeOf(received[c]) :
        /\ sseEventMatches(e, c)
        /\ e \in {published[i] : i \in since[c] + 1 .. Len(published)}

\* An event is missing at a connected client only if the client had fallen
\* more than a full channel behind.
LossOnlyWhenBehind ==
    \A c \in Conns :
        conn[c] \in {"select", "write"} =>
            \A i \in since[c] + 1 .. Len(published) :
                \/ published[i] \in RangeOf(Stream(c)) \cup (IF mu = "free" THEN {} ELSE {mu})
                \/ ~ sseEventMatches(published[i], c)
                \/ i - since[c] > QueueMax /\ published[i] \in dropped[c]

\* A stream is what was published since it began, as its filters ask, in order
\* and with gaps only where its channel was full (broadcast, handleTail).
StreamsAreTrue ==
    TypeOK /\ RegisteredWhileServed /\ StreamInOrder /\ StreamIsAskedFor /\ LossOnlyWhenBehind

\* No client, slow or gone, keeps an ingest handler in broadcast.
BroadcastEnds == \A e \in Events : event[e] = "sending" ~> event[e] = "done"

\* A client that goes is unsubscribed.
LeaversAreForgotten == \A c \in Conns : c \notin online ~> c \notin subs
=============================================================================
