--------------------------- MODULE TailBrokerProofs ---------------------------
(***************************************************************************)
(* Proofs about the /tail hub, for any number of connections and events,   *)
(* any filters and any capacity of a connection's channel.                 *)
(***************************************************************************)
EXTENDS TailBroker, Integers, TLAPS

-----------------------------------------------------------------------------
(* The inductive invariant: the broadcast under way is the last that was   *)
(* published, and each connection's parts of its stream lie in the order   *)
(* of publication.                                                         *)

\* One broadcast at a time, each event once.
BroadcastOrder ==
    /\ \A m, n \in DOMAIN published : published[m] = published[n] => m = n
    /\ \A m \in DOMAIN published : event[published[m]] # "new"
    /\ mu # "free" => published # <<>> /\ mu = published[Len(published)]
    /\ mu = "free" => todo = {}

\* The last broadcast that can have reached the channel of c.
Reached(c) == IF c \in todo THEN Len(published) - 1 ELSE Len(published)

\* e was published for c, as the k-th after its subscription or later.
PublishedFor(e, k, c) ==
    \E m \in since[c] + k .. Reached(c) : m \in DOMAIN published /\ published[m] = e

\* Where a connection is, and what it can hold there.
Served(c) ==
    /\ c \in subs <=> conn[c] \in {"select", "write", "leaving"}
    /\ c \in todo => c \in subs
    /\ since[c] <= Reached(c)
    /\ conn[c] = "new" => queue[c] = <<>> /\ received[c] = <<>>
    /\ writing[c] # None => conn[c] = "write"

\* Each event in the channel has as many before it since the subscription as
\* it has before it in the channel.
Queued(c) == \A k \in DOMAIN queue[c] : PublishedFor(queue[c][k], k, c)

\* What passed the filters.
Shown(c) ==
    \A e \in RangeOf(received[c]) \cup RangeOf(InFlight(c)) :
        sseEventMatches(e, c) /\ PublishedFor(e, 1, c)

\* The stream follows the order of publication.
Before(a, b) ==
    \E m, n \in DOMAIN published : m < n /\ published[m] = a /\ published[n] = b
Ordered(s) == \A i, j \in DOMAIN s : i < j => Before(s[i], s[j])
InOrder(c) == Ordered(Stream(c))

\* An event the connection has, does not want, or lost when it was behind.
Accounted(c, i) ==
    \/ published[i] \in RangeOf(Stream(c))
    \/ ~ sseEventMatches(published[i], c)
    \/ i - since[c] > QueueMax /\ published[i] \in dropped[c]
NoneMissing(c) ==
    conn[c] \in {"select", "write"} => \A i \in since[c] + 1 .. Reached(c) : Accounted(c, i)

ConnInv(c) == Served(c) /\ Queued(c) /\ Shown(c) /\ InOrder(c) /\ NoneMissing(c)

IInv == TypeOK /\ BroadcastOrder /\ \A c \in Conns : ConnInv(c)

-----------------------------------------------------------------------------
(* Sequences and streams.                                                  *)

\* A concatenation has the elements of both.
LEMMA ConcatElements ==
  ASSUME NEW r \in Seq(Events), NEW s \in Seq(Events)
  PROVE  r \o s \in Seq(Events) /\ RangeOf(r \o s) = RangeOf(r) \cup RangeOf(s)
<1>1. /\ r \o s \in Seq(Events) /\ DOMAIN (r \o s) = 1..Len(r) + Len(s)
      /\ DOMAIN r = 1..Len(r) /\ DOMAIN s = 1..Len(s) /\ Len(r) \in Nat /\ Len(s) \in Nat
      /\ \A i \in 1..Len(r) + Len(s) :
             (r \o s)[i] = IF i <= Len(r) THEN r[i] ELSE s[i - Len(r)]
  OBVIOUS
<1>2. ASSUME NEW i \in DOMAIN s PROVE s[i] \in RangeOf(r \o s)
  <2>1. i + Len(r) \in DOMAIN (r \o s) /\ (r \o s)[i + Len(r)] = s[i]
    BY <1>1
  <2> QED
    BY <2>1 DEF RangeOf
<1>3. ASSUME NEW i \in DOMAIN r PROVE r[i] \in RangeOf(r \o s)
  <2>1. i \in DOMAIN (r \o s) /\ (r \o s)[i] = r[i]
    BY <1>1
  <2> QED
    BY <2>1 DEF RangeOf
<1>4. ASSUME NEW i \in DOMAIN (r \o s) PROVE (r \o s)[i] \in RangeOf(r) \cup RangeOf(s)
  BY <1>1 DEF RangeOf
<1> QED
  BY <1>1, <1>2, <1>3, <1>4 DEF RangeOf

\* Appending adds one.
LEMMA AppendElements ==
  ASSUME NEW r \in Seq(Events), NEW x \in Events
  PROVE  Append(r, x) \in Seq(Events) /\ RangeOf(Append(r, x)) = RangeOf(r) \cup {x}
<1>1. /\ Append(r, x) \in Seq(Events) /\ DOMAIN Append(r, x) = 1..Len(r) + 1
      /\ Append(r, x)[Len(r) + 1] = x
      /\ \A i \in DOMAIN r : Append(r, x)[i] = r[i] /\ i \in 1..Len(r) + 1
      /\ DOMAIN r = 1..Len(r) /\ Len(r) \in Nat
  OBVIOUS
<1> QED
  BY <1>1 DEF RangeOf

\* A stream is made of what was received, is being written and is queued.
LEMMA StreamParts ==
  ASSUME TypeOK, NEW c \in Conns
  PROVE  /\ received[c] \in Seq(Events) /\ InFlight(c) \in Seq(Events)
         /\ queue[c] \in Seq(Events) /\ Stream(c) \in Seq(Events)
         /\ RangeOf(Stream(c)) =
                RangeOf(received[c]) \cup RangeOf(InFlight(c)) \cup RangeOf(queue[c])
<1>1. /\ received[c] \in Seq(Events) /\ InFlight(c) \in Seq(Events)
      /\ queue[c] \in Seq(Events)
  BY DEF TypeOK, InFlight
<1> DEFINE shown == received[c] \o InFlight(c)
<1>2. shown \in Seq(Events) /\ RangeOf(shown) = RangeOf(received[c]) \cup RangeOf(InFlight(c))
  BY <1>1, ConcatElements
<1> HIDE DEF shown
<1>3. /\ shown \o queue[c] \in Seq(Events)
      /\ RangeOf(shown \o queue[c]) = RangeOf(shown) \cup RangeOf(queue[c])
  BY <1>1, <1>2, ConcatElements
<1> QED
  BY <1>1, <1>2, <1>3 DEF Stream, shown

\* Whatever a stream holds has been published for its connection.
LEMMA StreamIsPublished ==
  ASSUME TypeOK, NEW c \in Conns, ConnInv(c), NEW e \in RangeOf(Stream(c))
  PROVE  PublishedFor(e, 1, c)
<1>1. ASSUME e \in RangeOf(queue[c]) PROVE PublishedFor(e, 1, c)
  <2>1. PICK k \in DOMAIN queue[c] : queue[c][k] = e
    BY <1>1 DEF RangeOf
  <2>2. k \in Nat \ {0} /\ since[c] \in Nat
    BY StreamParts DEF TypeOK
  <2>3. PublishedFor(e, k, c)
    BY <2>1 DEF ConnInv, Queued
  <2>4. Reached(c) \in Int
    BY DEF Reached, TypeOK
  <2> QED
    BY <2>2, <2>3, <2>4 DEF PublishedFor
<1> QED
  BY <1>1, StreamParts DEF ConnInv, Shown

\* The other connections' part of the invariant.
LEMMA Untouched ==
  ASSUME NEW c \in Conns, ConnInv(c),
         UNCHANGED <<published, queue[c], conn[c], writing[c], received[c], dropped[c], since[c]>>,
         c \in subs' <=> c \in subs, c \in todo' <=> c \in todo
  PROVE  ConnInv(c)'
<1>1. InFlight(c)' = InFlight(c) /\ Stream(c)' = Stream(c) /\ Reached(c)' = Reached(c)
  BY DEF InFlight, Stream, Reached
<1>2. \A e, k : PublishedFor(e, k, c)' = PublishedFor(e, k, c)
  BY <1>1 DEF PublishedFor
<1>3. \A a, b : Before(a, b)' = Before(a, b)
  BY DEF Before
<1>4. Served(c)'
  BY <1>1 DEF ConnInv, Served
<1>5. Queued(c)'
  <2> SUFFICES ASSUME NEW k \in DOMAIN queue[c] PROVE PublishedFor(queue[c][k], k, c)'
    BY DEF Queued
  <2> QED
    BY <1>1 DEF ConnInv, Queued, PublishedFor
<1>6. Shown(c)'
  <2>1. RangeOf(received[c])' = RangeOf(received[c]) /\ RangeOf(InFlight(c))' = RangeOf(InFlight(c))
    BY <1>1 DEF RangeOf
  <2>2. \A e : sseEventMatches(e, c)' = sseEventMatches(e, c)
    BY DEF sseEventMatches
  <2>3. Shown(c)
    BY DEF ConnInv
  <2> QED
    BY <1>2, <2>1, <2>2, <2>3 DEF Shown
<1>7. InOrder(c)'
  <2> SUFFICES ASSUME NEW i \in DOMAIN Stream(c), NEW j \in DOMAIN Stream(c), i < j
               PROVE  Before(Stream(c)[i], Stream(c)[j])'
    BY <1>1 DEF InOrder, Ordered
  <2> QED
    BY <1>1 DEF ConnInv, InOrder, Ordered, Before
<1>8. NoneMissing(c)'
  <2>1. \A i : Accounted(c, i)' = Accounted(c, i)
    <3>1. RangeOf(Stream(c))' = RangeOf(Stream(c))
      BY <1>1 DEF RangeOf
    <3> QED
      BY <3>1 DEF Accounted, sseEventMatches
  <2>2. NoneMissing(c)
    BY DEF ConnInv
  <2> QED
    BY <1>1, <2>1, <2>2 DEF NoneMissing
<1> QED
  BY <1>4, <1>5, <1>6, <1>7, <1>8 DEF ConnInv

-----------------------------------------------------------------------------
(* The steps.                                                              *)

\* Types, and the capacity of the channels.
LEMMA TypeStep == TypeOK /\ [Next]_vars => TypeOK'
<1> SUFFICES ASSUME TypeOK, [Next]_vars PROVE TypeOK'
  OBVIOUS
<1> USE TailAssumption DEF TypeOK, ConnState, history
<1>1. ASSUME NEW e \in Events, Broadcast(e) PROVE TypeOK'
  BY <1>1 DEF Broadcast
<1>2. ASSUME NEW e \in Events, EndBroadcast(e) PROVE TypeOK'
  BY <1>2 DEF EndBroadcast
<1>3. ASSUME NEW e \in Events, NEW c \in Conns, Send(e, c) PROVE TypeOK'
  <2>1. queue' \in [Conns -> Seq(Events)] /\ \A d \in Conns : Len(queue'[d]) <= QueueMax
    <3>1. queue[c] \in Seq(Events) /\ \A d \in Conns : Len(queue[d]) <= QueueMax
      OBVIOUS
    <3>2. Append(queue[c], e) \in Seq(Events) /\ Len(Append(queue[c], e)) = Len(queue[c]) + 1
          /\ Len(queue[c]) \in Nat
      BY <3>1
    <3>3. CASE queue' = queue
      BY <3>1, <3>3
    <3>4. CASE Len(queue[c]) < QueueMax /\ queue' = [queue EXCEPT ![c] = Append(queue[c], e)]
      BY <3>1, <3>2, <3>4
    <3> QED
      BY <1>3, <3>3, <3>4 DEF Send
  <2>2. dropped' \in [Conns -> SUBSET Events]
    <3>1. dropped' = dropped \/ dropped' = [dropped EXCEPT ![c] = dropped[c] \cup {e}]
      BY <1>3 DEF Send
    <3>2. dropped \in [Conns -> SUBSET Events] /\ dropped[c] \cup {e} \in SUBSET Events
      OBVIOUS
    <3> HIDE DEF TypeOK
    <3> QED
      BY <3>1, <3>2
  <2> QED
    BY <1>3, <2>1, <2>2 DEF Send
<1>4. ASSUME NEW c \in Conns, Subscribe(c) PROVE TypeOK'
  BY <1>4 DEF Subscribe
<1>5. ASSUME NEW c \in Conns, Receive(c) PROVE TypeOK'
  <2>1. queue[c] \in Seq(Events) /\ queue[c] # <<>> /\ Len(queue[c]) <= QueueMax
    BY <1>5 DEF Receive
  <2>2. /\ Tail(queue[c]) \in Seq(Events) /\ Len(Tail(queue[c])) <= QueueMax
        /\ Head(queue[c]) \in Events
    BY <2>1
  <2>3. queue' = [queue EXCEPT ![c] = Tail(queue[c])]
    BY <1>5 DEF Receive
  <2>4. queue' \in [Conns -> Seq(Events)] /\ \A d \in Conns : Len(queue'[d]) <= QueueMax
    BY <2>2, <2>3
  <2>5. writing' \in [Conns -> Events \cup {None}] /\ conn' \in [Conns -> ConnState]
    <3>1. \/ UNCHANGED <<writing, conn>>
          \/ /\ writing' = [writing EXCEPT ![c] = Head(queue[c])]
             /\ conn' = [conn EXCEPT ![c] = "write"]
      BY <1>5 DEF Receive
    <3>2. writing \in [Conns -> Events \cup {None}] /\ conn \in [Conns -> ConnState]
      OBVIOUS
    <3>3. "write" \in ConnState
      OBVIOUS
    <3> HIDE DEF TypeOK, ConnState
    <3> QED
      BY <2>2, <3>1, <3>2, <3>3
  <2> QED
    BY <1>5, <2>4, <2>5 DEF Receive
<1>6. ASSUME NEW c \in Conns, Keepalive(c) \/ ContextDone(c) \/ Disconnect(c) PROVE TypeOK'
  BY <1>6 DEF Keepalive, ContextDone, Disconnect
<1>7. ASSUME NEW c \in Conns, WriteSucceeds(c) PROVE TypeOK'
  BY <1>7 DEF WriteSucceeds, None
<1>8. ASSUME NEW c \in Conns, WriteFails(c) \/ Unsubscribe(c) PROVE TypeOK'
  BY <1>8 DEF WriteFails, Unsubscribe
<1>9. CASE UNCHANGED vars
  BY <1>9 DEF vars
<1> QED
  BY <1>1, <1>2, <1>3, <1>4, <1>5, <1>6, <1>7, <1>8, <1>9 DEF Next, Publishing, Leaving

\* The mutex makes one order of the broadcasts.
LEMMA BroadcastOrderStep == IInv /\ [Next]_vars => BroadcastOrder'
<1> SUFFICES ASSUME IInv, [Next]_vars PROVE BroadcastOrder'
  OBVIOUS
<1> USE TailAssumption DEF IInv, TypeOK, BroadcastOrder
<1>1. ASSUME NEW e \in Events, Broadcast(e) PROVE BroadcastOrder'
  <2>1. /\ published \in Seq(Events) /\ published' = Append(published, e)
        /\ mu' = e /\ event[e] = "new" /\ event' = [event EXCEPT ![e] = "sending"]
    BY <1>1 DEF Broadcast
  <2>2. /\ DOMAIN published = 1..Len(published) /\ DOMAIN published' = 1..Len(published) + 1
        /\ Len(published') = Len(published) + 1 /\ published'[Len(published) + 1] = e
        /\ \A m \in DOMAIN published : published'[m] = published[m] /\ published[m] \in Events
        /\ published' # <<>> /\ Len(published) \in Nat
    BY <2>1
  <2>3. \A m \in DOMAIN published : published[m] # e
    BY <2>1
  <2> QED
    BY <2>1, <2>2, <2>3
<1>2. ASSUME NEW e \in Events, EndBroadcast(e) PROVE BroadcastOrder'
  BY <1>2 DEF EndBroadcast, history
<1>3. CASE UNCHANGED <<mu, published, event>> /\ todo' \subseteq todo
  BY <1>3
<1>4. ASSUME NEW e \in Events, NEW c \in Conns, Send(e, c)
      PROVE  UNCHANGED <<mu, published, event>> /\ todo' \subseteq todo
  BY <1>4 DEF Send
<1>5. ASSUME NEW c \in Conns,
             \/ Subscribe(c) \/ Receive(c) \/ Keepalive(c)
             \/ WriteSucceeds(c) \/ Disconnect(c) \/ Leaving(c)
      PROVE  UNCHANGED <<mu, published, event>> /\ todo' \subseteq todo
  BY <1>5 DEF Subscribe, Receive, Keepalive, WriteSucceeds, Disconnect, Leaving, WriteFails,
              ContextDone, Unsubscribe, history
<1>6. UNCHANGED vars => UNCHANGED <<mu, published, event>> /\ todo' \subseteq todo
  BY DEF vars
<1> QED
  BY <1>1, <1>2, <1>3, <1>4, <1>5, <1>6 DEF Next, Publishing

\* A broadcast begins: every registered channel is to be tried, and nothing
\* else of a connection changes.
LEMMA BroadcastStep ==
  ASSUME IInv, NEW e \in Events, Broadcast(e), NEW c \in Conns
  PROVE  ConnInv(c)'
<1>1. /\ published \in Seq(Events) /\ published' = Append(published, e)
      /\ UNCHANGED <<subs, queue, conn, writing, received, dropped, since>>
      /\ todo = {} /\ todo' = subs /\ since[c] \in Nat
  BY DEF Broadcast, IInv, TypeOK, BroadcastOrder
<1>2. /\ DOMAIN published = 1..Len(published) /\ DOMAIN published' = 1..Len(published) + 1
      /\ Len(published') = Len(published) + 1 /\ Len(published) \in Nat
      /\ \A m \in DOMAIN published : published'[m] = published[m] /\ m \in DOMAIN published'
  BY <1>1
<1>3. /\ Reached(c) = Len(published)
      /\ Reached(c)' = IF c \in subs THEN Len(published) ELSE Len(published) + 1
  BY <1>1, <1>2 DEF Reached
<1>4. InFlight(c)' = InFlight(c) /\ Stream(c)' = Stream(c)
  BY <1>1 DEF InFlight, Stream
<1>5. ASSUME NEW a, NEW k \in Nat, PublishedFor(a, k, c) PROVE PublishedFor(a, k, c)'
  BY <1>1, <1>2, <1>3, <1>5 DEF PublishedFor
<1>6. ASSUME NEW a, NEW b, Before(a, b) PROVE Before(a, b)'
  BY <1>2, <1>6 DEF Before
<1>7. Served(c)'
  BY <1>1, <1>3 DEF IInv, ConnInv, Served
<1>8. Queued(c)'
  <2> SUFFICES ASSUME NEW k \in DOMAIN queue[c] PROVE PublishedFor(queue[c][k], k, c)'
    BY <1>1 DEF Queued
  <2>1. k \in Nat /\ PublishedFor(queue[c][k], k, c)
    BY StreamParts DEF IInv, ConnInv, Queued
  <2>2. PublishedFor(queue[c][k], k, c)' =
            \E m \in since[c] + k .. Reached(c)' : m \in DOMAIN published' /\ published'[m] = queue[c][k]
    BY <1>1 DEF PublishedFor
  <2> QED
    BY <1>1, <1>2, <1>3, <2>1, <2>2 DEF PublishedFor
<1>9. Shown(c)'
  <2>1. \A a : sseEventMatches(a, c)' = sseEventMatches(a, c)
    BY DEF sseEventMatches
  <2> QED
    BY <1>1, <1>4, <1>5, <2>1 DEF IInv, ConnInv, Shown, RangeOf
<1>10. InOrder(c)'
  <2> SUFFICES ASSUME NEW i \in DOMAIN Stream(c), NEW j \in DOMAIN Stream(c), i < j
               PROVE  Before(Stream(c)[i], Stream(c)[j])'
    BY <1>4 DEF InOrder, Ordered
  <2>1. Before(Stream(c)[i], Stream(c)[j])
    BY DEF IInv, ConnInv, InOrder, Ordered
  <2> QED
    BY <1>2, <1>4, <2>1 DEF Before
<1>11. NoneMissing(c)'
  <2> SUFFICES ASSUME conn[c] \in {"select", "write"}, NEW i \in since[c] + 1 .. Reached(c)'
               PROVE  Accounted(c, i)'
    BY <1>1 DEF NoneMissing
  <2>1. c \in subs /\ i \in since[c] + 1 .. Reached(c) /\ i \in DOMAIN published
    BY <1>1, <1>2, <1>3 DEF IInv, ConnInv, Served
  <2>2. Accounted(c, i)
    BY <2>1 DEF IInv, ConnInv, NoneMissing
  <2>3. RangeOf(Stream(c))' = RangeOf(Stream(c))
    BY <1>4 DEF RangeOf
  <2> QED
    BY <1>1, <1>2, <2>1, <2>2, <2>3 DEF Accounted, sseEventMatches
<1> QED
  BY <1>7, <1>8, <1>9, <1>10, <1>11 DEF ConnInv

\* One channel is tried: it takes the event, or the connection is more than
\* a full channel behind it.
LEMMA SendStep ==
  ASSUME IInv, NEW e \in Events, NEW c \in Conns, Send(e, c)
  PROVE  ConnInv(c)'
<1> DEFINE n == Len(published)
           q == queue[c]
<1>1. /\ TypeOK /\ ConnInv(c) /\ c \in todo /\ todo' = todo \ {c}
      /\ UNCHANGED <<subs, conn, writing, published, since, received>>
      /\ since[c] \in Nat /\ QueueMax \in Nat \ {0}
  BY TailAssumption DEF Send, IInv, TypeOK
<1>2. /\ n \in Nat /\ n \in DOMAIN published /\ published[n] = e
      /\ \A m \in DOMAIN published : m \in 1..n
  BY TailAssumption DEF Send, IInv, BroadcastOrder, TypeOK
<1>3. Reached(c) = n - 1 /\ Reached(c)' = n /\ since[c] <= n - 1
  BY <1>1 DEF Reached, ConnInv, Served
<1>4. \/ queue' = queue /\ Len(q) = QueueMax /\ dropped'[c] = dropped[c] \cup {e}
      \/ queue' = [queue EXCEPT ![c] = Append(q, e)] /\ dropped' = dropped
  <2>1. dropped \in [Conns -> SUBSET Events] /\ Len(q) \in Nat /\ Len(q) <= QueueMax
    BY <1>1 DEF TypeOK
  <2> QED
    BY <1>1, <2>1 DEF Send
<1>5. q \in Seq(Events) /\ Len(q) \in Nat /\ DOMAIN q = 1..Len(q)
  BY <1>1, StreamParts
<1>6. since[c] + Len(q) <= n - 1
  <2>1. CASE Len(q) = 0
    BY <1>1, <1>2, <1>3, <2>1
  <2>2. CASE Len(q) # 0
    <3>1. PublishedFor(q[Len(q)], Len(q), c)
      BY <1>1, <1>5, <2>2 DEF ConnInv, Queued
    <3> QED
      BY <1>1, <1>2, <1>3, <1>5, <3>1 DEF PublishedFor
  <2> QED
    BY <2>1, <2>2
<1>7. ASSUME NEW a, NEW k \in Nat, PublishedFor(a, k, c) PROVE PublishedFor(a, k, c)'
  BY <1>1, <1>2, <1>3, <1>7 DEF PublishedFor
<1>8. since[c] + (Len(q) + 1) <= n
  BY <1>1, <1>2, <1>5, <1>6
<1>9. InFlight(c)' = InFlight(c)
  BY <1>1 DEF InFlight
<1>10. Served(c)'
  BY <1>1, <1>2, <1>3, <1>9 DEF ConnInv, Served
<1>11. Shown(c)'
  <2>1. \A a : sseEventMatches(a, c)' = sseEventMatches(a, c)
    BY DEF sseEventMatches
  <2> QED
    BY <1>1, <1>7, <1>9, <2>1 DEF ConnInv, Shown, RangeOf
<1>12. \A i \in since[c] + 1 .. Reached(c)' : i # n => i \in since[c] + 1 .. Reached(c)
  BY <1>1, <1>2, <1>3
<1>13. CASE queue' = queue /\ Len(q) = QueueMax /\ dropped'[c] = dropped[c] \cup {e}
  <2>1. Stream(c)' = Stream(c)
    BY <1>1, <1>9, <1>13 DEF Stream
  <2>2. Queued(c)'
    <3> SUFFICES ASSUME NEW k \in DOMAIN q PROVE PublishedFor(queue[c][k], k, c)'
      BY <1>13 DEF Queued
    <3>1. PublishedFor(q[k], k, c)
      BY <1>1 DEF ConnInv, Queued
    <3> QED
      BY <1>1, <1>2, <1>3, <1>5, <1>13, <3>1 DEF PublishedFor
  <2>3. InOrder(c)'
    <3> SUFFICES ASSUME NEW i \in DOMAIN Stream(c), NEW j \in DOMAIN Stream(c), i < j
                 PROVE  Before(Stream(c)[i], Stream(c)[j])'
      BY <2>1 DEF InOrder, Ordered
    <3> QED
      BY <1>1, <2>1 DEF ConnInv, InOrder, Ordered, Before
  <2>4. NoneMissing(c)'
    <3> SUFFICES ASSUME conn[c] \in {"select", "write"}, NEW i \in since[c] + 1 .. Reached(c)'
                 PROVE  Accounted(c, i)'
      BY <1>1 DEF NoneMissing
    <3>1. CASE i = n
      <4>1. i - since[c] > QueueMax /\ published'[i] \in dropped'[c]
        BY <1>1, <1>2, <1>5, <1>6, <1>13, <3>1
      <4> QED
        BY <1>1, <4>1 DEF Accounted
    <3>2. CASE i # n
      <4>1. Accounted(c, i)
        BY <1>1, <1>12, <3>2 DEF ConnInv, NoneMissing
      <4>2. RangeOf(Stream(c))' = RangeOf(Stream(c))
        BY <2>1 DEF RangeOf
      <4> QED
        BY <1>1, <1>13, <4>1, <4>2 DEF Accounted, sseEventMatches
    <3> QED
      BY <3>1, <3>2
  <2> QED
    BY <1>10, <1>11, <2>2, <2>3, <2>4 DEF ConnInv
<1>14. CASE queue' = [queue EXCEPT ![c] = Append(q, e)] /\ dropped' = dropped
  <2>1. queue'[c] = Append(q, e)
    BY <1>1, <1>14 DEF TypeOK
  <2>2. /\ DOMAIN queue'[c] = 1..Len(q) + 1 /\ queue'[c][Len(q) + 1] = e
        /\ \A k \in DOMAIN q : queue'[c][k] = q[k]
    BY <1>5, <2>1
  <2>3. Queued(c)'
    <3> SUFFICES ASSUME NEW k \in DOMAIN queue'[c] PROVE PublishedFor(queue[c][k], k, c)'
      BY DEF Queued
    <3>1. CASE k = Len(q) + 1
      BY <1>1, <1>2, <1>3, <1>8, <2>2, <3>1 DEF PublishedFor
    <3>2. CASE k # Len(q) + 1
      <4>1. k \in DOMAIN q /\ queue'[c][k] = q[k] /\ PublishedFor(q[k], k, c)
        BY <1>1, <1>5, <2>2, <3>2 DEF ConnInv, Queued
      <4> QED
        BY <1>1, <1>2, <1>3, <1>5, <4>1 DEF PublishedFor
    <3> QED
      BY <3>1, <3>2
  <2>4. Stream(c)' = Append(Stream(c), e)
    <3>1. received[c] \o InFlight(c) \in Seq(Events)
      BY <1>1, StreamParts, ConcatElements
    <3>2. \A s \in Seq(Events) : s \o Append(q, e) = Append(s \o q, e)
      BY <1>5
    <3> QED
      BY <1>1, <1>9, <2>1, <3>1, <3>2 DEF Stream
  <2>5. /\ Stream(c) \in Seq(Events)
        /\ DOMAIN Stream(c)' = 1..Len(Stream(c)) + 1 /\ Stream(c)'[Len(Stream(c)) + 1] = e
        /\ DOMAIN Stream(c) = 1..Len(Stream(c)) /\ Len(Stream(c)) \in Nat
        /\ \A k \in DOMAIN Stream(c) : Stream(c)'[k] = Stream(c)[k]
    BY <1>1, <2>4, StreamParts
  <2>6. InOrder(c)'
    <3> SUFFICES ASSUME NEW i \in DOMAIN Stream(c)', NEW j \in DOMAIN Stream(c)', i < j
                 PROVE  Before(Stream(c)'[i], Stream(c)'[j])
      BY <1>1 DEF InOrder, Ordered, Before
    <3>1. i \in DOMAIN Stream(c) /\ Stream(c)'[i] = Stream(c)[i]
      BY <2>5
    <3>2. CASE j = Len(Stream(c)) + 1
      <4>1. PublishedFor(Stream(c)[i], 1, c)
        BY <1>1, <3>1, StreamIsPublished DEF RangeOf
      <4>2. PICK m \in DOMAIN published : m <= n - 1 /\ published[m] = Stream(c)[i]
        BY <1>1, <1>2, <1>3, <4>1 DEF PublishedFor
      <4> QED
        BY <1>2, <2>5, <3>1, <3>2, <4>2 DEF Before
    <3>3. CASE j # Len(Stream(c)) + 1
      BY <1>1, <2>5, <3>1, <3>3 DEF ConnInv, InOrder, Ordered
    <3> QED
      BY <3>2, <3>3
  <2>7. NoneMissing(c)'
    <3> SUFFICES ASSUME conn[c] \in {"select", "write"}, NEW i \in since[c] + 1 .. Reached(c)'
                 PROVE  Accounted(c, i)'
      BY <1>1 DEF NoneMissing
    <3>0. RangeOf(Stream(c))' = RangeOf(Stream(c)) \cup {e}
      BY <2>5 DEF RangeOf
    <3>1. CASE i = n
      BY <1>1, <1>2, <3>0, <3>1 DEF Accounted
    <3>2. CASE i # n
      <4>1. Accounted(c, i)
        BY <1>1, <1>12, <3>2 DEF ConnInv, NoneMissing
      <4> QED
        BY <1>1, <1>14, <3>0, <4>1 DEF Accounted, sseEventMatches
    <3> QED
      BY <3>1, <3>2
  <2> QED
    BY <1>10, <1>11, <2>3, <2>6, <2>7 DEF ConnInv
<1> QED
  BY <1>4, <1>13, <1>14

\* How a stream's parts move into one another.
LEMMA StreamMoves ==
  ASSUME NEW r \in Seq(Events), NEW s \in Seq(Events)
  PROVE  /\ r \o <<>> = r
         /\ \A x \in Events : r \o <<x>> = Append(r, x)
         /\ s # <<>> => Append(r, Head(s)) \o Tail(s) = r \o s
<1>1. r \o <<>> = r
  OBVIOUS
<1>2. \A x \in Events : r \o <<x>> = Append(r, x)
  OBVIOUS
<1>3. s # <<>> => Append(r, Head(s)) \o Tail(s) = r \o s
  OBVIOUS
<1> QED
  BY <1>1, <1>2, <1>3

\* The events of a stream from which one was taken out are still in order.
LEMMA StillInOrder ==
  ASSUME NEW r \in Seq(Events), NEW s \in Seq(Events), NEW x \in Events,
         Ordered(Append(r, x) \o s)
  PROVE  Ordered(r \o s)
<1> DEFINE u == Append(r, x) \o s
           v == r \o s
           at(n) == IF n <= Len(r) THEN n ELSE n + 1
<1>1. /\ DOMAIN v = 1..Len(r) + Len(s) /\ Len(r) \in Nat /\ Len(s) \in Nat
      /\ \A n \in 1..Len(r) + Len(s) : v[n] = IF n <= Len(r) THEN r[n] ELSE s[n - Len(r)]
  OBVIOUS
<1>2. /\ DOMAIN u = 1..Len(r) + 1 + Len(s)
      /\ \A n \in 1..Len(r) : u[n] = r[n]
      /\ \A n \in 1..Len(s) : u[Len(r) + 1 + n] = s[n]
  <2>1. /\ Append(r, x) \in Seq(Events) /\ Len(Append(r, x)) = Len(r) + 1
        /\ \A n \in 1..Len(r) : Append(r, x)[n] = r[n]
    OBVIOUS
  <2> QED
    BY <2>1
<1>3. Ordered(u)
  OBVIOUS
<1> HIDE DEF u, v
<1>4. ASSUME NEW n \in DOMAIN v PROVE at(n) \in DOMAIN u /\ v[n] = u[at(n)]
  <2>1. CASE n <= Len(r)
    BY <1>1, <1>2, <2>1
  <2>2. CASE n > Len(r)
    <3>1. n - Len(r) \in 1..Len(s) /\ at(n) = Len(r) + 1 + (n - Len(r))
      BY <1>1, <2>2
    <3>2. v[n] = s[n - Len(r)] /\ u[Len(r) + 1 + (n - Len(r))] = s[n - Len(r)]
      BY <1>1, <1>2, <2>2, <3>1
    <3>3. at(n) \in DOMAIN u
      BY <1>1, <1>2, <2>2
    <3> QED
      BY <3>1, <3>2, <3>3
  <2> QED
    BY <1>1, <2>1, <2>2
<1>5. \A i, j \in DOMAIN v : i < j => at(i) < at(j)
  BY <1>1
<1>6. Ordered(v)
  BY <1>3, <1>4, <1>5 DEF Ordered
<1> QED
  BY <1>6 DEF v

\* What a step that publishes nothing and moves no subscription keeps.
LEMMA StillPublished ==
  ASSUME NEW c \in Conns, UNCHANGED <<published, since>>, todo' = todo
  PROVE  /\ Reached(c)' = Reached(c)
         /\ \A e, k : PublishedFor(e, k, c)' = PublishedFor(e, k, c)
         /\ \A a, b : Before(a, b)' = Before(a, b)
         /\ \A e : sseEventMatches(e, c)' = sseEventMatches(e, c)
BY DEF Reached, PublishedFor, Before, sseEventMatches

\* The connection takes an event from its channel, to write it or not.
LEMMA ReceiveStep ==
  ASSUME IInv, NEW c \in Conns, Receive(c)
  PROVE  ConnInv(c)'
<1> DEFINE q == queue[c]
           h == Head(queue[c])
           r == received[c]
<1>1. /\ TypeOK /\ ConnInv(c) /\ conn[c] = "select" /\ writing[c] = None
      /\ UNCHANGED <<subs, todo, published, since, received, dropped>>
      /\ since[c] \in Nat /\ Reached(c) \in Int
  BY DEF Receive, IInv, ConnInv, Served, history, TypeOK, Reached
<1>2. /\ q \in Seq(Events) /\ r \in Seq(Events) /\ q # <<>> /\ h \in Events /\ h # None
      /\ Tail(q) \in Seq(Events) /\ queue'[c] = Tail(q) /\ h = q[1] /\ 1 \in DOMAIN q
      /\ \A k \in DOMAIN Tail(q) : Tail(q)[k] = q[k + 1] /\ k + 1 \in DOMAIN q /\ k \in Nat
  <2>1. q \in Seq(Events) /\ r \in Seq(Events) /\ q # <<>> /\ queue'[c] = Tail(q)
    BY <1>1 DEF Receive, TypeOK
  <2>2. /\ Tail(q) \in Seq(Events) /\ h = q[1] /\ 1 \in DOMAIN q /\ h \in Events
        /\ \A k \in DOMAIN Tail(q) : Tail(q)[k] = q[k + 1] /\ k + 1 \in DOMAIN q /\ k \in Nat
    BY <2>1
  <2> QED
    BY <2>1, <2>2, TailAssumption DEF None
<1>3. /\ InFlight(c) = <<>>
      /\ Stream(c) = r \o q
      /\ Stream(c) = Append(r, h) \o Tail(q)
  <2>1. r \o <<>> = r /\ Append(r, h) \o Tail(q) = r \o q
    BY <1>2, StreamMoves
  <2> QED
    BY <1>1, <2>1 DEF Stream, InFlight
<1>4. PublishedFor(h, 1, c)
  BY <1>1, <1>2 DEF ConnInv, Queued
<1>5. Queued(c)'
  <2> SUFFICES ASSUME NEW k \in DOMAIN Tail(q) PROVE PublishedFor(queue[c][k], k, c)'
    BY <1>2 DEF Queued
  <2>1. queue'[c][k] = q[k + 1] /\ PublishedFor(q[k + 1], k + 1, c) /\ k \in Nat
    BY <1>1, <1>2 DEF ConnInv, Queued
  <2>2. PublishedFor(q[k + 1], k, c)
    BY <1>1, <2>1 DEF PublishedFor
  <2> QED
    BY <1>1, <2>1, <2>2 DEF PublishedFor, Reached
<1>6. RangeOf(<<h>>) = {h}
  BY DEF RangeOf
<1>7. CASE sseEventMatches(h, c)
  <2>1. writing'[c] = h /\ conn'[c] = "write"
    BY <1>1, <1>7 DEF Receive, TypeOK
  <2>2. InFlight(c)' = <<h>> /\ Stream(c)' = Stream(c)
    <3>1. r \o <<h>> = Append(r, h)
      BY <1>2, StreamMoves
    <3> QED
      BY <1>1, <1>2, <1>3, <2>1, <3>1 DEF InFlight, Stream
  <2>3. Served(c)'
    BY <1>1, <1>2, <2>1, StillPublished DEF ConnInv, Served
  <2>4. Shown(c)'
    BY <1>1, <1>3, <1>4, <1>6, <1>7, <2>2, StillPublished DEF ConnInv, Shown, RangeOf
  <2>5. InOrder(c)'
    BY <1>1, <2>2, StillPublished DEF ConnInv, InOrder, Ordered, Before
  <2>6. NoneMissing(c)'
    <3>1. RangeOf(Stream(c))' = RangeOf(Stream(c))
      BY <2>2 DEF RangeOf
    <3> QED
      BY <1>1, <3>1, StillPublished DEF ConnInv, NoneMissing, Accounted
  <2> QED
    BY <1>5, <2>3, <2>4, <2>5, <2>6 DEF ConnInv
<1>8. CASE ~ sseEventMatches(h, c)
  <2>1. UNCHANGED <<writing, conn>>
    BY <1>8 DEF Receive
  <2>2. InFlight(c)' = <<>> /\ Stream(c)' = r \o Tail(q)
    <3>1. r \o <<>> = r
      BY <1>2, StreamMoves
    <3> QED
      BY <1>1, <1>2, <2>1, <3>1 DEF InFlight, Stream
  <2>3. Served(c)'
    BY <1>1, <1>2, <2>1, StillPublished DEF ConnInv, Served
  <2>4. Shown(c)'
    BY <1>1, <1>3, <1>6, <2>2, StillPublished DEF ConnInv, Shown, RangeOf
  <2>5. InOrder(c)'
    <3>1. Ordered(r \o Tail(q))
      <4>1. Ordered(Append(r, h) \o Tail(q))
        BY <1>1, <1>3 DEF ConnInv, InOrder
      <4> QED
        BY <1>2, <4>1, StillInOrder
    <3>2. ASSUME NEW i \in DOMAIN (r \o Tail(q)), NEW j \in DOMAIN (r \o Tail(q)), i < j
          PROVE  Before(Stream(c)[i], Stream(c)[j])'
      <4>1. Before((r \o Tail(q))[i], (r \o Tail(q))[j])
        BY <3>1, <3>2 DEF Ordered
      <4> QED
        BY <1>1, <2>2, <4>1 DEF Before
    <3> QED
      BY <2>2, <3>2 DEF InOrder, Ordered
  <2>6. NoneMissing(c)'
    <3>1. RangeOf(Stream(c)) \subseteq RangeOf(Stream(c))' \cup {h}
      <4>1. RangeOf(Append(r, h)) = RangeOf(r) \cup {h} /\ Append(r, h) \in Seq(Events)
        BY <1>2, AppendElements
      <4>2. RangeOf(Append(r, h) \o Tail(q)) = RangeOf(Append(r, h)) \cup RangeOf(Tail(q))
        BY <1>2, <4>1, ConcatElements
      <4>3. RangeOf(r \o Tail(q)) = RangeOf(r) \cup RangeOf(Tail(q))
        BY <1>2, ConcatElements
      <4>4. RangeOf(Stream(c))' = RangeOf(r \o Tail(q))
        BY <2>2 DEF RangeOf
      <4> QED
        BY <1>3, <4>1, <4>2, <4>3, <4>4
    <3> SUFFICES ASSUME NEW i \in since[c] + 1 .. Reached(c) PROVE Accounted(c, i)'
      BY <1>1, StillPublished DEF NoneMissing
    <3>2. Accounted(c, i)
      BY <1>1 DEF ConnInv, NoneMissing
    <3> QED
      BY <1>1, <1>8, <3>1, <3>2, StillPublished DEF Accounted
  <2> QED
    BY <1>5, <2>3, <2>4, <2>5, <2>6 DEF ConnInv
<1> QED
  BY <1>7, <1>8

\* The connection's other steps.
LEMMA ConnectionStep ==
  ASSUME IInv, NEW c \in Conns,
         \/ Subscribe(c) \/ Keepalive(c) \/ WriteSucceeds(c) \/ WriteFails(c)
         \/ ContextDone(c) \/ Unsubscribe(c) \/ Disconnect(c)
  PROVE  ConnInv(c)'
<1>1. TypeOK /\ ConnInv(c) /\ since[c] \in Nat /\ Len(published) \in Nat
  BY DEF IInv, TypeOK
<1>2. CASE Subscribe(c)
  <2>1. /\ writing[c] = None /\ queue[c] = <<>> /\ received[c] = <<>>
        /\ mu = "free" /\ todo = {}
    BY <1>1, <1>2 DEF Subscribe, ConnInv, Served, IInv, BroadcastOrder
  <2>2. /\ UNCHANGED <<todo, queue, writing, published, received>>
        /\ subs' = subs \cup {c} /\ conn'[c] = "select" /\ since'[c] = Len(published)
    BY <1>1, <1>2 DEF Subscribe, TypeOK
  <2>3. InFlight(c)' = <<>> /\ Stream(c)' = <<>> /\ RangeOf(<<>>) = {} /\ DOMAIN <<>> = {}
    BY <2>1, <2>2 DEF InFlight, Stream, RangeOf
  <2>4. Reached(c)' = Len(published)
    BY <2>1, <2>2 DEF Reached
  <2>5. Served(c)'
    BY <1>1, <2>1, <2>2, <2>4 DEF Served
  <2>6. Queued(c)' /\ InOrder(c)'
    BY <2>1, <2>2, <2>3 DEF Queued, InOrder, Ordered
  <2>7. Shown(c)'
    <3>1. RangeOf(received[c])' = {} /\ RangeOf(InFlight(c))' = {}
      BY <2>1, <2>2, <2>3 DEF RangeOf
    <3> QED
      BY <3>1 DEF Shown
  <2>8. NoneMissing(c)'
    BY <1>1, <2>2, <2>4 DEF NoneMissing
  <2> QED
    BY <2>5, <2>6, <2>7, <2>8 DEF ConnInv
<1>3. CASE WriteSucceeds(c) /\ writing[c] # None
  <2> DEFINE w == writing[c]
             r == received[c]
  <2>1. /\ UNCHANGED <<subs, todo, published, since, queue, dropped>> /\ conn[c] = "write"
        /\ conn'[c] = "select" /\ writing'[c] = None /\ received'[c] = Append(r, w)
        /\ w \in Events /\ r \in Seq(Events) /\ queue[c] \in Seq(Events)
    BY <1>1, <1>3 DEF WriteSucceeds, TypeOK
  <2>2. InFlight(c) = <<w>> /\ InFlight(c)' = <<>>
    BY <1>3, <2>1 DEF InFlight
  <2>3. Stream(c)' = Stream(c)
    <3>1. r \o <<w>> = Append(r, w) /\ Append(r, w) \in Seq(Events)
      BY <2>1, StreamMoves
    <3>2. Append(r, w) \o <<>> = Append(r, w)
      BY <2>1, <3>1, StreamMoves
    <3> QED
      BY <2>1, <2>2, <3>1, <3>2 DEF Stream
  <2>4. RangeOf(received[c])' \cup RangeOf(InFlight(c))' = RangeOf(r) \cup RangeOf(InFlight(c))
    <3>0. RangeOf(Append(r, w)) = RangeOf(r) \cup {w}
      BY <2>1, AppendElements
    <3>1. RangeOf(<<w>>) = {w}
      BY DEF RangeOf
    <3>2. RangeOf(received[c])' = RangeOf(Append(r, w)) /\ RangeOf(InFlight(c))' = {}
      BY <2>1, <2>2 DEF RangeOf
    <3> QED
      BY <2>2, <3>0, <3>1, <3>2
  <2>5. Served(c)'
    BY <1>1, <2>1, StillPublished DEF ConnInv, Served
  <2>6. Queued(c)'
    BY <1>1, <2>1 DEF ConnInv, Queued, PublishedFor, Reached
  <2>7. Shown(c)'
    BY <1>1, <2>1, <2>4, StillPublished DEF ConnInv, Shown
  <2>8. InOrder(c)'
    BY <1>1, <2>1, <2>3, StillPublished DEF ConnInv, InOrder, Ordered, Before
  <2>9. NoneMissing(c)'
    <3>1. RangeOf(Stream(c))' = RangeOf(Stream(c))
      BY <2>3 DEF RangeOf
    <3> QED
      BY <1>1, <2>1, <3>1, StillPublished DEF ConnInv, NoneMissing, Accounted
  <2> QED
    BY <2>5, <2>6, <2>7, <2>8, <2>9 DEF ConnInv
<1>4. CASE WriteFails(c) /\ writing[c] # None
  <2> DEFINE w == writing[c]
             r == received[c]
  <2>1. /\ UNCHANGED <<subs, todo, published, since, queue, received>> /\ conn[c] = "write"
        /\ conn'[c] = "leaving" /\ writing'[c] = None
        /\ w \in Events /\ r \in Seq(Events) /\ queue[c] \in Seq(Events)
    BY <1>1, <1>4 DEF WriteFails, TypeOK, history
  <2>2. InFlight(c) = <<w>> /\ InFlight(c)' = <<>> /\ RangeOf(<<>>) = {}
    BY <1>4, <2>1 DEF InFlight, RangeOf
  <2>3. Stream(c) = Append(r, w) \o queue[c] /\ Stream(c)' = r \o queue[c]
    <3>1. r \o <<w>> = Append(r, w) /\ r \o <<>> = r
      BY <2>1, StreamMoves
    <3> QED
      BY <2>1, <2>2, <3>1 DEF Stream
  <2>4. Served(c)'
    BY <1>1, <2>1, StillPublished DEF ConnInv, Served
  <2>5. Queued(c)'
    BY <1>1, <2>1 DEF ConnInv, Queued, PublishedFor, Reached
  <2>6. Shown(c)'
    <3>1. RangeOf(received[c])' = RangeOf(r) /\ RangeOf(InFlight(c))' = {}
      BY <2>1, <2>2 DEF RangeOf
    <3> QED
      BY <1>1, <2>1, <3>1, StillPublished DEF ConnInv, Shown
  <2>7. InOrder(c)'
    <3>1. Ordered(r \o queue[c])
      <4>1. Ordered(Append(r, w) \o queue[c])
        BY <1>1, <2>3 DEF ConnInv, InOrder
      <4> QED
        BY <2>1, <4>1, StillInOrder
    <3>2. ASSUME NEW i \in DOMAIN (r \o queue[c]), NEW j \in DOMAIN (r \o queue[c]), i < j
          PROVE  Before(Stream(c)[i], Stream(c)[j])'
      <4>1. Before((r \o queue[c])[i], (r \o queue[c])[j])
        BY <3>1, <3>2 DEF Ordered
      <4> QED
        BY <2>1, <2>3, <4>1 DEF Before
    <3> QED
      BY <2>3, <3>2 DEF InOrder, Ordered
  <2>8. NoneMissing(c)'
    BY <2>1 DEF NoneMissing
  <2> QED
    BY <2>4, <2>5, <2>6, <2>7, <2>8 DEF ConnInv
<1>5. CASE \/ Keepalive(c) \/ ContextDone(c) \/ Unsubscribe(c) \/ Disconnect(c)
           \/ (WriteSucceeds(c) \/ WriteFails(c)) /\ writing[c] = None
  <2>1. /\ UNCHANGED <<todo, published, since, queue, received, dropped>>
        /\ writing'[c] = writing[c]
        /\ conn[c] = "select" => writing[c] = None
    BY <1>1, <1>5 DEF Keepalive, ContextDone, Unsubscribe, Disconnect, WriteSucceeds, WriteFails,
                      history, TypeOK, ConnInv, Served
  <2>2. Served(c)'
    <3>1. Reached(c)' = Reached(c)
      BY <2>1 DEF Reached
    <3>2. /\ c \in subs' <=> conn'[c] \in {"select", "write", "leaving"}
          /\ writing'[c] # None => conn'[c] = "write"
          /\ conn'[c] # "new" \/ conn[c] = "new"
          /\ todo' = {} \/ (c \in subs => c \in subs')
      BY <1>1, <1>5, <2>1
         DEF Keepalive, ContextDone, Unsubscribe, Disconnect, WriteSucceeds, WriteFails,
             ConnInv, Served, TypeOK, IInv, BroadcastOrder
    <3> QED
      BY <1>1, <2>1, <3>1, <3>2 DEF ConnInv, Served
  <2>3. InFlight(c)' = InFlight(c) /\ Stream(c)' = Stream(c)
    BY <2>1 DEF InFlight, Stream
  <2>4. Queued(c)'
    BY <1>1, <2>1 DEF ConnInv, Queued, PublishedFor, Reached
  <2>5. Shown(c)'
    BY <1>1, <2>1, <2>3, StillPublished DEF ConnInv, Shown, RangeOf
  <2>6. InOrder(c)'
    BY <1>1, <2>1, <2>3, StillPublished DEF ConnInv, InOrder, Ordered, Before
  <2>7. NoneMissing(c)'
    <3>1. RangeOf(Stream(c))' = RangeOf(Stream(c))
      BY <2>3 DEF RangeOf
    <3>2. conn'[c] \in {"select", "write"} => conn[c] \in {"select", "write"}
      BY <1>1, <1>5 DEF Keepalive, ContextDone, Unsubscribe, Disconnect, WriteSucceeds,
                        WriteFails, TypeOK
    <3> QED
      BY <1>1, <2>1, <3>1, <3>2, StillPublished DEF ConnInv, NoneMissing, Accounted
  <2> QED
    BY <2>2, <2>4, <2>5, <2>6, <2>7 DEF ConnInv
<1> QED
  BY <1>2, <1>3, <1>4, <1>5

\* No step spoils what the hub knows of any connection.
LEMMA ConnectionsStep == IInv /\ [Next]_vars => \A c \in Conns : ConnInv(c)'
<1> SUFFICES ASSUME IInv, [Next]_vars, NEW c \in Conns PROVE ConnInv(c)'
  OBVIOUS
<1>0. ConnInv(c) /\ TypeOK
  BY DEF IInv
<1>1. ASSUME NEW e \in Events, Broadcast(e) PROVE ConnInv(c)'
  BY <1>1, BroadcastStep
<1>2. ASSUME NEW e \in Events, EndBroadcast(e) PROVE ConnInv(c)'
  <2>1. UNCHANGED <<subs, todo, queue, conn, writing, published, since, received, dropped>>
    BY <1>2 DEF EndBroadcast, history
  <2> QED
    BY <1>0, <2>1, Untouched
<1>3. ASSUME NEW e \in Events, NEW d \in Conns, Send(e, d) PROVE ConnInv(c)'
  <2>1. CASE d = c
    BY <1>3, <2>1, SendStep
  <2>2. CASE d # c
    <3>1. /\ UNCHANGED <<published, queue[c], conn[c], writing[c], received[c], dropped[c],
                         since[c]>>
          /\ c \in subs' <=> c \in subs
          /\ c \in todo' <=> c \in todo
      BY <1>0, <1>3, <2>2 DEF Send, TypeOK
    <3> QED
      BY <1>0, <3>1, Untouched
  <2> QED
    BY <2>1, <2>2
<1>4. ASSUME NEW d \in Conns,
             \/ Subscribe(d) \/ Receive(d) \/ Keepalive(d) \/ WriteSucceeds(d)
             \/ WriteFails(d) \/ ContextDone(d) \/ Unsubscribe(d) \/ Disconnect(d)
      PROVE  ConnInv(c)'
  <2>1. CASE d = c
    BY <1>4, <2>1, ReceiveStep, ConnectionStep
  <2>2. CASE d # c
    <3>1. /\ UNCHANGED <<published, queue[c], conn[c], writing[c], received[c], dropped[c],
                         since[c]>>
          /\ c \in subs' <=> c \in subs
          /\ c \in todo' <=> c \in todo
      BY <1>0, <1>4, <2>2
         DEF Subscribe, Receive, Keepalive, WriteSucceeds, WriteFails, ContextDone, Unsubscribe,
             Disconnect, TypeOK, history
    <3> QED
      BY <1>0, <3>1, Untouched
  <2> QED
    BY <2>1, <2>2
<1>5. CASE UNCHANGED vars
  BY <1>0, <1>5, Untouched DEF vars
<1> QED
  BY <1>1, <1>2, <1>3, <1>4, <1>5 DEF Next, Publishing, Leaving

\* The hub without connections.
LEMMA InitIInv == Init => IInv
<1> SUFFICES ASSUME Init PROVE IInv
  OBVIOUS
<1>1. TypeOK
  BY TailAssumption DEF Init, TypeOK, ConnState
<1>2. BroadcastOrder
  BY DEF Init, BroadcastOrder
<1>3. ASSUME NEW c \in Conns PROVE ConnInv(c)
  <2>1. Stream(c) = <<>> /\ InFlight(c) = <<>> /\ RangeOf(<<>>) = {} /\ DOMAIN <<>> = {}
    BY DEF Init, Stream, InFlight, RangeOf
  <2>2. Reached(c) = 0
    BY DEF Init, Reached
  <2> QED
    BY <2>1, <2>2 DEF Init, ConnInv, Served, Queued, Shown, InOrder, Ordered, NoneMissing
<1> QED
  BY <1>1, <1>2, <1>3 DEF IInv

\* The invariant is inductive.
LEMMA Inductive == Spec => []IInv
<1>1. IInv /\ [Next]_vars => IInv'
  BY TypeStep, BroadcastOrderStep, ConnectionsStep DEF IInv
<1> QED
  BY InitIInv, <1>1, PTL DEF Spec

-----------------------------------------------------------------------------
(* The safety theorem.                                                     *)

\* Every stream is what was published since it began, as its filters ask, in
\* the order of the broadcasts, and an event is missing only where the
\* connection was more than a full channel behind.
THEOREM StreamsStayTrue == Spec => []StreamsAreTrue
<1>1. IInv => StreamsAreTrue
  <2> SUFFICES ASSUME IInv PROVE StreamsAreTrue
    OBVIOUS
  <2>0. TypeOK /\ BroadcastOrder /\ \A c \in Conns : ConnInv(c)
    BY DEF IInv
  <2>1. RegisteredWhileServed
    BY <2>0 DEF RegisteredWhileServed, ConnInv, Served
  <2>2. StreamInOrder
    BY <2>0 DEF StreamInOrder, ConnInv, InOrder, Ordered, Before
  <2>3. StreamIsAskedFor
    <3> SUFFICES ASSUME NEW c \in Conns, NEW e \in RangeOf(received[c])
                 PROVE  /\ sseEventMatches(e, c)
                        /\ \E i \in since[c] + 1 .. Len(published) : published[i] = e
      BY DEF StreamIsAskedFor
    <3>1. sseEventMatches(e, c) /\ PublishedFor(e, 1, c)
      BY <2>0 DEF ConnInv, Shown
    <3>2. Reached(c) \in Int /\ Reached(c) <= Len(published) /\ Len(published) \in Nat
          /\ since[c] \in Nat
      BY <2>0 DEF Reached, TypeOK
    <3> QED
      BY <3>1, <3>2 DEF PublishedFor
  <2>4. LossOnlyWhenBehind
    <3> SUFFICES ASSUME NEW c \in Conns, conn[c] \in {"select", "write"},
                        NEW i \in since[c] + 1 .. Len(published)
                 PROVE  \/ published[i] \in RangeOf(Stream(c)) \cup (IF mu = "free" THEN {} ELSE {mu})
                        \/ ~ sseEventMatches(published[i], c)
                        \/ i - since[c] > QueueMax /\ published[i] \in dropped[c]
      BY DEF LossOnlyWhenBehind
    <3>1. Len(published) \in Nat /\ since[c] \in Nat
      BY <2>0 DEF TypeOK
    <3>2. CASE i \in since[c] + 1 .. Reached(c)
      BY <2>0, <3>2 DEF ConnInv, NoneMissing, Accounted
    <3>3. CASE i \notin since[c] + 1 .. Reached(c)
      <4>1. c \in todo /\ i = Len(published)
        BY <3>1, <3>3 DEF Reached
      <4> QED
        BY <2>0, <4>1 DEF BroadcastOrder
    <3> QED
      BY <3>2, <3>3
  <2> QED
    BY <2>0, <2>1, <2>2, <2>3, <2>4 DEF StreamsAreTrue
<1> QED
  BY Inductive, <1>1, PTL

=============================================================================
