------------------------ MODULE SubscriptionManager ------------------------
(***************************************************************************)
(* SubscriptionManager (subscription_manager.cpp) on top of EventStore:     *)
(* threads that dispatch events to the subscriptions' bounded queues, that  *)
(* deliver them to callbacks, and that close subscriptions.                 *)
(*                                                                         *)
(* A step is a critical section of registry_mutex_, dispatch_mutex_, or the *)
(* mutex of one subscription; dispatch_mutex_ is held from the first to the *)
(* last step of dispatch.  A callback runs with no lock held, and may close *)
(* its own subscription if CallbackCloses.                                  *)
(***************************************************************************)
EXTENDS EventStore

CONSTANTS
  Threads,
  Filters,            \* what subscribers ask for
  Limits,             \* SubscriptionLimits they ask for
  MaxSubscriptions,   \* max_subscriptions_
  MaxSubscriptionId,  \* the last value of next_subscription_id_, never issued
  MarkerBytes,        \* the size of a loss marker
  DrainingBytes,      \* the size of a draining event
  CallbackCloses      \* whether callbacks close their own subscription

Filter == [types : SUBSET EventTypes, severity : 0..3,
           entity : [id : Nat, generation : Nat] \cup {None},
           metrics : SUBSET Nat, health : {"heartbeat", None}, follow : BOOLEAN]

ASSUME SubscriptionAssumption ==
  /\ Filters \subseteq Filter
  /\ Limits \subseteq [max_events : Nat \ {0}, max_bytes : Nat \ {0}]
  /\ MaxSubscriptions \in Nat \ {0} /\ MaxSubscriptionId \in Nat \ {0}
  /\ MarkerBytes \in Nat \ {0} /\ DrainingBytes \in Nat \ {0}
  /\ CallbackCloses \in BOOLEAN
  /\ IsFiniteSet(Threads) /\ None \notin Threads

VARIABLES
  catalog_active,        \* DataManager has a catalog
  subs,                  \* every Subscription that was made, by id
  subscriptions,         \* subscriptions_: the ids registered
  next_subscription_id,  \* next_subscription_id_
  last_seen,             \* last_seen_sequence_
  draining,              \* draining_
  dispatcher,            \* the holder of dispatch_mutex_
  call,                  \* what each thread is doing
  offered,               \* history: the sequences enqueue was called with
  popped,                \* history: what deliverNext took from each queue
  returned,              \* history: the ids whose close has returned
  born                   \* history: next_sequence_ when each was made

vars == <<storeVars, catalog_active, subs, subscriptions, next_subscription_id,
          last_seen, draining, dispatcher, call, offered, popped, returned, born>>

historyVars == <<offered, popped, returned, born>>

Idle == [pc |-> "idle"]

-----------------------------------------------------------------------------
(* matches *)

SameEntity(f, e) ==
  \/ f.entity = None
  \/ /\ e.entity # None
     /\ f.entity = e.entity \/ (f.follow /\ f.entity.id = e.entity.id)

Matches(f, e) ==
  /\ e.type \in f.types
  /\ e.severity >= f.severity
  /\ SameEntity(f, e)
  /\ f.metrics = {} \/ e.metric \in f.metrics
  /\ f.health = None \/ e.health = f.health

-----------------------------------------------------------------------------
(* enqueue *)

SameMetricKey(d, e) ==
  /\ d.type = "metric" /\ e.type = "metric"
  /\ d.entity = e.entity /\ d.metric = e.metric

(* What may be dropped to make room for e: an older value of the same       *)
(* metric for a metric update, anything droppable for the others.           *)
Candidate(d, e) ==
  IF e.type = "metric" THEN SameMetricKey(d, e) ELSE ~isNonDroppable(d.type)

Loss(first, last, count, sequence) ==
  [type |-> "loss", severity |-> 1, entity |-> None, metric |-> None,
   health |-> None, bytes |-> MarkerBytes, seq |-> sequence,
   first |-> first, last |-> last, count |-> count]

(* Mutant: a later drop overwrites the marker.                              *)
LossMarkerLatest(dropped, existing) ==
  IF existing = {}
  THEN Loss(Head(dropped).seq, dropped[Len(dropped)].seq, Len(dropped), Head(dropped).seq)
  ELSE LET m == CHOOSE m \in existing : TRUE
       IN  Loss(m.first, dropped[Len(dropped)].seq, Len(dropped), m.seq)

(* lossMarker over all that was dropped, starting from the marker there is. *)
LossMarker(dropped, existing) ==
  LET old == CHOOSE m \in existing : TRUE
      seqs == {dropped[i].seq : i \in 1..Len(dropped)} \cup
              UNION {{m.first, m.last} : m \in existing}
      count == Len(dropped) + IF existing = {} THEN 0 ELSE old.count
  IN  Loss(Min(seqs), Max(seqs), count,
           IF existing = {} THEN Head(dropped).seq ELSE old.seq)

(* Mutant: the bytes of the queue are not reset.                            *)
ClosedBytesKept(s) == [s EXCEPT !.pending = <<>>, !.closed = TRUE]

Closed(s) == [s EXCEPT !.pending = <<>>, !.pending_bytes = 0, !.closed = TRUE]

Markers(q) == {q[i] : i \in {i \in 1..Len(q) : q[i].type = "loss"}}

(* The candidates among the first n of a queue: these, oldest first, are    *)
(* dropped; and the queue without them.                                     *)
Chosen(q, e, n) == {q[i] : i \in {i \in 1..n : Candidate(q[i], e)}}
Only(q, e, n) == Keep(q, Chosen(q, e, n))
Without(q, e, n) == Keep(q, Range(q) \ Chosen(q, e, n))

(* exceeds_limits is false once these are dropped; a first drop needs room  *)
(* for a marker.                                                            *)
Fits(s, e, n) ==
  LET dropped == Only(s.pending, e, n)
      needs_marker == dropped # <<>> /\ Markers(s.pending) = {}
  IN  /\ Len(Without(s.pending, e, n)) + 1 + (IF needs_marker THEN 1 ELSE 0)
           <= s.limits.max_events
      /\ s.pending_bytes - Bytes(dropped) + e.bytes
           + (IF needs_marker THEN MarkerBytes ELSE 0) <= s.limits.max_bytes

(* The queue with the marker for what was dropped, in the place of the old  *)
(* marker if there is one, and what that adds to its bytes.                 *)
Marked(q, dropped) ==
  LET marker == LossMarker(dropped, Markers(q))
  IN  CASE dropped = <<>> -> q
        [] dropped # <<>> /\ Markers(q) = {} -> Append(q, marker)
        [] OTHER -> [i \in 1..Len(q) |-> IF q[i].type = "loss" THEN marker ELSE q[i]]
MarkedBytes(q, dropped) ==
  IF dropped # <<>> /\ Markers(q) = {} THEN MarkerBytes ELSE 0

Enqueued(s, e) ==
  LET enough == {n \in 0..Len(s.pending) : Fits(s, e, n)}
      dropped == Only(s.pending, e, Min(enough))
      rest == Without(s.pending, e, Min(enough))
      queue == Marked(rest, dropped)
      bytes == s.pending_bytes - Bytes(dropped) + MarkedBytes(rest, dropped)
  IN  IF s.closing \/ s.closed THEN s
      ELSE IF \/ e.bytes > s.limits.max_bytes \/ enough = {}
              \/ Len(queue) >= s.limits.max_events
              \/ bytes > s.limits.max_bytes - e.bytes
      THEN Closed(s)
      ELSE [s EXCEPT !.pending = Append(queue, e), !.pending_bytes = bytes + e.bytes]

-----------------------------------------------------------------------------
Init ==
  /\ StoreInit
  /\ catalog_active = FALSE
  /\ subs = <<>>
  /\ subscriptions = {}
  /\ next_subscription_id = 1
  /\ last_seen = 0
  /\ draining = FALSE
  /\ dispatcher = None
  /\ call = [t \in Threads |-> Idle]
  /\ offered = <<>>
  /\ popped = <<>>
  /\ returned = {}
  /\ born = <<>>

(* DataManager gets a catalog; before that it publishes no event.           *)
ActivateCatalog ==
  /\ ~catalog_active
  /\ catalog_active' = TRUE
  /\ UNCHANGED <<storeVars, subs, subscriptions, next_subscription_id, last_seen,
                 draining, dispatcher, call, historyVars>>

PublishEvent(d) ==
  /\ catalog_active
  /\ Publish(d)
  /\ UNCHANGED <<catalog_active, subs, subscriptions, next_subscription_id,
                 last_seen, draining, dispatcher, call, historyVars>>

Subscribe(f, l) ==
  /\ f.types # {}
  /\ ~draining
  /\ Cardinality(subscriptions) < MaxSubscriptions
  /\ next_subscription_id # MaxSubscriptionId
  /\ subs' = Append(subs, [filter |-> f, limits |-> l, pending |-> <<>>,
                           pending_bytes |-> 0, active |-> 0, closing |-> FALSE,
                           closed |-> FALSE])
  /\ subscriptions' = subscriptions \cup {next_subscription_id}
  /\ next_subscription_id' = next_subscription_id + 1
  /\ offered' = Append(offered, {})
  /\ popped' = Append(popped, <<>>)
  /\ born' = Append(born, next_sequence)
  /\ UNCHANGED <<storeVars, catalog_active, last_seen, draining, dispatcher, call,
                 returned>>

-----------------------------------------------------------------------------
(* dispatch *)

Step(t, c) == call' = [call EXCEPT ![t] = c]

(* dispatch takes dispatch_mutex_ and asks the store for what is new; with  *)
(* nothing new it is done.                                                  *)
DispatchSince(t) ==
  /\ call[t].pc \in {"idle", "drained"}
  /\ dispatcher = None
  /\ \/ /\ Since(last_seen) = <<>>
        /\ call[t].pc = "drained"
        /\ Step(t, Idle)
        /\ UNCHANGED dispatcher
     \/ /\ Since(last_seen) # <<>>
        /\ Step(t, [pc |-> "registry", events |-> Since(last_seen),
                    latest |-> LatestSequence])
        /\ dispatcher' = t
  /\ UNCHANGED <<storeVars, catalog_active, subs, subscriptions,
                 next_subscription_id, last_seen, draining, historyVars>>

(* The registered subscriptions are copied and last_seen_sequence_ moves    *)
(* on.  work holds the calls of enqueue that the two loops will make, each  *)
(* by the place of its event and the id of its subscription.                *)
DispatchRegistry(t) ==
  /\ call[t].pc = "registry"
  /\ Step(t, [pc |-> "enqueue", events |-> call[t].events,
              work |-> {w \in (1..Len(call[t].events)) \X subscriptions :
                          Matches(subs[w[2]].filter, call[t].events[w[1]])}])
  /\ last_seen' = call[t].latest
  /\ UNCHANGED <<storeVars, catalog_active, subs, subscriptions,
                 next_subscription_id, draining, dispatcher, historyVars>>

(* The order of the loops: by event, then by subscription.                  *)
Before(v, w) == v[1] < w[1] \/ (v[1] = w[1] /\ v[2] <= w[2])

(* One call of enqueue.                                                     *)
DispatchEnqueue(t) ==
  /\ call[t].pc = "enqueue"
  /\ \E w \in call[t].work :
       LET e == call[t].events[w[1]]
           id == w[2]
       IN  /\ \A v \in call[t].work : Before(w, v)
           /\ subs' = [subs EXCEPT ![id] = Enqueued(@, e)]
           /\ offered' = [offered EXCEPT ![id] = @ \cup {e.seq}]
           /\ Step(t, [call[t] EXCEPT !.work = @ \ {w}])
  /\ UNCHANGED <<storeVars, catalog_active, subscriptions, next_subscription_id,
                 last_seen, draining, dispatcher, popped, returned, born>>

DispatchDone(t) ==
  /\ call[t].pc = "enqueue"
  /\ call[t].work = {}
  /\ Step(t, Idle)
  /\ dispatcher' = None
  /\ UNCHANGED <<storeVars, catalog_active, subs, subscriptions,
                 next_subscription_id, last_seen, draining, historyVars>>

(* drain refuses new subscriptions, publishes the draining event and        *)
(* dispatches it; without a catalog publish refuses the event.              *)
DrainStart(t) ==
  /\ call[t].pc = "idle"
  /\ ~draining
  /\ draining' = TRUE
  /\ Step(t, [pc |-> "draining"])
  /\ UNCHANGED <<storeVars, catalog_active, subs, subscriptions,
                 next_subscription_id, last_seen, dispatcher, historyVars>>

DrainingDraft ==
  [type |-> "draining", severity |-> 1, entity |-> None, metric |-> None,
   health |-> None, bytes |-> DrainingBytes]

DrainPublish(t) ==
  /\ call[t].pc = "draining"
  /\ \/ /\ catalog_active
        /\ Publish(DrainingDraft)
        /\ Step(t, IF DrainingBytes <= MaxStoreBytes THEN [pc |-> "drained"] ELSE Idle)
     \/ /\ ~catalog_active \/ next_sequence = MaxSequence
        /\ Step(t, Idle)
        /\ UNCHANGED storeVars
  /\ UNCHANGED <<catalog_active, subs, subscriptions, next_subscription_id,
                 last_seen, draining, dispatcher, historyVars>>

-----------------------------------------------------------------------------
(* deliverNext *)

DeliverFind(t, id) ==
  /\ call[t].pc = "idle"
  /\ id \in subscriptions
  /\ Step(t, [pc |-> "found", sub |-> id])
  /\ UNCHANGED <<storeVars, catalog_active, subs, subscriptions,
                 next_subscription_id, last_seen, draining, dispatcher, historyVars>>

(* Mutant: the newest event is taken.                                       *)
NewestTaken(q) == [event |-> q[Len(q)], rest |-> SubSeq(q, 1, Len(q) - 1)]

(* The event to deliver, and what it leaves in the queue.                   *)
FrontTaken(q) == [event |-> Head(q), rest |-> Tail(q)]

Open(s) == ~s.closing /\ ~s.closed

DeliverPop(t) ==
  /\ call[t].pc = "found"
  /\ LET id == call[t].sub
         s == subs[id]
         front == FrontTaken(s.pending)
     IN  \/ /\ Open(s) /\ s.pending # <<>>
            /\ subs' = [subs EXCEPT ![id] =
                 [s EXCEPT !.pending = front.rest, !.active = @ + 1,
                           !.pending_bytes = @ - front.event.bytes]]
            /\ popped' = [popped EXCEPT ![id] = Append(@, front.event)]
            /\ Step(t, [pc |-> "popped", sub |-> id, event |-> front.event])
         \/ /\ ~Open(s) \/ s.pending = <<>>
            /\ Step(t, Idle)
            /\ UNCHANGED <<subs, popped>>
  /\ UNCHANGED <<storeVars, catalog_active, subscriptions, next_subscription_id,
                 last_seen, draining, dispatcher, offered, returned, born>>

CallbackStart(t) ==
  /\ call[t].pc = "popped"
  /\ Step(t, [call[t] EXCEPT !.pc = "callback"])
  /\ UNCHANGED <<storeVars, catalog_active, subs, subscriptions,
                 next_subscription_id, last_seen, draining, dispatcher, historyVars>>

(* Mutant: a callback that throws is not counted down.                      *)
DeliverDoneThrown(t) ==
  /\ call[t].pc = "callback"
  /\ Step(t, Idle)
  /\ UNCHANGED <<storeVars, catalog_active, subs, subscriptions,
                 next_subscription_id, last_seen, draining, dispatcher, historyVars>>

(* The callback has returned, or thrown.                                    *)
DeliverDone(t) ==
  /\ call[t].pc = "callback"
  /\ Step(t, Idle)
  /\ subs' = [subs EXCEPT ![call[t].sub].active = @ - 1]
  /\ UNCHANGED <<storeVars, catalog_active, subscriptions, next_subscription_id,
                 last_seen, draining, dispatcher, historyVars>>

-----------------------------------------------------------------------------
(* close *)

(* The caller is a thread of its own or, if CallbackCloses, a callback of   *)
(* the subscription, which goes on once close returns.                      *)
CloseErase(t, id) ==
  /\ \/ call[t].pc = "idle"
     \/ CallbackCloses /\ call[t].pc = "callback" /\ call[t].sub = id
  /\ id \in subscriptions
  /\ subscriptions' = subscriptions \ {id}
  /\ Step(t, [pc |-> "erased", sub |-> id, from |-> call[t]])
  /\ UNCHANGED <<storeVars, catalog_active, subs, next_subscription_id, last_seen,
                 draining, dispatcher, historyVars>>

CloseClear(t) ==
  /\ call[t].pc = "erased"
  /\ subs' = [subs EXCEPT ![call[t].sub].closing = TRUE,
                          ![call[t].sub].pending = <<>>,
                          ![call[t].sub].pending_bytes = 0]
  /\ Step(t, [call[t] EXCEPT !.pc = "waiting"])
  /\ UNCHANGED <<storeVars, catalog_active, subscriptions, next_subscription_id,
                 last_seen, draining, dispatcher, historyVars>>

(* Mutant: close does not wait for active deliveries.                       *)
InactiveIgnored(s) == TRUE

Inactive(s) == s.active = 0

CloseReturn(t) ==
  /\ call[t].pc = "waiting"
  /\ Inactive(subs[call[t].sub])
  /\ subs' = [subs EXCEPT ![call[t].sub].closed = TRUE]
  /\ Step(t, call[t].from)
  /\ returned' = returned \cup {call[t].sub}
  /\ UNCHANGED <<storeVars, catalog_active, subscriptions, next_subscription_id,
                 last_seen, draining, dispatcher, offered, popped, born>>

ThreadStep(t) ==
  \/ DispatchRegistry(t) \/ DispatchEnqueue(t) \/ DispatchDone(t)
  \/ DrainPublish(t)
  \/ DeliverPop(t) \/ CallbackStart(t) \/ DeliverDone(t)
  \/ CloseClear(t) \/ CloseReturn(t)

Next ==
  \/ ActivateCatalog
  \/ \E d \in Drafts : PublishEvent(d)
  \/ \E f \in Filters, l \in Limits : Subscribe(f, l)
  \/ \E t \in Threads : DispatchSince(t) \/ DrainStart(t) \/ ThreadStep(t)
  \/ \E t \in Threads, id \in 1..(MaxSubscriptionId - 1) :
       DeliverFind(t, id) \/ CloseErase(t, id)

Spec == Init /\ [][Next]_vars

(* A thread that has started an operation is scheduled until it is done,    *)
(* and callbacks return.                                                    *)
FairSpec == Spec /\ \A t \in Threads : WF_vars(ThreadStep(t))

-----------------------------------------------------------------------------
(* Properties *)

Ids == 1..Len(subs)

OpenIds == {id \in Ids : Open(subs[id])}

(* The places in a queue of events other than markers, their sequence       *)
(* numbers, and the number of events its markers stand for (only a marker   *)
(* has a count).                                                            *)
Plain(q) == {i \in 1..Len(q) : q[i].type # "loss"}
SeqNumbers(q) == {q[i].seq : i \in Plain(q)}
Counts(q) == Total([i \in 1..Len(q) |-> q[i].count])

(* What enqueue took off a queue to make room: it was offered, and the      *)
(* subscription's owner has not been given it and cannot get it any more.   *)
Dropped(id) == offered[id] \ (SeqNumbers(popped[id]) \cup SeqNumbers(subs[id].pending))

(* A slow consumer uses no more than its quota: pending stays within        *)
(* max_events and max_bytes, its bytes are accounted for, it has at most    *)
(* one loss marker, and a closed subscription holds nothing (enqueue).      *)
QuotaExact ==
  \A id \in Ids :
    LET s == subs[id]
    IN  /\ Len(s.pending) <= s.limits.max_events
        /\ s.pending_bytes = Bytes(s.pending) /\ s.pending_bytes <= s.limits.max_bytes
        /\ \A i, j \in 1..Len(s.pending) \ Plain(s.pending) : i = j
        /\ ~Open(s) => s.pending = <<>>

(* An open subscription is told of everything it lost: the loss markers     *)
(* delivered and pending count exactly the events dropped, each dropped     *)
(* event lies in the range of a marker, and none of them is the draining    *)
(* event (lossMarker, enqueue).                                             *)
LossAccounted ==
  \A id \in OpenIds :
    /\ Cardinality(Dropped(id)) = Counts(popped[id]) + Counts(subs[id].pending)
    /\ \A n \in Dropped(id) : \E m \in Range(popped[id]) \cup Range(subs[id].pending) :
         m.type = "loss" /\ n \in m.first..m.last
    /\ \A e \in published : isNonDroppable(e.type) => e.seq \notin Dropped(id)

(* Each event is taken from a queue at most once and in the order of the    *)
(* sequence numbers, markers aside (dispatch, deliverNext).                 *)
QueueInOrder ==
  \A id \in OpenIds :
    LET q == popped[id] \o subs[id].pending
    IN  \A i, j \in Plain(q) : i < j => q[i].seq < q[j].seq

(* dispatch misses nothing that the store still has: between dispatches, an *)
(* open subscription has been offered every matching event that was         *)
(* published after it was made and up to last_seen_sequence_; and nothing   *)
(* of a rediscovered entity, unless it follows rediscovery (matches).       *)
DispatchComplete ==
  /\ dispatcher = None =>
       \A id \in subscriptions \cap OpenIds, e \in Range(events) :
         born[id] <= e.seq /\ e.seq <= last_seen /\ Matches(subs[id].filter, e) =>
           e.seq \in offered[id]
  /\ \A id \in Ids, e \in published :
       /\ subs[id].filter.entity # None /\ ~subs[id].filter.follow
       /\ e.seq \in offered[id]
       => e.entity = subs[id].filter.entity

InCallback(c) ==
  \/ c.pc \in {"popped", "callback"}
  \/ c.pc \in {"erased", "waiting"} /\ c.from.pc = "callback"

Delivering(id) == {t \in Threads : InCallback(call[t]) /\ call[t].sub = id}

(* Once close has returned no callback of the subscription runs or will     *)
(* start, even for a thread that had found it before: active_deliveries is  *)
(* the number of deliveries under way, whatever callbacks throw and queues  *)
(* overflow, and close waits for them all (close, deliverNext).             *)
CloseFinal ==
  /\ \A id \in Ids : subs[id].active = Cardinality(Delivering(id))
  /\ \A id \in returned : Delivering(id) = {} /\ subs[id].closed

(* A close that has begun returns, if callbacks return.                     *)
CloseReturns ==
  \A t \in Threads : call[t].pc = "waiting" ~> call[t].pc # "waiting"

=============================================================================
