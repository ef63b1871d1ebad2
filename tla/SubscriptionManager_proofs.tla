--------------------- MODULE SubscriptionManager_proofs ----------------------
(***************************************************************************)
(* The event log and the subscriptions are right for any number of threads  *)
(* and subscriptions, any events and any limits.                            *)
(*                                                                         *)
(* SubscriptionInv is inductive.  StoreInv is the log; CallsInv what the    *)
(* threads are doing; DispatchInv follows events from the log through a     *)
(* dispatch: what is still to be enqueued is newer than all a subscription  *)
(* was offered; QueueOk is one subscription: what it was offered, what was  *)
(* delivered and what is pending agree.                                     *)
(***************************************************************************)
EXTENDS SubscriptionManager, TLAPS

-----------------------------------------------------------------------------
(* The log *)

Item ==
  [type : EventTypes, severity : 0..3, entity : [id : Nat, generation : Nat] \cup {None},
   metric : Nat \cup {None}, health : {"heartbeat", None}, bytes : Nat, seq : Nat,
   first : Nat, last : Nat, count : Nat]

(* Sequence numbers go up.                                                  *)
Ascending(q) == \A i, j \in 1..Len(q) : i < j => q[i].seq < q[j].seq

StoreInv ==
  /\ events \in Seq(Item) /\ published \in SUBSET Item
  /\ next_sequence \in Nat \ {0} /\ stored_bytes \in Nat
  /\ \A e \in published : e.seq < next_sequence /\ e.type # "loss" /\ e.count = 0
  /\ \A d, e \in published : d.seq = e.seq => d = e
  /\ LogExact

-----------------------------------------------------------------------------
(* One subscription: s is its record, o what it was offered, p what was     *)
(* delivered; P is what was published.                                      *)

Subscription ==
  [filter : Filter, limits : [max_events : Nat \ {0}, max_bytes : Nat \ {0}],
   pending : Seq(Item), pending_bytes : Nat, active : Int, closing : BOOLEAN,
   closed : BOOLEAN]

(* Events are those published, and were offered; a marker has its size.     *)
ItemsOk(q, o, P) ==
  \A i \in 1..Len(q) : IF q[i].type = "loss" THEN q[i].bytes = MarkerBytes
                       ELSE q[i] \in P /\ q[i].seq \in o

(* Sequence numbers go up, markers aside, in p and on into q.               *)
PlainAscending(q) == \A i, j \in Plain(q) : i < j => q[i].seq < q[j].seq
PlainAfter(p, q) == \A i \in Plain(p), j \in Plain(q) : p[i].seq < q[j].seq

OneMarker(q) == \A i, j \in 1..Len(q) \ Plain(q) : i = j

(* What was offered and is neither delivered nor pending.                   *)
Missing(o, p, q) == o \ (SeqNumbers(p) \cup SeqNumbers(q))

(* The markers of p and q tell of it.                                       *)
Told(n, p, q) ==
  \E m \in Range(p) \cup Range(q) : m.type = "loss" /\ n \in m.first..m.last

LossOk(o, p, q, P) ==
  /\ Cardinality(Missing(o, p, q)) = Counts(p) + Counts(q)
  /\ \A n \in Missing(o, p, q) :
       Told(n, p, q) /\ \E d \in P : d.seq = n /\ ~isNonDroppable(d.type)

BooksOk(s) ==
  /\ Len(s.pending) <= s.limits.max_events
  /\ s.pending_bytes = Bytes(s.pending) /\ s.pending_bytes <= s.limits.max_bytes

QueueOk(s, o, p, P) ==
  /\ s \in Subscription /\ BooksOk(s) /\ OneMarker(s.pending)
  /\ o \in SUBSET Nat /\ IsFiniteSet(o) /\ p \in Seq(Item)
  /\ ~Open(s) => s.pending = <<>>
  /\ Open(s) => /\ ItemsOk(p, o, P) /\ ItemsOk(s.pending, o, P)
                /\ PlainAscending(p) /\ PlainAscending(s.pending)
                /\ PlainAfter(p, s.pending)
                /\ LossOk(o, p, s.pending, P)

-----------------------------------------------------------------------------
(* The threads *)

(* A thread works on one of the subscriptions S, which a close that waits   *)
(* has marked; a close that a callback has called is of its own one.        *)
CallOk(c, S) ==
  /\ c.pc = "idle" => c = Idle
  /\ c.pc \in {"found", "popped", "callback", "erased", "waiting"} => c.sub \in 1..Len(S)
  /\ c.pc \in {"popped", "callback"} =>
       c = [pc |-> c.pc, sub |-> c.sub, event |-> c.event]
  /\ c.pc \in {"erased", "waiting"} =>
       /\ c = [pc |-> c.pc, sub |-> c.sub, from |-> c.from]
       /\ c.from = Idle \/ c.from = [pc |-> "callback", sub |-> c.sub, event |-> c.from.event]
  /\ c.pc = "waiting" => S[c.sub].closing
  /\ c.pc = "registry" => c.events \in Seq(Item) /\ c.latest \in Nat
  /\ c.pc = "enqueue" =>
       c.events \in Seq(Item) /\ c = [pc |-> c.pc, events |-> c.events, work |-> c.work]

CallsInv ==
  /\ call = [t \in Threads |-> call[t]] /\ \A t \in Threads : CallOk(call[t], subs)
  /\ \A t \in Threads : call[t].pc \in {"registry", "enqueue"} <=> dispatcher = t

TableInv ==
  /\ Len(offered) = Len(subs) /\ Len(popped) = Len(subs) /\ Len(born) = Len(subs)
  /\ subs \in Seq(Subscription) /\ offered \in Seq(SUBSET Nat)
  /\ popped \in Seq(Seq(Item)) /\ born \in Seq(Nat)
  /\ next_subscription_id = Len(subs) + 1
  /\ subscriptions \in SUBSET Ids /\ returned \in SUBSET Ids

-----------------------------------------------------------------------------
(* Dispatch *)

(* What dispatch has asked the log for, and what came since.                *)
CollectedOk(c) ==
  /\ last_seen <= c.latest /\ c.latest < next_sequence
  /\ Ascending(c.events)
  /\ \A i \in 1..Len(c.events) : /\ c.events[i] \in published
                                 /\ last_seen < c.events[i].seq /\ c.events[i].seq <= c.latest
  /\ \A e \in Range(events) :
       last_seen < e.seq /\ e.seq <= c.latest => e \in Range(c.events)

(* What is still to be enqueued.                                            *)
WorkOk(c) ==
  /\ Ascending(c.events)
  /\ \A i \in 1..Len(c.events) : c.events[i] \in published /\ c.events[i].seq <= last_seen
  /\ \A w \in c.work : /\ w \in (1..Len(c.events)) \X Ids
                       /\ Matches(subs[w[2]].filter, c.events[w[1]])
                       /\ \A n \in offered[w[2]] : n < c.events[w[1]].seq

(* e has been offered to the subscription or will be.                       *)
Reaches(e, id) ==
  \/ e.seq \in offered[id]
  \/ \E t \in Threads : /\ call[t].pc = "enqueue"
                        /\ \E w \in call[t].work : w[2] = id /\ call[t].events[w[1]] = e

DispatchInv ==
  /\ last_seen \in Nat /\ last_seen < next_sequence
  /\ \A t \in Threads : /\ call[t].pc = "registry" => CollectedOk(call[t])
                        /\ call[t].pc = "enqueue" => WorkOk(call[t])
  /\ \A id \in Ids : \A n \in offered[id] :
       n <= last_seen /\ \E e \in published : e.seq = n /\ Matches(subs[id].filter, e)
  /\ \A id \in subscriptions, e \in Range(events) :
       born[id] <= e.seq /\ e.seq <= last_seen /\ Matches(subs[id].filter, e) => Reaches(e, id)

QueuesInv == \A id \in Ids : QueueOk(subs[id], offered[id], popped[id], published)

SubscriptionInv ==
  StoreInv /\ TableInv /\ CallsInv /\ DispatchInv /\ QueuesInv /\ CloseFinal

-----------------------------------------------------------------------------
(* What the steps use of bytes, counts, Keep and finite sets, for queues of *)
(* items; lemmas at the end prove it.                                       *)

BytesFacts ==
  /\ Bytes(<<>>) = 0
  /\ \A q \in Seq(Item) : Bytes(q) \in Nat
  /\ \A q \in Seq(Item), x \in Item : Bytes(Append(q, x)) = Bytes(q) + x.bytes
  /\ \A q \in Seq(Item) : q # <<>> => Bytes(q) = Bytes(Tail(q)) + q[1].bytes
  /\ \A q \in Seq(Item), n \in Nat : n <= Len(q) =>
       Bytes(q) = Bytes(SubSeq(q, 1, n)) + Bytes(SubSeq(q, n + 1, Len(q)))
  /\ \A q \in Seq(Item) : \A S : Bytes(Keep(q, S)) + Bytes(Keep(q, Range(q) \ S)) = Bytes(q)
  /\ \A q, r \in Seq(Item), k \in Nat :
       k \in 1..Len(q) /\ Len(r) = Len(q) /\ (\A i \in 1..Len(q) : i # k => r[i] = q[i]) =>
         Bytes(r) + q[k].bytes = Bytes(q) + r[k].bytes

CountsFacts ==
  /\ Counts(<<>>) = 0
  /\ \A q \in Seq(Item) : Counts(q) \in Nat
  /\ \A q \in Seq(Item), x \in Item : Counts(Append(q, x)) = Counts(q) + x.count
  /\ \A q \in Seq(Item) : q # <<>> => Counts(q) = Counts(Tail(q)) + q[1].count
  /\ \A q \in Seq(Item) : \A S : Counts(Keep(q, S)) + Counts(Keep(q, Range(q) \ S)) = Counts(q)
  /\ \A q \in Seq(Item) : (\A i \in 1..Len(q) : q[i].count = 0) => Counts(q) = 0
  /\ \A q, r \in Seq(Item), k \in Nat :
       k \in 1..Len(q) /\ Len(r) = Len(q) /\ (\A i \in 1..Len(q) : i # k => r[i] = q[i]) =>
         Counts(r) + q[k].count = Counts(q) + r[k].count

(* k is q without some of its items.                                        *)
PartOf(k, q) ==
  \E a \in [1..Len(k) -> 1..Len(q)] :
    /\ \A j \in 1..Len(k) : k[j] = q[a[j]]
    /\ \A i, j \in 1..Len(k) : i < j => a[i] < a[j]

KeepFacts ==
  \A q \in Seq(Item) : \A S :
    Keep(q, S) \in Seq(Item) /\ Range(Keep(q, S)) = Range(q) \cap S /\ PartOf(Keep(q, S), q)

SetFacts ==
  /\ \A T \in SUBSET Nat : T # {} => Min(T) \in T /\ \A j \in T : Min(T) <= j
  /\ \A T \in SUBSET Nat : T # {} /\ IsFiniteSet(T) => Max(T) \in T /\ \A j \in T : j <= Max(T)
  /\ IsFiniteSet({}) /\ Cardinality({}) = 0 /\ \A x, y : IsFiniteSet({x, y})
  /\ \A A, B : IsFiniteSet(A) /\ B \subseteq A => IsFiniteSet(B) /\ Cardinality(B) \in Nat
  /\ \A A, B : IsFiniteSet(A) /\ IsFiniteSet(B) => IsFiniteSet(A \cup B)
  /\ \A A : IsFiniteSet(A) /\ Cardinality(A) = 0 => A = {}
  /\ \A A, x : IsFiniteSet(A) /\ x \notin A =>
       IsFiniteSet(A \cup {x}) /\ Cardinality(A \cup {x}) = Cardinality(A) + 1
  /\ \A A, B : IsFiniteSet(A) /\ IsFiniteSet(B) /\ A \cap B = {} =>
       Cardinality(A \cup B) = Cardinality(A) + Cardinality(B)
  /\ \A q \in Seq(Item) : (\A i, j \in 1..Len(q) : q[i].seq = q[j].seq => i = j) =>
       /\ IsFiniteSet({q[i].seq : i \in 1..Len(q)})
       /\ Cardinality({q[i].seq : i \in 1..Len(q)}) = Len(q)

(* The members of a sequence.                                               *)
LEMMA RangeItems ==
  ASSUME NEW T, NEW q \in Seq(T)
  PROVE  Range(q) = {q[i] : i \in 1..Len(q)} /\ Range(q) \subseteq T
<1>1. DOMAIN q = 1..Len(q) /\ \A i \in 1..Len(q) : q[i] \in T
  OBVIOUS
<1> QED  BY <1>1, Zenon DEF Range

-----------------------------------------------------------------------------
(* The log *)

LEMMA StoreStarts == ASSUME BytesFacts, StoreInit  PROVE StoreInv
<1>1. events = <<>> /\ next_sequence = 1 /\ stored_bytes = 0 /\ published = {}
  BY DEF StoreInit
<1>2. Bytes(<<>>) = 0
  BY DEF BytesFacts
<1>3. MaxStoreEvents \in Nat /\ MaxStoreBytes \in Nat
  BY EventStoreAssumption
<1>4. LogExact
  BY <1>1, <1>2, <1>3 DEF LogExact
<1> QED  BY <1>1, <1>4 DEF StoreInv

(* The event that publish makes.                                            *)
LEMMA EventIsItem ==
  ASSUME NEW d \in Draft, NEW n \in Nat
  PROVE  /\ Event(d, n) \in Item /\ Event(d, n).seq = n /\ Event(d, n).bytes = d.bytes
         /\ Event(d, n).type # "loss" /\ Event(d, n).count = 0 /\ d.bytes \in Nat
BY DEF Event, Draft, Item

(* The eviction stops while something is left.                              *)
LEMMA EvictedLeaves ==
  ASSUME BytesFacts, SetFacts, NEW q \in Seq(Item), NEW x \in Item, x.bytes <= MaxStoreBytes,
         NEW total, total = Bytes(Append(q, x))
  PROVE  LET all == Append(q, x)
             n == Evicted(all, total)
         IN  /\ n \in Nat /\ n <= Len(q) /\ Len(all) - n <= MaxStoreEvents
             /\ total - Bytes(SubSeq(all, 1, n)) <= MaxStoreBytes
<1> DEFINE all == Append(q, x)
           Fit(n) == /\ Len(all) - n <= MaxStoreEvents
                     /\ total - Bytes(SubSeq(all, 1, n)) <= MaxStoreBytes
           T == {n \in 0..Len(all) : Fit(n)}
           n == Evicted(all, total)
<1>1. all \in Seq(Item) /\ Len(all) = Len(q) + 1 /\ SubSeq(all, 1, Len(q)) = q /\ Len(q) \in Nat
  OBVIOUS
<1>2. Bytes(all) = Bytes(q) + x.bytes /\ Bytes(q) \in Nat /\ x.bytes \in Nat
  <2>1. x.bytes \in Nat
    BY DEF Item
  <2> QED  BY <2>1, Zenon DEF BytesFacts
<1>3. MaxStoreEvents \in Nat \ {0} /\ MaxStoreBytes \in Nat \ {0}
  BY EventStoreAssumption
<1>4. Len(q) \in T
  <2>1. Len(all) - Len(q) = 1 /\ Len(q) \in 0..Len(all)
    BY <1>1
  <2>2. total - Bytes(q) = x.bytes
    BY <1>2
  <2>3. Bytes(SubSeq(all, 1, Len(q))) = Bytes(q)
    BY <1>1, Zenon
  <2>4. total - Bytes(SubSeq(all, 1, Len(q))) <= MaxStoreBytes
    BY <2>2, <2>3, Zenon
  <2>5. 1 <= MaxStoreEvents
    BY <1>3
  <2> QED  BY <2>1, <2>4, <2>5, Zenon
<1>5. Min(T) \in T /\ \A j \in T : Min(T) <= j
  <2>1. T \in SUBSET Nat /\ T # {}
    BY <1>4
  <2> HIDE DEF T
  <2> QED  BY <2>1, Zenon DEF SetFacts
<1>6. Fit(Min(T)) /\ Min(T) \in 0..Len(all) /\ \A k \in 0..(Min(T) - 1) : ~Fit(k)
  <2>1. \A k \in 0..(Min(T) - 1) : k \in 0..Len(all) /\ ~(Min(T) <= k)
    BY <1>1, <1>5
  <2> QED  BY <1>5, <2>1, Zenon
<1> HIDE DEF T
<1>7. n \in 0..Len(all) /\ Fit(n) /\ \A k \in 0..(n - 1) : ~Fit(k)
  BY <1>6, Zenon DEF Evicted
<1>8. n # Len(all)
  <2>1. SUFFICES ASSUME n = Len(all)  PROVE FALSE
    OBVIOUS
  <2>2. Len(q) \in 0..(n - 1)
    BY <1>1, <2>1
  <2> QED  BY <1>4, <1>7, <2>2, Zenon DEF T
<1> HIDE DEF n
<1>9. n \in Nat /\ n <= Len(q)
  BY <1>1, <1>7, <1>8
<1> QED  BY <1>7, <1>9 DEF n

(* What publish does to the log: it stays right, and only the event         *)
(* published is new in it.                                                  *)
Grows ==
  /\ published \subseteq published' /\ next_sequence \in Nat /\ next_sequence' \in Nat
  /\ next_sequence <= next_sequence'
  /\ \A e \in Range(events') : e \in Range(events) \/ e.seq = next_sequence

LEMMA PublishKeepsStore ==
  ASSUME BytesFacts, SetFacts, StoreInv, NEW d \in Draft, Publish(d)
  PROVE  StoreInv' /\ Grows
<1> DEFINE e == Event(d, next_sequence)
           all == Append(events, e)
           n == Evicted(all, stored_bytes + d.bytes)
<1>1. next_sequence \in Nat \ {0} /\ stored_bytes \in Nat /\ next_sequence' = next_sequence + 1
  BY DEF StoreInv, Publish
<1>2. /\ e \in Item /\ e.seq = next_sequence /\ e.bytes = d.bytes /\ e.type # "loss"
      /\ e.count = 0 /\ d.bytes \in Nat
  BY <1>1, EventIsItem
<1>3. events \in Seq(Item) /\ published \in SUBSET Item
  BY DEF StoreInv
<1>4. CASE d.bytes > MaxStoreBytes
  <2>1. UNCHANGED <<events, stored_bytes, published>>
    <3>1. MaxStoreBytes \in Nat
      BY EventStoreAssumption
    <3> QED  BY <1>2, <1>4, <3>1 DEF Publish
  <2>2. LogExact'
    BY <2>1 DEF StoreInv, LogExact
  <2>3. \A x \in published : x.seq < next_sequence'
    <3>1. \A x \in published : x.seq < next_sequence /\ x.seq \in Nat
      BY <1>3 DEF StoreInv, Item
    <3> QED  BY <1>1, <3>1
  <2>4. StoreInv'
    BY <1>1, <2>1, <2>2, <2>3 DEF StoreInv
  <2> QED  BY <1>1, <2>1, <2>4 DEF Grows
<1>5. CASE d.bytes <= MaxStoreBytes
  <2>1. /\ events' = SubSeq(all, n + 1, Len(all)) /\ published' = published \cup {e}
        /\ stored_bytes' = stored_bytes + d.bytes - Bytes(SubSeq(all, 1, n))
    <3>1. MaxStoreBytes \in Nat
      BY EventStoreAssumption
    <3>2. ~(d.bytes > MaxStoreBytes)
      BY <1>2, <1>5, <3>1
    <3> QED  BY <3>2, Zenon DEF Publish
  <2>2. all \in Seq(Item) /\ Len(all) = Len(events) + 1 /\ all[Len(all)] = e /\ Len(events) \in Nat
        /\ \A i \in 1..Len(events) : all[i] = events[i] /\ events[i] \in Item
    BY <1>2, <1>3
  <2> HIDE DEF e, all
  <2>3. stored_bytes + d.bytes = Bytes(all)
    BY <1>2, <1>3 DEF all, BytesFacts, StoreInv, LogExact
  <2>4. /\ n \in Nat /\ n <= Len(events) /\ Len(all) - n <= MaxStoreEvents
        /\ Bytes(all) - Bytes(SubSeq(all, 1, n)) <= MaxStoreBytes
    BY <1>2, <1>3, <1>5, <2>3, EvictedLeaves DEF all
  <2> HIDE DEF n
  <2>5. PICK r : r = SubSeq(all, n + 1, Len(all))
    BY Zenon
  <2>6. /\ r \in Seq(Item) /\ Len(r) = Len(all) - n
        /\ \A i \in 1..Len(r) : r[i] = all[n + i]
    BY <2>2, <2>4, <2>5
  <2>7. /\ Bytes(r) = stored_bytes' /\ stored_bytes' \in Nat /\ stored_bytes' <= MaxStoreBytes
    <3>1. n <= Len(all)
      BY <2>2, <2>4
    <3>2. Bytes(all) = Bytes(SubSeq(all, 1, n)) + Bytes(r)
      BY <2>2, <2>4, <2>5, <3>1 DEF BytesFacts
    <3>3. SubSeq(all, 1, n) \in Seq(Item)
      BY <2>2, <2>4
    <3>4. Bytes(SubSeq(all, 1, n)) \in Nat /\ Bytes(r) \in Nat
      BY <2>6, <3>3, Zenon DEF BytesFacts
    <3>5. PICK a, b : a = Bytes(SubSeq(all, 1, n)) /\ b = Bytes(all)
      BY Zenon
    <3>6. stored_bytes' = stored_bytes + (d.bytes - a) /\ stored_bytes + d.bytes = b
      BY <2>1, <2>3, <3>5, Zenon
    <3>7. b = a + Bytes(r) /\ a \in Nat /\ b - a <= MaxStoreBytes
      BY <2>4, <3>2, <3>4, <3>5, Zenon
    <3> QED  BY <1>1, <1>2, <3>4, <3>6, <3>7
  <2>8. \A x \in published :
          x.seq < next_sequence /\ x.seq \in Nat /\ x.type # "loss" /\ x.count = 0
    BY <1>3 DEF StoreInv, Item
  <2>9. /\ \A i \in 1..Len(events) : events[i] \in published
        /\ \A i, j \in 1..Len(events) : i < j => events[i].seq < events[j].seq
        /\ \A x \in published \ Range(events) : \A i \in 1..Len(events) : x.seq < events[i].seq
    BY DEF StoreInv, LogExact
  <2>10. \A i, j \in 1..Len(all) : i < j => all[i].seq < all[j].seq
    <3>1. ASSUME NEW i \in 1..Len(all), NEW j \in 1..Len(all), i < j
          PROVE  all[i].seq < all[j].seq
      <4>1. i \in 1..Len(events) /\ (j \in 1..Len(events) \/ j = Len(all))
        BY <2>2, <3>1
      <4>2. CASE j \in 1..Len(events)
        BY <2>2, <2>9, <3>1, <4>1, <4>2, Zenon
      <4>3. CASE j = Len(all)
        BY <1>2, <2>2, <2>8, <2>9, <4>1, <4>3, Zenon
      <4> QED  BY <4>1, <4>2, <4>3
    <3> QED  BY <3>1, Zenon
  <2>11. \A i \in 1..Len(all) : all[i] \in published \cup {e} /\ all[i].seq \in Nat
    <3>1. \A i \in 1..Len(all) : i \in 1..Len(events) \/ i = Len(all)
      BY <2>2
    <3> QED  BY <1>1, <1>2, <2>2, <2>8, <2>9, <3>1, Zenon
  <2>12. \A i \in 1..Len(r) : n + i \in 1..Len(all) /\ r[i] = all[n + i]
    BY <2>2, <2>4, <2>6
  <2>13. \A i, j \in 1..Len(r) : i < j => r[i].seq < r[j].seq
    <3>1. \A i, j \in 1..Len(r) : i < j => n + i < n + j
      BY <2>2, <2>4, <2>6
    <3> QED  BY <2>10, <2>12, <3>1, Zenon
  <2>14. \A i \in 1..Len(r) : r[i] \in published \cup {e}
    BY <2>11, <2>12, Zenon
  <2>15. Range(r) = {r[i] : i \in 1..Len(r)} /\ Range(events) = {events[i] : i \in 1..Len(events)}
    BY <1>3, <2>6, RangeItems, Zenon
  <2>16. e \in Range(r)
    <3>1. Len(r) \in 1..Len(r) /\ r[Len(r)] = e
      BY <2>2, <2>4, <2>6, SMTT(30)
    <3> QED  BY <2>15, <3>1, Zenon
  <2>17. ASSUME NEW x \in (published \cup {e}) \ Range(r), NEW i \in 1..Len(r)
         PROVE  x.seq < r[i].seq
    <3>1. x \in published
      BY <2>16, <2>17, Zenon
    <3>2. CASE x \notin Range(events)
      <4>1. n + i \in 1..Len(events) \/ n + i = Len(all)
        BY <2>2, <2>12, <2>17
      <4>2. \A k \in 1..Len(events) : x.seq < events[k].seq
        BY <2>9, <3>1, <3>2, Zenon
      <4>3. x.seq < e.seq
        BY <1>2, <2>8, <3>1, Zenon
      <4>4. r[i] = all[n + i]
        BY <2>12, <2>17, Zenon
      <4> QED  BY <2>2, <4>1, <4>2, <4>3, <4>4, Zenon
    <3>3. CASE x \in Range(events)
      <4>1. PICK j \in 1..Len(events) : x = events[j]
        BY <2>15, <3>3, Zenon
      <4>2. j \in 1..Len(all) /\ x = all[j]
        BY <2>2, <4>1
      <4>3. ~(n < j)
        <5>1. SUFFICES ASSUME n < j  PROVE FALSE
          OBVIOUS
        <5>2. j - n \in 1..Len(r) /\ n + (j - n) = j
          BY <2>2, <2>4, <2>6, <4>2, <5>1
        <5>3. x = r[j - n]
          BY <2>6, <4>2, <5>2
        <5> QED  BY <2>15, <2>17, <5>2, <5>3, Zenon
      <4>4. j < n + i
        BY <2>4, <2>6, <2>17, <4>1, <4>3
      <4> QED  BY <2>10, <2>12, <2>17, <4>2, <4>4, Zenon
    <3> QED  BY <3>2, <3>3
  <2>18. r # <<>>
    BY <2>2, <2>4, <2>6
  <2>19. r = events' /\ Len(r) <= MaxStoreEvents
    BY <2>1, <2>4, <2>5, <2>6
  <2>20. LogExact'
    BY <2>1, <2>7, <2>13, <2>14, <2>17, <2>18, <2>19, Zenon DEF LogExact
  <2>21. \A x \in published' : x.seq < next_sequence' /\ x.type # "loss" /\ x.count = 0
    BY <1>1, <1>2, <2>1, <2>8
  <2>22. \A x, y \in published' : x.seq = y.seq => x = y
    <3>1. \A x \in published : x.seq # e.seq
      BY <1>1, <1>2, <2>8
    <3>2. \A x, y \in published : x.seq = y.seq => x = y
      BY DEF StoreInv
    <3> QED  BY <2>1, <3>1, <3>2, Zenon
  <2>23. published' \in SUBSET Item /\ next_sequence' \in Nat \ {0} /\ events' \in Seq(Item)
    BY <1>1, <1>2, <1>3, <2>1, <2>6, <2>19
  <2>24. StoreInv'
    BY <2>7, <2>20, <2>21, <2>22, <2>23, Zenon DEF StoreInv
  <2>25. \A x \in Range(r) : x \in Range(events) \/ x.seq = next_sequence
    <3>1. ASSUME NEW i \in 1..Len(r)  PROVE r[i] \in Range(events) \/ r[i].seq = next_sequence
      <4>1. n + i \in 1..Len(events) \/ n + i = Len(all)
        BY <2>2, <2>12, <3>1, SMTT(30)
      <4>2. r[i] = all[n + i]
        BY <2>12, <3>1, Zenon
      <4>3. CASE n + i = Len(all)
        BY <1>2, <2>2, <4>2, <4>3, Zenon
      <4>4. CASE n + i \in 1..Len(events)
        BY <2>2, <2>15, <4>2, <4>4, Zenon
      <4> QED  BY <4>1, <4>3, <4>4
    <3> QED  BY <2>15, <3>1, Zenon
  <2>26. published \subseteq published' /\ next_sequence <= next_sequence'
    BY <1>1, <2>1
  <2> QED  BY <1>1, <2>19, <2>23, <2>24, <2>25, <2>26, Zenon DEF Grows
<1> QED
  <2>1. d.bytes > MaxStoreBytes \/ d.bytes <= MaxStoreBytes
    BY DEF Publish
  <2> QED  BY <1>4, <1>5, <2>1

-----------------------------------------------------------------------------
(* One queue *)

LEMMA ItemParts ==
  ASSUME NEW x \in Item
  PROVE  x.seq \in Nat /\ x.bytes \in Nat /\ x.count \in Nat /\ x.first \in Nat /\ x.last \in Nat
BY DEF Item

(* Markers, sequence numbers and ItemsOk are about the members of a queue.  *)
Fine(x, o, P) == IF x.type = "loss" THEN x.bytes = MarkerBytes ELSE x \in P /\ x.seq \in o

LEMMA QueueMembers ==
  ASSUME NEW q \in Seq(Item)
  PROVE  /\ \A x : x \in Range(q) <=> \E i \in 1..Len(q) : q[i] = x
         /\ \A n : n \in SeqNumbers(q) <=> \E x \in Range(q) : x.type # "loss" /\ x.seq = n
         /\ \A x : x \in Markers(q) <=> x \in Range(q) /\ x.type = "loss"
         /\ \A o, P : ItemsOk(q, o, P) <=> \A x \in Range(q) : Fine(x, o, P)
<1>1. Range(q) = {q[i] : i \in 1..Len(q)}
  BY RangeItems, Zenon
<1>2. \A x : x \in Range(q) <=> \E i \in 1..Len(q) : q[i] = x
  BY <1>1, Zenon
<1>3. \A n : n \in SeqNumbers(q) <=> \E i \in 1..Len(q) : q[i].type # "loss" /\ q[i].seq = n
  BY Zenon DEF SeqNumbers, Plain
<1>4. \A n : n \in SeqNumbers(q) <=> \E x \in Range(q) : x.type # "loss" /\ x.seq = n
  BY <1>2, <1>3, Zenon
<1>5. \A x : x \in Markers(q) <=> \E i \in 1..Len(q) : q[i].type = "loss" /\ q[i] = x
  BY Zenon DEF Markers
<1>6. \A x : x \in Markers(q) <=> x \in Range(q) /\ x.type = "loss"
  BY <1>2, <1>5, Zenon
<1>7. \A o, P : ItemsOk(q, o, P) <=> \A i \in 1..Len(q) : Fine(q[i], o, P)
  BY Zenon DEF ItemsOk, Fine
<1>8. \A o, P : ItemsOk(q, o, P) <=> \A x \in Range(q) : Fine(x, o, P)
  BY <1>2, <1>7, Zenon
<1> QED  BY <1>2, <1>4, <1>6, <1>8, Zenon

(* A part of a queue is in the order of the queue.                          *)
LEMMA PartOrdered ==
  ASSUME NEW k \in Seq(Item), NEW q \in Seq(Item), PartOf(k, q), PlainAscending(q), OneMarker(q)
  PROVE  PlainAscending(k) /\ OneMarker(k)
<1>1. PICK a \in [1..Len(k) -> 1..Len(q)] :
        /\ \A j \in 1..Len(k) : k[j] = q[a[j]]
        /\ \A i, j \in 1..Len(k) : i < j => a[i] < a[j]
  BY Zenon DEF PartOf
<1>2. \A j \in 1..Len(k) : a[j] \in 1..Len(q) /\ k[j] = q[a[j]]
  BY <1>1, Zenon
<1>3. ASSUME NEW i \in Plain(k), NEW j \in Plain(k), i < j  PROVE k[i].seq < k[j].seq
  <2>1. i \in 1..Len(k) /\ j \in 1..Len(k) /\ a[i] < a[j]
    BY <1>1, <1>3, Zenon DEF Plain
  <2>2. a[i] \in Plain(q) /\ a[j] \in Plain(q)
    BY <1>2, <1>3, Zenon DEF Plain
  <2>3. q[a[i]].seq < q[a[j]].seq
    BY <2>1, <2>2, Zenon DEF PlainAscending
  <2> QED  BY <1>2, <2>1, <2>3, Zenon
<1>4. ASSUME NEW i \in 1..Len(k) \ Plain(k), NEW j \in 1..Len(k) \ Plain(k)  PROVE i = j
  <2>1. a[i] = a[j]
    BY <1>2, <1>4, Zenon DEF OneMarker, Plain
  <2>2. ~(i < j) /\ ~(j < i)
    BY <1>1, <1>2, <2>1
  <2> QED  BY <2>2
<1> QED  BY <1>3, <1>4, Zenon DEF OneMarker, PlainAscending

(* What is chosen to be dropped is droppable.                               *)
LEMMA ChosenDroppable ==
  ASSUME NEW q \in Seq(Item), NEW e, NEW n \in 0..Len(q)
  PROVE  \A x \in Chosen(q, e, n) : x \in Range(q) /\ ~isNonDroppable(x.type) /\ x.type # "loss"
<1>1. ASSUME NEW x \in Chosen(q, e, n)
      PROVE  x \in Range(q) /\ ~isNonDroppable(x.type) /\ x.type # "loss"
  <2>1. PICK i \in 1..n : x = q[i] /\ Candidate(q[i], e)
    BY <1>1, Zenon DEF Chosen
  <2>2. i \in 1..Len(q)
    BY <2>1
  <2>3. x \in Range(q)
    BY <2>1, <2>2, QueueMembers, Zenon
  <2>4. ~isNonDroppable(x.type)
    <3>1. CASE e.type = "metric"
      BY <2>1, <3>1 DEF Candidate, SameMetricKey, isNonDroppable
    <3>2. CASE e.type # "metric"
      BY <2>1, <3>2, Zenon DEF Candidate
    <3> QED  BY <3>1, <3>2, Zenon
  <2> QED  BY <2>3, <2>4, Zenon DEF isNonDroppable
<1> QED  BY <1>1, Zenon

(* The sequence numbers of what was dropped.                                *)
SeqsOf(d) == {d[i].seq : i \in 1..Len(d)}

(* A queue q is split into d, which is dropped, and the rest r.             *)
SplitOk(q, d, r, o, P) ==
  /\ d \in Seq(Item) /\ r \in Seq(Item)
  /\ Bytes(q) = Bytes(d) + Bytes(r) /\ Counts(r) = Counts(q)
  /\ ItemsOk(r, o, P) /\ PlainAscending(r) /\ OneMarker(r) /\ Markers(r) = Markers(q)
  /\ \A i \in 1..Len(d) : d[i] \in P /\ ~isNonDroppable(d[i].type) /\ d[i].seq \in o
  /\ \A i, j \in 1..Len(d) : d[i].seq = d[j].seq => i = j
  /\ SeqNumbers(q) = SeqNumbers(r) \cup SeqsOf(d) /\ SeqNumbers(r) \cap SeqsOf(d) = {}

LEMMA DropSplits ==
  ASSUME BytesFacts, CountsFacts, KeepFacts, NEW q \in Seq(Item), NEW o, NEW P,
         ItemsOk(q, o, P), PlainAscending(q), OneMarker(q),
         \A x \in P : x.count = 0, NEW e, NEW n \in 0..Len(q)
  PROVE  SplitOk(q, Only(q, e, n), Without(q, e, n), o, P)
<1>1. PICK C, d, r : C = Chosen(q, e, n) /\ d = Keep(q, C) /\ r = Keep(q, Range(q) \ C)
  BY Zenon
<1>2. /\ d \in Seq(Item) /\ Range(d) = Range(q) \cap C /\ PartOf(d, q)
      /\ r \in Seq(Item) /\ Range(r) = Range(q) \cap (Range(q) \ C) /\ PartOf(r, q)
  BY <1>1, Zenon DEF KeepFacts
<1>3. Bytes(d) + Bytes(r) = Bytes(q) /\ Counts(d) + Counts(r) = Counts(q)
  BY <1>1, Zenon DEF BytesFacts, CountsFacts
<1>4. \A x \in C : x \in Range(q) /\ ~isNonDroppable(x.type) /\ x.type # "loss"
  BY <1>1, ChosenDroppable, Zenon
<1>5. /\ \A x : x \in Range(d) <=> x \in C
      /\ \A x : x \in Range(r) <=> x \in Range(q) /\ x \notin C
  BY <1>2, <1>4, Zenon
<1>6. \A x \in Range(q) : Fine(x, o, P)
  BY QueueMembers, Zenon
<1>7. \A x \in C : x \in P /\ x.seq \in o
  BY <1>4, <1>6, Zenon DEF Fine
<1>8. \A i \in 1..Len(d) : d[i] \in C
  BY <1>2, <1>5, QueueMembers, Zenon
<1>9. Counts(r) = Counts(q)
  <2>1. \A i \in 1..Len(d) : d[i].count = 0
    BY <1>7, <1>8, Zenon
  <2>2. Counts(d) = 0 /\ Counts(r) \in Nat
    BY <1>2, <2>1, Zenon DEF CountsFacts
  <2> QED  BY <1>3, <2>2
<1>10. Bytes(q) = Bytes(d) + Bytes(r)
  BY <1>3, Zenon
<1>11. ItemsOk(r, o, P)
  BY <1>2, <1>5, <1>6, QueueMembers, Zenon
<1>12. PlainAscending(r) /\ OneMarker(r) /\ PlainAscending(d)
  BY <1>2, PartOrdered, Zenon
<1>13. Markers(r) = Markers(q)
  <2>1. /\ \A x : x \in Markers(r) <=> x \in Range(r) /\ x.type = "loss"
        /\ \A x : x \in Markers(q) <=> x \in Range(q) /\ x.type = "loss"
    BY <1>2, QueueMembers, Zenon
  <2>2. \A x : x \in Markers(r) <=> x \in Markers(q)
    BY <1>4, <1>5, <2>1, Zenon
  <2> QED  BY <2>2, Zenon
<1>14. \A i, j \in 1..Len(d) : d[i].seq = d[j].seq => i = j
  <2>1. \A i \in 1..Len(d) : i \in Plain(d)
    BY <1>4, <1>8, Zenon DEF Plain
  <2>2. \A i, j \in 1..Len(d) : i < j => d[i].seq < d[j].seq
    BY <1>12, <2>1, Zenon DEF PlainAscending
  <2>3. \A i \in 1..Len(d) : d[i].seq \in Nat
    <3>1. \A i \in 1..Len(d) : d[i] \in Item
      BY <1>2
    <3> QED  BY <3>1, ItemParts, Zenon
  <2> TAKE i, j \in 1..Len(d)
  <2>4. d[i].seq = d[j].seq => ~(i < j) /\ ~(j < i)
    BY <2>2, <2>3
  <2>5. i \in Int /\ j \in Int
    OBVIOUS
  <2> QED  BY <2>4, <2>5
<1>15. \A m : m \in SeqsOf(d) <=> \E x \in C : x.seq = m
  <2>1. \A m : m \in SeqsOf(d) <=> \E i \in 1..Len(d) : d[i].seq = m
    BY Zenon DEF SeqsOf
  <2>2. \A x : x \in Range(d) <=> \E i \in 1..Len(d) : d[i] = x
    BY <1>2, QueueMembers, Zenon
  <2> QED  BY <1>5, <2>1, <2>2, Zenon
<1>16. /\ \A m : m \in SeqNumbers(q) <=> \E x \in Range(q) : x.type # "loss" /\ x.seq = m
       /\ \A m : m \in SeqNumbers(r) <=> \E x \in Range(r) : x.type # "loss" /\ x.seq = m
  BY <1>2, QueueMembers, Zenon
<1>17. SeqNumbers(q) = SeqNumbers(r) \cup SeqsOf(d)
  <2>1. ASSUME NEW m  PROVE m \in SeqNumbers(q) <=> m \in SeqNumbers(r) \/ m \in SeqsOf(d)
    BY <1>4, <1>5, <1>15, <1>16, Zenon
  <2> QED  BY <2>1, Zenon
<1>18. SeqNumbers(r) \cap SeqsOf(d) = {}
  <2>1. SUFFICES ASSUME NEW m \in SeqNumbers(r), m \in SeqsOf(d)  PROVE FALSE
    BY Zenon
  <2>2. PICK x \in C, y \in Range(r) : x.seq = m /\ y.seq = m /\ y.type # "loss"
    BY <1>15, <1>16, <2>1, Zenon
  <2>3. PICK i, j \in 1..Len(q) : q[i] = x /\ q[j] = y
    <3>1. x \in Range(q) /\ y \in Range(q)
      BY <1>4, <1>5, <2>2, Zenon
    <3>2. (\E i \in 1..Len(q) : q[i] = x) /\ (\E j \in 1..Len(q) : q[j] = y)
      BY <3>1, QueueMembers, Zenon
    <3> QED  BY <3>2, Zenon
  <2>4. i \in Plain(q) /\ j \in Plain(q) /\ q[i].seq = m /\ q[j].seq = m
    BY <1>4, <2>2, <2>3, Zenon DEF Plain
  <2>5. m \in Nat
    <3>1. q[i] \in Item
      BY <2>3
    <3> QED  BY <2>4, <3>1, ItemParts, Zenon
  <2>6. ~(m < m)
    BY <2>5
  <2>7. ~(i < j) /\ ~(j < i)
    BY <2>4, <2>6, Zenon DEF PlainAscending
  <2>8. i = j
    BY <2>3, <2>7
  <2> QED  BY <1>5, <2>2, <2>3, <2>8, Zenon
<1>19. \A i \in 1..Len(d) : d[i] \in P /\ ~isNonDroppable(d[i].type) /\ d[i].seq \in o
  BY <1>4, <1>7, <1>8, Zenon
<1>20. SplitOk(q, d, r, o, P)
  BY <1>2, <1>9, <1>10, <1>11, <1>12, <1>13, <1>14, <1>17, <1>18, <1>19, Zenon DEF SplitOk
<1> QED  BY <1>1, <1>20, Zenon DEF Only, Without

(* A loss marker says how much was dropped, and its range takes it in.      *)
IsMarker(m, T, c) ==
  /\ m \in Item /\ m.type = "loss" /\ m.bytes = MarkerBytes /\ m.count = c
  /\ \A j \in T : j \in m.first..m.last
  /\ \A a, b \in T : \A j \in a..b : j \in m.first..m.last

LEMMA MarkerBounds ==
  ASSUME SetFacts, NEW T \in SUBSET Nat, NEW x \in T, IsFiniteSet(T), NEW c \in Nat, NEW n \in Nat
  PROVE  IsMarker(Loss(Min(T), Max(T), c, n), T, c)
<1>1. Min(T) \in T /\ \A j \in T : Min(T) <= j
  BY Zenon DEF SetFacts
<1>2. Max(T) \in T /\ \A j \in T : j <= Max(T)
  BY Zenon DEF SetFacts
<1>3. PICK f, l \in Nat : f = Min(T) /\ l = Max(T)
  BY <1>1, <1>2, Zenon
<1>4. \A j \in T : j \in Nat /\ f <= j /\ j <= l
  BY <1>1, <1>2, <1>3, Zenon
<1>5. MarkerBytes \in Nat
  BY SubscriptionAssumption
<1>6. /\ Loss(f, l, c, n) \in Item /\ Loss(f, l, c, n).type = "loss"
      /\ Loss(f, l, c, n).bytes = MarkerBytes /\ Loss(f, l, c, n).count = c
      /\ Loss(f, l, c, n).first = f /\ Loss(f, l, c, n).last = l
  BY <1>5 DEF Loss, Item, EventTypes
<1>7. \A j \in T : j \in f..l
  BY <1>4
<1>8. \A a, b \in T : \A j \in a..b : j \in f..l
  BY <1>4
<1> QED  BY <1>3, <1>6, <1>7, <1>8, Zenon DEF IsMarker

Tells(q, n) == \E x \in Range(q) : x.type = "loss" /\ n \in x.first..x.last

LEMMA FirstMarker ==
  ASSUME SetFacts, NEW d \in Seq(Item), d # <<>>,
         \A i, j \in 1..Len(d) : d[i].seq = d[j].seq => i = j
  PROVE  LET m == LossMarker(d, {})
         IN  /\ m \in Item /\ m.type = "loss" /\ m.bytes = MarkerBytes /\ m.count = Len(d)
             /\ \A n \in SeqsOf(d) : n \in m.first..m.last
<1>1. PICK T : T = SeqsOf(d) \cup UNION {{x.first, x.last} : x \in {}}
  BY Zenon
<1>2. T = SeqsOf(d)
  BY <1>1, Zenon
<1>3. IsFiniteSet(SeqsOf(d))
  BY Zenon DEF SetFacts, SeqsOf
<1>4. \A i \in 1..Len(d) : d[i] \in Item
  OBVIOUS
<1>5. \A i \in 1..Len(d) : d[i].seq \in Nat /\ d[i].seq \in SeqsOf(d)
  BY <1>4, ItemParts, Zenon DEF SeqsOf
<1>6. T \in SUBSET Nat
  BY <1>2, <1>5, Zenon DEF SeqsOf
<1>7. 1 \in 1..Len(d) /\ Head(d) = d[1] /\ Len(d) \in Nat /\ Len(d) + 0 = Len(d)
  OBVIOUS
<1>8. Head(d).seq \in T /\ Head(d).seq \in Nat
  BY <1>2, <1>5, <1>7, Zenon
<1>9. LossMarker(d, {}) = Loss(Min(T), Max(T), Len(d), Head(d).seq)
  BY <1>1, <1>7, Zenon DEF LossMarker, SeqsOf
<1>10. IsMarker(Loss(Min(T), Max(T), Len(d), Head(d).seq), T, Len(d))
  BY <1>2, <1>3, <1>6, <1>7, <1>8, MarkerBounds, Zenon
<1> QED  BY <1>2, <1>9, <1>10, Zenon DEF IsMarker

LEMMA NextMarker ==
  ASSUME SetFacts, NEW d \in Seq(Item), d # <<>>, NEW x \in Item,
         \A i, j \in 1..Len(d) : d[i].seq = d[j].seq => i = j
  PROVE  LET m == LossMarker(d, {x})
         IN  /\ m \in Item /\ m.type = "loss" /\ m.bytes = MarkerBytes
             /\ m.count = Len(d) + x.count
             /\ \A n \in SeqsOf(d) : n \in m.first..m.last
             /\ \A n \in x.first..x.last : n \in m.first..m.last
<1>1. PICK T : T = SeqsOf(d) \cup UNION {{y.first, y.last} : y \in {x}}
  BY Zenon
<1>2. T = SeqsOf(d) \cup {x.first, x.last}
  BY <1>1, Zenon
<1>3. IsFiniteSet(SeqsOf(d)) /\ IsFiniteSet({x.first, x.last})
  BY Zenon DEF SetFacts, SeqsOf
<1>4. IsFiniteSet(T)
  BY <1>2, <1>3, Zenon DEF SetFacts
<1>5. \A i \in 1..Len(d) : d[i] \in Item
  OBVIOUS
<1>6. \A i \in 1..Len(d) : d[i].seq \in Nat /\ d[i].seq \in SeqsOf(d)
  BY <1>5, ItemParts, Zenon DEF SeqsOf
<1>7. x.first \in Nat /\ x.last \in Nat /\ x.seq \in Nat /\ x.count \in Nat
  BY ItemParts, Zenon
<1>8. T \in SUBSET Nat /\ x.first \in T /\ x.last \in T
  BY <1>2, <1>6, <1>7, ZenonT(60) DEF SeqsOf
<1>9. Len(d) + x.count \in Nat
  BY <1>7
<1>10. (CHOOSE y \in {x} : TRUE) = x /\ {x} # {}
  BY Zenon
<1>11. LossMarker(d, {x}) = Loss(Min(T), Max(T), Len(d) + x.count, x.seq)
  BY <1>1, <1>10, Zenon DEF LossMarker, SeqsOf
<1>12. IsMarker(Loss(Min(T), Max(T), Len(d) + x.count, x.seq), T, Len(d) + x.count)
  BY <1>4, <1>7, <1>8, <1>9, MarkerBounds, Zenon
<1>13. \A n \in SeqsOf(d) : n \in T
  BY <1>2, Zenon
<1> QED  BY <1>8, <1>11, <1>12, <1>13, Zenon DEF IsMarker

(* The rest r of a queue, with the marker for the events d dropped.         *)
MarkedOk(m, r, d, o, P) ==
  /\ m \in Seq(Item) /\ Bytes(m) = Bytes(r) + MarkedBytes(r, d)
  /\ Counts(m) = Counts(r) + Len(d)
  /\ ItemsOk(m, o, P) /\ PlainAscending(m) /\ OneMarker(m) /\ SeqNumbers(m) = SeqNumbers(r)
  /\ \A n \in SeqsOf(d) : Tells(m, n)
  /\ \A n : Tells(r, n) => Tells(m, n)

LEMMA MarkedEmpty ==
  ASSUME BytesFacts, CountsFacts, NEW r \in Seq(Item), NEW o, NEW P,
         ItemsOk(r, o, P), PlainAscending(r), OneMarker(r)
  PROVE  MarkedOk(Marked(r, <<>>), r, <<>>, o, P)
<1>1. Marked(r, <<>>) = r /\ MarkedBytes(r, <<>>) = 0
  BY Zenon DEF Marked, MarkedBytes
<1>2. Len(<<>>) = 0 /\ 1..0 = {}
  OBVIOUS
<1>3. SeqsOf(<<>>) = {}
  BY <1>2, Zenon DEF SeqsOf
<1>4. Bytes(r) \in Nat /\ Counts(r) \in Nat
  BY Zenon DEF BytesFacts, CountsFacts
<1>5. Bytes(r) = Bytes(r) + 0 /\ Counts(r) = Counts(r) + 0
  BY <1>4
<1> QED  BY <1>1, <1>2, <1>3, <1>5, Zenon DEF MarkedOk

LEMMA MarkedFirst ==
  ASSUME BytesFacts, CountsFacts, SetFacts, NEW r \in Seq(Item), NEW o, NEW P, ItemsOk(r, o, P),
         PlainAscending(r), NEW d \in Seq(Item), d # <<>>, Markers(r) = {},
         \A i, j \in 1..Len(d) : d[i].seq = d[j].seq => i = j
  PROVE  MarkedOk(Marked(r, d), r, d, o, P)
<1>1. PICK x : x = LossMarker(d, {})
  BY Zenon
<1>2. /\ x \in Item /\ x.type = "loss" /\ x.bytes = MarkerBytes /\ x.count = Len(d)
      /\ \A n \in SeqsOf(d) : n \in x.first..x.last
  BY <1>1, FirstMarker, Zenon
<1>3. PICK m : m = Append(r, x)
  BY Zenon
<1>4. Marked(r, d) = m /\ MarkedBytes(r, d) = MarkerBytes
  BY <1>1, <1>3, Zenon DEF Marked, MarkedBytes
<1>5. /\ m \in Seq(Item) /\ Len(m) = Len(r) + 1 /\ m[Len(m)] = x /\ Len(r) \in Nat
      /\ \A i \in 1..Len(r) : m[i] = r[i]
  BY <1>2, <1>3
<1>6. \A i : i \in 1..Len(m) <=> i \in 1..Len(r) \/ i = Len(m)
  BY <1>5
<1>7. Bytes(m) = Bytes(r) + MarkedBytes(r, d) /\ Counts(m) = Counts(r) + Len(d)
  <2>1. Bytes(Append(r, x)) = Bytes(r) + x.bytes
    BY <1>2, Zenon DEF BytesFacts
  <2>2. Counts(Append(r, x)) = Counts(r) + x.count
    BY <1>2, Zenon DEF CountsFacts
  <2> QED  BY <1>2, <1>3, <1>4, <2>1, <2>2, Zenon
<1>8. /\ \A y : y \in Range(m) <=> y \in Range(r) \/ y = x
  <2>1. /\ \A y : y \in Range(m) <=> \E i \in 1..Len(m) : m[i] = y
        /\ \A y : y \in Range(r) <=> \E i \in 1..Len(r) : r[i] = y
    BY <1>5, QueueMembers, Zenon
  <2> QED  BY <1>5, <1>6, <2>1, ZenonT(60)
<1>9. ItemsOk(m, o, P)
  <2>1. \A y \in Range(r) : Fine(y, o, P)
    BY QueueMembers, Zenon
  <2>2. Fine(x, o, P)
    BY <1>2, Zenon DEF Fine
  <2>3. \A y \in Range(m) : Fine(y, o, P)
    BY <1>8, <2>1, <2>2, Zenon
  <2> QED  BY <1>5, <2>3, QueueMembers, Zenon
<1>10. \A i : i \in Plain(m) <=> i \in Plain(r)
  <2>1. m[Len(m)].type = "loss"
    BY <1>2, <1>5, Zenon
  <2> QED  BY <1>5, <1>6, <2>1, Zenon DEF Plain
<1>11. \A i \in Plain(r) : m[i] = r[i]
  BY <1>5, Zenon DEF Plain
<1>12. PlainAscending(m)
  BY <1>10, <1>11, ZenonT(60) DEF PlainAscending
<1>13. SeqNumbers(m) = SeqNumbers(r)
  <2>1. \A n : n \in SeqNumbers(m) <=> n \in SeqNumbers(r)
    BY <1>10, <1>11, Zenon DEF SeqNumbers
  <2> QED  BY <2>1, Zenon
<1>14. OneMarker(m)
  <2>1. \A i \in 1..Len(r) : i \in Plain(r)
    <3>1. \A i \in 1..Len(r) : r[i].type = "loss" => r[i] \in Markers(r)
      BY Zenon DEF Markers
    <3> QED  BY <3>1, Zenon DEF Plain
  <2> QED  BY <1>6, <1>10, <2>1, Zenon DEF OneMarker
<1>15. \A n \in SeqsOf(d) : Tells(m, n)
  BY <1>2, <1>8, Zenon DEF Tells
<1>16. \A n : Tells(r, n) => Tells(m, n)
  BY <1>8, Zenon DEF Tells
<1>17. MarkedOk(m, r, d, o, P)
  BY <1>5, <1>7, <1>9, <1>12, <1>13, <1>14, <1>15, <1>16, Zenon DEF MarkedOk
<1> QED  BY <1>4, <1>17, Zenon

LEMMA MarkedNext ==
  ASSUME BytesFacts, CountsFacts, SetFacts, NEW r \in Seq(Item), NEW o, NEW P, ItemsOk(r, o, P),
         PlainAscending(r), OneMarker(r), NEW d \in Seq(Item), d # <<>>, Markers(r) # {},
         \A i, j \in 1..Len(d) : d[i].seq = d[j].seq => i = j
  PROVE  MarkedOk(Marked(r, d), r, d, o, P)
<1>1. PICK k \in 1..Len(r) : r[k].type = "loss"
  BY Zenon DEF Markers
<1>2. \A i \in 1..Len(r) : r[i].type = "loss" <=> i = k
  BY <1>1, Zenon DEF OneMarker, Plain
<1>3. Markers(r) = {r[k]}
  BY <1>1, <1>2, Zenon DEF Markers
<1>4. PICK x : x = LossMarker(d, {r[k]})
  BY Zenon
<1>5. r[k] \in Item /\ k \in Nat /\ Len(r) \in Nat
  BY <1>1
<1>6. /\ x \in Item /\ x.type = "loss" /\ x.bytes = MarkerBytes /\ x.count = Len(d) + r[k].count
      /\ \A n \in SeqsOf(d) : n \in x.first..x.last
      /\ \A n \in r[k].first..r[k].last : n \in x.first..x.last
  BY <1>4, <1>5, NextMarker, Zenon
<1>7. PICK m : m = [i \in 1..Len(r) |-> IF r[i].type = "loss" THEN x ELSE r[i]]
  BY Zenon
<1>8. Marked(r, d) = m /\ MarkedBytes(r, d) = 0
  BY <1>3, <1>4, <1>7, Zenon DEF Marked, MarkedBytes
<1>9. m[k] = x /\ \A i \in 1..Len(r) : i # k => m[i] = r[i]
  BY <1>1, <1>2, <1>7, Zenon
<1>10. m \in Seq(Item) /\ Len(m) = Len(r)
  <2>1. \A i \in 1..Len(r) : r[i] \in Item
    OBVIOUS
  <2>2. m \in [1..Len(r) -> Item]
    BY <1>6, <1>7, <2>1, Zenon
  <2> QED  BY <1>5, <2>2
<1>11. Bytes(m) = Bytes(r) + MarkedBytes(r, d) /\ Counts(m) = Counts(r) + Len(d)
  <2>1. /\ Bytes(m) + r[k].bytes = Bytes(r) + m[k].bytes
        /\ Counts(m) + r[k].count = Counts(r) + m[k].count
    BY <1>1, <1>5, <1>9, <1>10, ZenonT(60) DEF BytesFacts, CountsFacts
  <2>2. r[k].bytes = MarkerBytes /\ m[k].bytes = MarkerBytes /\ m[k].count = Len(d) + r[k].count
    BY <1>1, <1>6, <1>9, Zenon DEF ItemsOk
  <2>3. /\ Bytes(m) \in Nat /\ Bytes(r) \in Nat /\ Counts(m) \in Nat /\ Counts(r) \in Nat
        /\ MarkerBytes \in Nat /\ r[k].count \in Nat /\ Len(d) \in Nat
    <3>1. MarkerBytes \in Nat /\ Len(d) \in Nat
      BY SubscriptionAssumption
    <3> QED  BY <1>5, <1>10, <3>1, ItemParts, Zenon DEF BytesFacts, CountsFacts
  <2>4. Bytes(m) + MarkerBytes = Bytes(r) + MarkerBytes
    BY <2>1, <2>2, Zenon
  <2>5. Counts(m) + r[k].count = Counts(r) + (Len(d) + r[k].count)
    BY <2>1, <2>2, Zenon
  <2>6. \A a, b, c \in Nat : a + c = b + c => a = b + 0
    OBVIOUS
  <2>7. Bytes(m) = Bytes(r) + 0
    BY <2>3, <2>4, <2>6, Zenon
  <2>8. Counts(m) = Counts(r) + Len(d)
    <3>1. PICK a, b, c, l \in Nat : a = Counts(m) /\ b = Counts(r) /\ c = r[k].count /\ l = Len(d)
      BY <2>3, Zenon
    <3>2. a + c = b + (l + c)
      BY <2>5, <3>1, Zenon
    <3>3. a = b + l
      BY <3>2
    <3> QED  BY <3>1, <3>3, Zenon
  <2> QED  BY <1>8, <2>7, <2>8, Zenon
<1>12. ItemsOk(m, o, P)
  <2>1. \A i \in 1..Len(r) : Fine(r[i], o, P)
    BY Zenon DEF ItemsOk, Fine
  <2>2. Fine(x, o, P)
    BY <1>6, Zenon DEF Fine
  <2>3. \A i \in 1..Len(m) : Fine(m[i], o, P)
    BY <1>9, <1>10, <2>1, <2>2, Zenon
  <2> QED  BY <2>3, Zenon DEF ItemsOk, Fine
<1>13. \A i : i \in Plain(m) <=> i \in Plain(r)
  <2>1. m[k].type = "loss"
    BY <1>6, <1>9, Zenon
  <2> QED  BY <1>2, <1>9, <1>10, <2>1, Zenon DEF Plain
<1>14. \A i \in Plain(r) : m[i] = r[i]
  BY <1>2, <1>9, Zenon DEF Plain
<1>15. PlainAscending(m)
  BY <1>13, <1>14, Zenon DEF PlainAscending
<1>16. SeqNumbers(m) = SeqNumbers(r)
  <2>1. \A n : n \in SeqNumbers(m) <=> n \in SeqNumbers(r)
    BY <1>13, <1>14, Zenon DEF SeqNumbers
  <2> QED  BY <2>1, Zenon
<1>17. OneMarker(m)
  BY <1>10, <1>13, Zenon DEF OneMarker
<1>18. x \in Range(m)
  BY <1>1, <1>9, <1>10, QueueMembers, Zenon
<1>19. \A n \in SeqsOf(d) : Tells(m, n)
  BY <1>6, <1>18, Zenon DEF Tells
<1>20. ASSUME NEW n, Tells(r, n)  PROVE Tells(m, n)
  <2>1. PICK y \in Range(r) : y.type = "loss" /\ n \in y.first..y.last
    BY <1>20, Zenon DEF Tells
  <2>2. y = r[k]
    <3>1. y \in Markers(r)
      BY <2>1, QueueMembers, Zenon
    <3> QED  BY <1>3, <3>1, Zenon
  <2> QED  BY <1>6, <1>18, <2>1, <2>2, Zenon DEF Tells
<1>21. MarkedOk(m, r, d, o, P)
  BY <1>10, <1>11, <1>12, <1>15, <1>16, <1>17, <1>19, <1>20, Zenon DEF MarkedOk
<1> QED  BY <1>8, <1>21, Zenon

LEMMA MarkedKeeps ==
  ASSUME BytesFacts, CountsFacts, SetFacts, NEW q, NEW d, NEW r, NEW o, NEW P,
         SplitOk(q, d, r, o, P)
  PROVE  MarkedOk(Marked(r, d), r, d, o, P)
<1>1. /\ d \in Seq(Item) /\ r \in Seq(Item) /\ ItemsOk(r, o, P) /\ PlainAscending(r) /\ OneMarker(r)
      /\ \A i, j \in 1..Len(d) : d[i].seq = d[j].seq => i = j
  BY Zenon DEF SplitOk
<1>2. CASE d = <<>>
  BY <1>1, <1>2, MarkedEmpty, Zenon
<1>3. CASE d # <<>> /\ Markers(r) = {}
  BY <1>1, <1>3, MarkedFirst, Zenon
<1>4. CASE d # <<>> /\ Markers(r) # {}
  BY <1>1, <1>4, MarkedNext, Zenon
<1> QED  BY <1>2, <1>3, <1>4, Zenon

(* enqueue closes the subscription, or drops some events, marks the loss    *)
(* and appends.                                                             *)
Appended(s, e, n, d, r, m, b) ==
  /\ n \in 0..Len(s.pending) /\ d = Only(s.pending, e, n) /\ r = Without(s.pending, e, n)
  /\ m = Marked(r, d) /\ b = (s.pending_bytes - Bytes(d)) + MarkedBytes(r, d)
  /\ Enqueued(s, e) = [s EXCEPT !.pending = Append(m, e), !.pending_bytes = b + e.bytes]
  /\ ~(Len(m) >= s.limits.max_events) /\ ~(b > s.limits.max_bytes - e.bytes)

LEMMA EnqueuedOutcome ==
  ASSUME SetFacts, NEW s, NEW e, Open(s), Len(s.pending) \in Nat
  PROVE  Enqueued(s, e) = Closed(s) \/ \E n, d, r, m, b : Appended(s, e, n, d, r, m, b)
<1>1. PICK T : T = {n \in 0..Len(s.pending) : Fits(s, e, n)}
  BY Zenon
<1>2. PICK n, d, r, m, b :
        /\ n = Min(T) /\ d = Only(s.pending, e, n) /\ r = Without(s.pending, e, n)
        /\ m = Marked(r, d) /\ b = (s.pending_bytes - Bytes(d)) + MarkedBytes(r, d)
  BY Zenon
<1>3. Enqueued(s, e) =
        IF \/ e.bytes > s.limits.max_bytes \/ T = {}
           \/ Len(m) >= s.limits.max_events
           \/ b > s.limits.max_bytes - e.bytes
        THEN Closed(s)
        ELSE [s EXCEPT !.pending = Append(m, e), !.pending_bytes = b + e.bytes]
  BY <1>1, <1>2, Zenon DEF Enqueued, Open
<1>4. CASE T = {}
  BY <1>3, <1>4, Zenon
<1>5. CASE T # {}
  <2>1. T \in SUBSET Nat
    BY <1>1
  <2>2. Min(T) \in T
    BY <1>5, <2>1, Zenon DEF SetFacts
  <2>3. n \in 0..Len(s.pending)
    BY <1>1, <1>2, <2>2, Zenon
  <2>4. CASE \/ e.bytes > s.limits.max_bytes
             \/ Len(m) >= s.limits.max_events
             \/ b > s.limits.max_bytes - e.bytes
    BY <1>3, <2>4, Zenon
  <2>5. CASE ~(\/ e.bytes > s.limits.max_bytes
               \/ Len(m) >= s.limits.max_events
               \/ b > s.limits.max_bytes - e.bytes)
    <3>1. Enqueued(s, e) = [s EXCEPT !.pending = Append(m, e), !.pending_bytes = b + e.bytes]
      BY <1>3, <1>5, <2>5, Zenon
    <3>2. Appended(s, e, n, d, r, m, b)
      BY <1>2, <2>3, <2>5, <3>1, Zenon DEF Appended
    <3> QED  BY <3>2, Zenon
  <2> QED  BY <2>4, <2>5, Zenon
<1> QED  BY <1>4, <1>5, Zenon

(* The order and the accounts of a queue.                                   *)
LineOk(o, p, q, P) ==
  /\ ItemsOk(p, o, P) /\ ItemsOk(q, o, P)
  /\ PlainAscending(p) /\ PlainAscending(q) /\ PlainAfter(p, q)
  /\ LossOk(o, p, q, P)

(* PlainAfter and Missing are about the sequence numbers.                   *)
LEMMA AfterNumbers ==
  ASSUME NEW p, NEW q
  PROVE  PlainAfter(p, q) <=> \A x \in SeqNumbers(p), y \in SeqNumbers(q) : x < y
<1>1. /\ \A i \in Plain(p) : p[i].seq \in SeqNumbers(p)
      /\ \A j \in Plain(q) : q[j].seq \in SeqNumbers(q)
      /\ \A x \in SeqNumbers(p) : \E i \in Plain(p) : x = p[i].seq
      /\ \A x \in SeqNumbers(q) : \E i \in Plain(q) : x = q[i].seq
  BY Zenon DEF SeqNumbers
<1> QED  BY <1>1, Zenon DEF PlainAfter

LEMMA AppendPlain ==
  ASSUME NEW m \in Seq(Item), NEW e \in Item, e.type # "loss", NEW o, NEW P, ItemsOk(m, o, P),
         PlainAscending(m), OneMarker(m), e \in P, \A n \in o : n < e.seq
  PROVE  LET t == Append(m, e)
         IN  /\ t \in Seq(Item) /\ ItemsOk(t, o \cup {e.seq}, P) /\ PlainAscending(t)
             /\ OneMarker(t) /\ SeqNumbers(t) = SeqNumbers(m) \cup {e.seq}
             /\ \A n : Tells(m, n) => Tells(t, n)
<1>1. PICK t : t = Append(m, e)
  BY Zenon
<1>2. /\ t \in Seq(Item) /\ Len(t) = Len(m) + 1 /\ t[Len(t)] = e /\ Len(m) \in Nat
      /\ \A i \in 1..Len(m) : t[i] = m[i]
  BY <1>1
<1>3. \A i : i \in 1..Len(t) <=> i \in 1..Len(m) \/ i = Len(t)
  BY <1>2
<1>4. \A i \in 1..Len(m) : i < Len(t) /\ ~(Len(t) < i) /\ i # Len(t)
  BY <1>2
<1>5. \A i : i \in Plain(t) <=> i \in Plain(m) \/ i = Len(t)
  BY <1>2, <1>3, Zenon DEF Plain
<1>6. \A i \in Plain(m) : t[i] = m[i] /\ m[i].seq < t[Len(t)].seq /\ i < Len(t) /\ ~(Len(t) < i)
  <2>1. \A i \in Plain(m) : i \in 1..Len(m) /\ m[i].seq \in o
    BY Zenon DEF ItemsOk, Plain
  <2> QED  BY <1>2, <1>4, <2>1, Zenon
<1>7. PlainAscending(t)
  <2>1. ASSUME NEW i \in Plain(t), NEW j \in Plain(t), i < j  PROVE t[i].seq < t[j].seq
    <3>1. i \in Plain(m)
      <4>1. CASE i = Len(t)
        <5>1. ~(Len(t) < Len(t))
          BY <1>2
        <5> QED  BY <1>5, <1>6, <2>1, <4>1, <5>1, Zenon
      <4> QED  BY <1>5, <2>1, <4>1, Zenon
    <3>2. CASE j = Len(t)
      BY <1>6, <3>1, <3>2, Zenon
    <3>3. CASE j \in Plain(m)
      BY <1>6, <2>1, <3>1, <3>3, Zenon DEF PlainAscending
    <3> QED  BY <1>5, <2>1, <3>2, <3>3, Zenon
  <2> QED  BY <2>1, Zenon DEF PlainAscending
<1>8. OneMarker(t)
  BY <1>3, <1>5, Zenon DEF OneMarker
<1>9. /\ \A x : x \in Range(t) <=> x \in Range(m) \/ x = e
  <2>1. /\ \A x : x \in Range(t) <=> \E i \in 1..Len(t) : t[i] = x
        /\ \A x : x \in Range(m) <=> \E i \in 1..Len(m) : m[i] = x
    BY <1>2, QueueMembers, Zenon
  <2> QED  BY <1>2, <1>3, <2>1, ZenonT(60)
<1>10. ItemsOk(t, o \cup {e.seq}, P)
  <2>1. \A x \in Range(m) : Fine(x, o, P)
    BY QueueMembers, Zenon
  <2>2. \A x \in Range(t) : Fine(x, o \cup {e.seq}, P)
    BY <1>9, <2>1, Zenon DEF Fine
  <2> QED  BY <1>2, <2>2, QueueMembers, Zenon
<1>11. SeqNumbers(t) = SeqNumbers(m) \cup {e.seq}
  <2>1. /\ \A n : n \in SeqNumbers(t) <=> \E x \in Range(t) : x.type # "loss" /\ x.seq = n
        /\ \A n : n \in SeqNumbers(m) <=> \E x \in Range(m) : x.type # "loss" /\ x.seq = n
    BY <1>2, QueueMembers, Zenon
  <2>2. \A n : n \in SeqNumbers(t) <=> n \in SeqNumbers(m) \/ n = e.seq
    BY <1>9, <2>1, Zenon
  <2> QED  BY <2>2, Zenon
<1>12. \A n : Tells(m, n) => Tells(t, n)
  BY <1>9, Zenon DEF Tells
<1> QED  BY <1>1, <1>2, <1>7, <1>8, <1>10, <1>11, <1>12, Zenon

(* Dropping, marking and appending keep the line.                           *)
LEMMA LineGrows ==
  ASSUME BytesFacts, CountsFacts, SetFacts, NEW q \in Seq(Item), NEW d, NEW r, NEW m, NEW o, NEW P,
         NEW p \in Seq(Item), SplitOk(q, d, r, o, P), MarkedOk(m, r, d, o, P), LineOk(o, p, q, P),
         o \in SUBSET Nat, IsFiniteSet(o),
         NEW e \in Item, e.type # "loss", e.count = 0, e \in P, \A n \in o : n < e.seq
  PROVE  LineOk(o \cup {e.seq}, p, Append(m, e), P) /\ OneMarker(Append(m, e))
<1>1. PICK t, N : t = Append(m, e) /\ N = o \cup {e.seq}
  BY Zenon
<1>2. m \in Seq(Item) /\ ItemsOk(m, o, P) /\ PlainAscending(m) /\ OneMarker(m)
  BY Zenon DEF MarkedOk
<1>3. /\ t \in Seq(Item) /\ ItemsOk(t, N, P) /\ PlainAscending(t)
      /\ OneMarker(t) /\ SeqNumbers(t) = SeqNumbers(m) \cup {e.seq}
      /\ \A n : Tells(m, n) => Tells(t, n)
  BY <1>1, <1>2, AppendPlain, Zenon
<1>4. ItemsOk(p, N, P)
  <2>1. \A x \in Range(p) : Fine(x, o, P)
    BY QueueMembers, Zenon DEF LineOk
  <2>2. \A x \in Range(p) : Fine(x, N, P)
    BY <1>1, <2>1, Zenon DEF Fine
  <2> QED  BY <2>2, QueueMembers, Zenon
<1>5. /\ SeqNumbers(q) = SeqNumbers(r) \cup SeqsOf(d) /\ SeqNumbers(r) \cap SeqsOf(d) = {}
      /\ SeqNumbers(m) = SeqNumbers(r)
  BY Zenon DEF SplitOk, MarkedOk
<1>6. SeqsOf(d) \subseteq o
  <2>1. \A i \in 1..Len(d) : d[i].seq \in o
    BY Zenon DEF SplitOk
  <2> QED  BY <2>1, Zenon DEF SeqsOf
<1>7. \A x \in SeqNumbers(p) : x \in o
  <2>1. \A i \in Plain(p) : p[i].seq \in o
    BY Zenon DEF LineOk, ItemsOk, Plain
  <2> QED  BY <2>1, Zenon DEF SeqNumbers
<1>8. \A x \in SeqNumbers(p), y \in SeqNumbers(q) : x < y
  BY AfterNumbers, Zenon DEF LineOk
<1>9. PlainAfter(p, t)
  <2>1. \A x \in SeqNumbers(p), y \in SeqNumbers(t) : x < y
    BY <1>3, <1>5, <1>7, <1>8, Zenon
  <2> QED  BY <2>1, AfterNumbers, Zenon
<1>10. SeqNumbers(p) \cap SeqsOf(d) = {}
  <2>1. SUFFICES ASSUME NEW n \in SeqNumbers(p), n \in SeqsOf(d)  PROVE FALSE
    BY Zenon
  <2>2. n < n
    BY <1>5, <1>8, <2>1, Zenon
  <2>3. n \in Nat
    BY <1>6, <2>1, Zenon
  <2> QED  BY <2>2, <2>3
<1>11. e.seq \notin o
  <2>1. e.seq \in Nat /\ ~(e.seq < e.seq)
    BY ItemParts
  <2> QED  BY <2>1, Zenon
<1>12. PICK A, B : A = Missing(o, p, q) /\ B = SeqsOf(d)
  BY Zenon
<1>13. Missing(N, p, t) = A \cup B /\ A \cap B = {} /\ A \subseteq o
  <2>1. \A n : n \in Missing(N, p, t) <=>
               n \in N /\ n \notin SeqNumbers(p) /\ n \notin SeqNumbers(t)
    BY Zenon DEF Missing
  <2>2. \A n : n \in A <=> n \in o /\ n \notin SeqNumbers(p) /\ n \notin SeqNumbers(q)
    BY <1>12, Zenon DEF Missing
  <2>3. \A n : n \in Missing(N, p, t) <=>
               n \in o /\ n \notin SeqNumbers(p) /\ n \notin SeqNumbers(r)
    BY <1>1, <1>3, <1>5, <1>11, <2>1, Zenon
  <2>4. \A n : n \in A \cup B <=> n \in o /\ n \notin SeqNumbers(p) /\ n \notin SeqNumbers(r)
    BY <1>5, <1>6, <1>10, <1>12, <2>2, Zenon
  <2>5. \A n : ~(n \in A /\ n \in B)
    BY <1>5, <1>12, <2>2, Zenon
  <2> QED  BY <2>2, <2>3, <2>4, <2>5, Zenon
<1>14. Cardinality(A \cup B) = Counts(p) + Counts(t)
  <2>1. d \in Seq(Item) /\ \A i, j \in 1..Len(d) : d[i].seq = d[j].seq => i = j
    BY Zenon DEF SplitOk
  <2>2. IsFiniteSet(B) /\ Cardinality(B) = Len(d)
    BY <1>12, <2>1, Zenon DEF SetFacts, SeqsOf
  <2>3. IsFiniteSet(A)
    BY <1>13, Zenon DEF SetFacts
  <2>4. Cardinality(A \cup B) = Cardinality(A) + Cardinality(B)
    BY <1>13, <2>2, <2>3, Zenon DEF SetFacts
  <2>5. Cardinality(A) = Counts(p) + Counts(q)
    BY <1>12, Zenon DEF LineOk, LossOk
  <2>6. Counts(r) = Counts(q) /\ Counts(m) = Counts(r) + Len(d)
    BY Zenon DEF SplitOk, MarkedOk
  <2>7. Counts(Append(m, e)) = Counts(m) + e.count
    BY <1>2, Zenon DEF CountsFacts
  <2>8. Counts(p) \in Nat /\ Counts(q) \in Nat /\ Len(d) \in Nat
    <3>1. Len(d) \in Nat
      BY <2>1
    <3> QED  BY <3>1, Zenon DEF CountsFacts
  <2>9. PICK a, b, l \in Nat : a = Counts(p) /\ b = Counts(q) /\ l = Len(d)
    BY <2>8, Zenon
  <2>10. Cardinality(A \cup B) = (a + b) + l /\ Counts(t) = (b + l) + 0
    BY <1>1, <2>2, <2>4, <2>5, <2>6, <2>7, <2>9, Zenon
  <2>11. (a + b) + l = a + ((b + l) + 0)
    OBVIOUS
  <2> QED  BY <2>9, <2>10, <2>11, Zenon
<1>15. ASSUME NEW n \in A \cup B
       PROVE  Told(n, p, t) /\ \E x \in P : x.seq = n /\ ~isNonDroppable(x.type)
  <2>1. \A k : Told(k, p, t) <=> Tells(p, k) \/ Tells(t, k)
    BY Zenon DEF Told, Tells
  <2>2. CASE n \in A
    <3>1. Told(n, p, q) /\ \E x \in P : x.seq = n /\ ~isNonDroppable(x.type)
      BY <1>12, <2>2, Zenon DEF LineOk, LossOk
    <3>2. Tells(p, n) \/ Tells(q, n)
      BY <3>1, Zenon DEF Told, Tells
    <3>3. Tells(q, n) => Tells(r, n)
      <4>1. Markers(q) = Markers(r) /\ r \in Seq(Item)
        BY Zenon DEF SplitOk
      <4>2. /\ \A x : x \in Markers(q) <=> x \in Range(q) /\ x.type = "loss"
            /\ \A x : x \in Markers(r) <=> x \in Range(r) /\ x.type = "loss"
        BY <4>1, QueueMembers, Zenon
      <4> QED  BY <4>1, <4>2, Zenon DEF Tells
    <3>4. Tells(r, n) => Tells(m, n)
      BY Zenon DEF MarkedOk
    <3> QED  BY <1>3, <2>1, <3>1, <3>2, <3>3, <3>4, Zenon
  <2>3. CASE n \in B
    <3>1. PICK i \in 1..Len(d) : n = d[i].seq
      BY <1>12, <2>3, Zenon DEF SeqsOf
    <3>2. d[i] \in P /\ ~isNonDroppable(d[i].type)
      BY <3>1, Zenon DEF SplitOk
    <3>3. Tells(m, n)
      BY <1>12, <2>3, Zenon DEF MarkedOk
    <3> QED  BY <1>3, <2>1, <3>1, <3>2, <3>3, Zenon
  <2> QED  BY <1>15, <2>2, <2>3, Zenon
<1>16. LossOk(N, p, t, P)
  BY <1>13, <1>14, <1>15, Zenon DEF LossOk
<1>17. LineOk(N, p, t, P)
  BY <1>3, <1>4, <1>9, <1>16, Zenon DEF LineOk
<1> QED  BY <1>1, <1>3, <1>17, Zenon

(* enqueue keeps a queue right.                                             *)
LEMMA EnqueueKeeps ==
  ASSUME BytesFacts, CountsFacts, KeepFacts, SetFacts, NEW s, NEW o, NEW p, NEW P \in SUBSET Item,
         QueueOk(s, o, p, P), \A x \in P : x.type # "loss" /\ x.count = 0,
         NEW e \in P, \A n \in o : n < e.seq
  PROVE  QueueOk(Enqueued(s, e), o \cup {e.seq}, p, P) /\ Enqueued(s, e).filter = s.filter
         /\ Enqueued(s, e).active = s.active /\ (s.closed => Enqueued(s, e).closed)
         /\ (s.closing => Enqueued(s, e).closing)
<1>1. PICK N : N = o \cup {e.seq}
  BY Zenon
<1>2. s \in Subscription /\ BooksOk(s) /\ OneMarker(s.pending) /\ p \in Seq(Item)
  BY Zenon DEF QueueOk
<1>3. N \in SUBSET Nat /\ IsFiniteSet(N)
  <2>1. o \in SUBSET Nat /\ IsFiniteSet(o)
    BY Zenon DEF QueueOk
  <2>2. e.seq \in Nat
    BY ItemParts, Zenon
  <2>3. e.seq \notin o
    <3>1. ~(e.seq < e.seq)
      BY <2>2
    <3> QED  BY <3>1, Zenon
  <2>4. IsFiniteSet(N)
    BY <1>1, <2>1, <2>3, Zenon DEF SetFacts
  <2> QED  BY <1>1, <2>1, <2>2, <2>4, Zenon
<1>4. /\ s.pending \in Seq(Item) /\ Len(s.pending) \in Nat /\ s.pending_bytes \in Nat
      /\ s.limits.max_events \in Nat \ {0} /\ s.limits.max_bytes \in Nat \ {0}
  BY <1>2 DEF Subscription
<1>5. CASE ~Open(s)
  <2>1. Enqueued(s, e) = s
    BY <1>5, Zenon DEF Enqueued, Open
  <2>2. s.pending = <<>>
    BY <1>5, Zenon DEF QueueOk
  <2>3. QueueOk(s, N, p, P)
    BY <1>2, <1>3, <1>5, <2>2, Zenon DEF QueueOk
  <2> QED  BY <1>1, <2>1, <2>3, Zenon
<1>6. CASE Open(s) /\ Enqueued(s, e) = Closed(s)
  <2>1. PICK c : c = Closed(s)
    BY Zenon
  <2>2. /\ c \in Subscription /\ c.pending = <<>> /\ c.pending_bytes = 0 /\ c.closed
        /\ c.limits = s.limits /\ c.filter = s.filter /\ c.active = s.active
        /\ c.closing = s.closing
    <3>1. <<>> \in Seq(Item) /\ 0 \in Nat
      OBVIOUS
    <3> QED  BY <1>2, <2>1, <3>1, Zenon DEF Closed, Subscription
  <2>3. BooksOk(c)
    <3>1. Bytes(<<>>) = 0
      BY Zenon DEF BytesFacts
    <3>2. Len(<<>>) <= s.limits.max_events /\ 0 <= s.limits.max_bytes
      BY <1>4
    <3> QED  BY <2>2, <3>1, <3>2, Zenon DEF BooksOk
  <2>4. OneMarker(c.pending)
    <3>1. 1..Len(<<>>) = {}
      OBVIOUS
    <3> QED  BY <2>2, <3>1, Zenon DEF OneMarker
  <2>5. ~Open(c)
    BY <2>2, Zenon DEF Open
  <2>6. QueueOk(c, N, p, P)
    BY <1>2, <1>3, <2>2, <2>3, <2>4, <2>5, Zenon DEF QueueOk
  <2> QED  BY <1>1, <1>6, <2>1, <2>2, <2>6, Zenon
<1>7. CASE Open(s) /\ \E n, d, r, m, b : Appended(s, e, n, d, r, m, b)
  <2>1. PICK n, d, r, m, b : Appended(s, e, n, d, r, m, b)
    BY <1>7, Zenon
  <2>2. PICK q, t, c : q = s.pending /\ t = Append(m, e) /\ c = Enqueued(s, e)
    BY Zenon
  <2>3. LineOk(o, p, q, P)
    BY <1>7, <2>2, Zenon DEF QueueOk, LineOk
  <2>4. q \in Seq(Item) /\ n \in 0..Len(q) /\ d = Only(q, e, n) /\ r = Without(q, e, n)
    BY <1>4, <2>1, <2>2, Zenon DEF Appended
  <2>5. SplitOk(q, d, r, o, P)
    <3>1. ItemsOk(q, o, P) /\ PlainAscending(q) /\ OneMarker(q) /\ \A x \in P : x.count = 0
      BY <1>2, <2>2, <2>3, Zenon DEF LineOk
    <3> QED  BY <2>4, <3>1, DropSplits, Zenon
  <2>6. m = Marked(r, d)
    BY <2>1, Zenon DEF Appended
  <2>7. MarkedOk(m, r, d, o, P)
    BY <2>5, <2>6, MarkedKeeps, Zenon
  <2>8. LineOk(N, p, t, P) /\ OneMarker(t)
    <3>1. e \in Item /\ e.type # "loss" /\ e.count = 0 /\ o \in SUBSET Nat /\ IsFiniteSet(o)
      BY Zenon DEF QueueOk
    <3> QED  BY <1>1, <1>2, <2>2, <2>3, <2>4, <2>5, <2>7, <3>1, LineGrows, Zenon
  <2>9. m \in Seq(Item) /\ t \in Seq(Item) /\ Len(t) = Len(m) + 1 /\ Len(m) \in Nat
    <3>1. m \in Seq(Item)
      BY <2>7, Zenon DEF MarkedOk
    <3> QED  BY <2>2, <3>1
  <2>10. Bytes(t) = b + e.bytes /\ b + e.bytes \in Nat /\ b \in Nat /\ e.bytes \in Nat
    <3>1. /\ Bytes(q) = Bytes(d) + Bytes(r) /\ Bytes(m) = Bytes(r) + MarkedBytes(r, d)
          /\ d \in Seq(Item) /\ r \in Seq(Item)
      BY <2>5, <2>7, Zenon DEF SplitOk, MarkedOk
    <3>2. Bytes(Append(m, e)) = Bytes(m) + e.bytes
      BY <2>9, Zenon DEF BytesFacts
    <3>3. b = (Bytes(q) - Bytes(d)) + MarkedBytes(r, d)
      BY <1>2, <2>1, <2>2, Zenon DEF Appended, BooksOk
    <3>4. Bytes(d) \in Nat /\ Bytes(r) \in Nat /\ e.bytes \in Nat
      BY <3>1, ItemParts, Zenon DEF BytesFacts
    <3>5. MarkedBytes(r, d) \in Nat
      BY SubscriptionAssumption DEF MarkedBytes
    <3>6. PICK x, y, z, w \in Nat : /\ x = Bytes(d) /\ y = Bytes(r) /\ z = MarkedBytes(r, d)
                                   /\ w = e.bytes
      BY <3>4, <3>5, Zenon
    <3>7. b = ((x + y) - x) + z /\ Bytes(t) = (y + z) + w
      BY <2>2, <3>1, <3>2, <3>3, <3>6, Zenon
    <3>8. b = y + z
      BY <3>7
    <3> QED  BY <3>6, <3>7, <3>8
  <2>11. c = [s EXCEPT !.pending = t, !.pending_bytes = b + e.bytes]
    BY <2>1, <2>2, Zenon DEF Appended
  <2>12. /\ c \in Subscription /\ c.pending = t /\ c.pending_bytes = b + e.bytes
         /\ c.limits = s.limits /\ c.filter = s.filter /\ c.active = s.active
         /\ c.closed = s.closed /\ c.closing = s.closing
    BY <1>2, <2>9, <2>10, <2>11, Zenon DEF Subscription
  <2>13. Len(t) <= s.limits.max_events /\ b + e.bytes <= s.limits.max_bytes
    <3>1. ~(Len(m) >= s.limits.max_events) /\ ~(b > s.limits.max_bytes - e.bytes)
      BY <2>1, Zenon DEF Appended
    <3> QED  BY <1>4, <2>9, <2>10, <3>1, SMTT(30)
  <2>14. BooksOk(c)
    BY <2>10, <2>12, <2>13, Zenon DEF BooksOk
  <2>15. Open(c)
    BY <1>7, <2>12, Zenon DEF Open
  <2>16. QueueOk(c, N, p, P)
    BY <1>2, <1>3, <2>8, <2>12, <2>14, <2>15, Zenon DEF QueueOk, LineOk
  <2> QED  BY <1>1, <2>2, <2>12, <2>16, Zenon
<1> QED  BY <1>4, <1>5, <1>6, <1>7, EnqueuedOutcome, Zenon

(* So does taking an event for delivery.                                    *)
Popped(s) == [s EXCEPT !.pending = Tail(s.pending), !.active = s.active + 1,
                       !.pending_bytes = s.pending_bytes - s.pending[1].bytes]

LEMMA PopKeeps ==
  ASSUME BytesFacts, CountsFacts, NEW s, NEW o, NEW p, NEW P, QueueOk(s, o, p, P),
         Open(s), s.pending # <<>>
  PROVE  QueueOk(Popped(s), o, Append(p, s.pending[1]), P)
<1>1. PICK q, r, x, u : q = s.pending /\ r = Tail(s.pending) /\ x = s.pending[1] /\ u = Append(p, x)
  BY Zenon
<1>2. s \in Subscription /\ BooksOk(s) /\ OneMarker(q) /\ p \in Seq(Item) /\ LineOk(o, p, q, P)
      /\ o \in SUBSET Nat /\ IsFiniteSet(o)
  BY <1>1, Zenon DEF QueueOk, LineOk
<1>3. q \in Seq(Item) /\ s.pending_bytes \in Nat /\ s.active \in Int
      /\ s.limits.max_events \in Nat /\ s.limits.max_bytes \in Nat
  BY <1>1, <1>2 DEF Subscription
<1>4. r \in Seq(Item) /\ x \in Item /\ x = q[1] /\ Len(q) = Len(r) + 1 /\ Len(r) \in Nat
  BY <1>1, <1>3
<1>a. \A i \in 1..Len(r) : r[i] = q[i + 1]
  BY <1>1, <1>3
<1>b. \A i \in 1..Len(q) : i = 1 \/ \E j \in 1..Len(r) : i = j + 1
  <2>1. \A i \in 1..Len(q) : i = 1 \/ (i - 1 \in 1..Len(r) /\ i = (i - 1) + 1)
    BY <1>4
  <2> QED  BY <2>1, Zenon
<1>c. 1 \in 1..Len(q) /\ \A i \in 1..Len(r) : i + 1 \in 1..Len(q) /\ 1 < i + 1
  BY <1>4
<1>d. \A i, j \in 1..Len(r) : i < j => i + 1 < j + 1
  OBVIOUS
<1>e. \A i, j \in 1..Len(r) : i + 1 = j + 1 => i = j
  OBVIOUS
<1>5. /\ u \in Seq(Item) /\ Len(u) = Len(p) + 1 /\ u[Len(u)] = x /\ Len(p) \in Nat
      /\ \A i \in 1..Len(p) : u[i] = p[i] /\ i < Len(u) /\ ~(Len(u) < i)
      /\ \A i \in 1..Len(u) : i \in 1..Len(p) \/ i = Len(u)
      /\ Len(u) \in 1..Len(u) /\ ~(Len(u) < Len(u)) /\ \A i \in 1..Len(p) : i \in 1..Len(u)
  <2>1. /\ u \in Seq(Item) /\ Len(u) = Len(p) + 1 /\ u[Len(u)] = x /\ Len(p) \in Nat
        /\ \A i \in 1..Len(p) : u[i] = p[i]
    BY <1>1, <1>2, <1>4
  <2>2. \A i \in 1..Len(p) : i < Len(u) /\ ~(Len(u) < i) /\ i \in 1..Len(u)
    BY <2>1
  <2>3. \A i \in 1..Len(u) : i \in 1..Len(p) \/ i = Len(u)
    BY <2>1
  <2>4. Len(u) \in 1..Len(u) /\ ~(Len(u) < Len(u))
    BY <2>1
  <2> QED  BY <2>1, <2>2, <2>3, <2>4, Zenon
<1>6. \A y : y \in Range(q) <=> y \in Range(r) \/ y = x
  <2>1. /\ \A y : y \in Range(q) <=> \E i \in 1..Len(q) : q[i] = y
        /\ \A y : y \in Range(r) <=> \E i \in 1..Len(r) : r[i] = y
    BY <1>3, <1>4, QueueMembers, Zenon
  <2>2. \A i \in 1..Len(q) : q[i] = x \/ \E j \in 1..Len(r) : q[i] = r[j]
    BY <1>4, <1>a, <1>b, Zenon
  <2>3. \A j \in 1..Len(r) : \E i \in 1..Len(q) : q[i] = r[j]
    BY <1>a, <1>c, Zenon
  <2>4. \E i \in 1..Len(q) : q[i] = x
    BY <1>4, <1>c, Zenon
  <2> QED  BY <2>1, <2>2, <2>3, <2>4, Zenon
<1>7. \A y : y \in Range(u) <=> y \in Range(p) \/ y = x
  <2>1. /\ \A y : y \in Range(u) <=> \E i \in 1..Len(u) : u[i] = y
        /\ \A y : y \in Range(p) <=> \E i \in 1..Len(p) : p[i] = y
    BY <1>2, <1>5, QueueMembers, Zenon
  <2> QED  BY <1>5, <2>1, Zenon
<1>8. ItemsOk(u, o, P) /\ ItemsOk(r, o, P)
  <2>1. (\A y \in Range(p) : Fine(y, o, P)) /\ (\A y \in Range(q) : Fine(y, o, P))
    BY <1>2, <1>3, QueueMembers, Zenon DEF LineOk
  <2>2. (\A y \in Range(u) : Fine(y, o, P)) /\ (\A y \in Range(r) : Fine(y, o, P))
    BY <1>6, <1>7, <2>1, Zenon
  <2> QED  BY <1>4, <1>5, <2>2, QueueMembers, Zenon
<1>9. \A i \in Plain(r) : i \in 1..Len(r) /\ i + 1 \in Plain(q) /\ r[i] = q[i + 1]
  BY <1>a, <1>c, Zenon DEF Plain
<1>10. PlainAscending(r)
  <2>1. \A i, j \in Plain(q) : i < j => q[i].seq < q[j].seq
    BY <1>2, Zenon DEF PlainAscending, LineOk
  <2> QED  BY <1>9, <1>d, <2>1, Zenon DEF PlainAscending
<1>11. OneMarker(r)
  <2>1. \A i \in 1..Len(r) \ Plain(r) : i + 1 \in 1..Len(q) \ Plain(q)
    BY <1>a, <1>c, Zenon DEF Plain
  <2>2. \A i, j \in 1..Len(r) \ Plain(r) : i + 1 = j + 1
    BY <1>2, <2>1, Zenon DEF OneMarker
  <2> QED  BY <1>e, <2>2, Zenon DEF OneMarker
<1>12. \A i : i \in Plain(u) <=> i \in Plain(p) \/ (i = Len(u) /\ x.type # "loss")
  BY <1>5, Zenon DEF Plain
<1>13. \A i \in Plain(p) : u[i] = p[i] /\ i < Len(u) /\ ~(Len(u) < i)
  BY <1>5, Zenon DEF Plain
<1>14. x.type # "loss" => 1 \in Plain(q)
  BY <1>4, <1>c, Zenon DEF Plain
<1>15. x.type # "loss" => \A i \in Plain(p) : p[i].seq < x.seq
  BY <1>2, <1>4, <1>14, Zenon DEF LineOk, PlainAfter
<1>16. x.type # "loss" => \A j \in Plain(r) : x.seq < r[j].seq
  <2>1. \A i, j \in Plain(q) : i < j => q[i].seq < q[j].seq
    BY <1>2, Zenon DEF PlainAscending, LineOk
  <2> QED  BY <1>4, <1>9, <1>14, <1>c, <2>1, Zenon
<1>17. PlainAscending(u)
  <2>1. ASSUME NEW i \in Plain(u), NEW j \in Plain(u), i < j  PROVE u[i].seq < u[j].seq
    <3>1. i \in Plain(p)
      <4>1. SUFFICES ASSUME i = Len(u)  PROVE FALSE
        BY <1>12, <2>1, Zenon
      <4>2. j \in Plain(p) \/ j = Len(u)
        BY <1>12, <2>1, Zenon
      <4>3. ~(Len(u) < Len(u)) /\ Len(u) < j
        BY <1>5, <2>1, <4>1, Zenon
      <4> QED  BY <1>13, <4>2, <4>3, Zenon
    <3>2. CASE j \in Plain(p)
      BY <1>2, <1>13, <2>1, <3>1, <3>2, Zenon DEF LineOk, PlainAscending
    <3>3. CASE j = Len(u) /\ x.type # "loss"
      BY <1>5, <1>13, <1>15, <3>1, <3>3, Zenon
    <3> QED  BY <1>12, <2>1, <3>2, <3>3, Zenon
  <2> QED  BY <2>1, Zenon DEF PlainAscending
<1>18. PlainAfter(u, r)
  <2>1. ASSUME NEW i \in Plain(u), NEW j \in Plain(r)  PROVE u[i].seq < r[j].seq
    <3>1. CASE i \in Plain(p)
      BY <1>2, <1>9, <1>13, <2>1, <3>1, Zenon DEF LineOk, PlainAfter
    <3>2. CASE i = Len(u) /\ x.type # "loss"
      BY <1>5, <1>16, <2>1, <3>2, Zenon
    <3> QED  BY <1>12, <2>1, <3>1, <3>2, Zenon
  <2> QED  BY <2>1, Zenon DEF PlainAfter
<1>19. Missing(o, u, r) = Missing(o, p, q)
  <2>1. /\ \A n : n \in SeqNumbers(u) <=> \E y \in Range(u) : y.type # "loss" /\ y.seq = n
        /\ \A n : n \in SeqNumbers(p) <=> \E y \in Range(p) : y.type # "loss" /\ y.seq = n
    BY <1>2, <1>5, QueueMembers, Zenon
  <2>2. /\ \A n : n \in SeqNumbers(q) <=> \E y \in Range(q) : y.type # "loss" /\ y.seq = n
        /\ \A n : n \in SeqNumbers(r) <=> \E y \in Range(r) : y.type # "loss" /\ y.seq = n
    BY <1>3, <1>4, QueueMembers, Zenon
  <2>3. /\ \A n : n \in SeqNumbers(u) <=> n \in SeqNumbers(p) \/ (x.type # "loss" /\ n = x.seq)
    BY <1>7, <2>1, Zenon
  <2>4. /\ \A n : n \in SeqNumbers(q) <=> n \in SeqNumbers(r) \/ (x.type # "loss" /\ n = x.seq)
    BY <1>6, <2>2, Zenon
  <2>5. SeqNumbers(u) \cup SeqNumbers(r) = SeqNumbers(p) \cup SeqNumbers(q)
    <3>1. \A n : n \in SeqNumbers(u) \/ n \in SeqNumbers(r) <=>
                   n \in SeqNumbers(p) \/ n \in SeqNumbers(q)
      BY <2>3, <2>4, Zenon
    <3> QED  BY <3>1, Zenon
  <2> QED  BY <2>5, Zenon DEF Missing
<1>20. \A n : Told(n, p, q) <=> Told(n, u, r)
  <2>1. \A y : y \in Range(p) \cup Range(q) <=> y \in Range(u) \cup Range(r)
    BY <1>6, <1>7, Zenon
  <2>2. Range(p) \cup Range(q) = Range(u) \cup Range(r)
    BY <2>1, Zenon
  <2> QED  BY <2>2, Zenon DEF Told
<1>21. Counts(u) + Counts(r) = Counts(p) + Counts(q)
  <2>1. Counts(u) = Counts(p) + x.count
    BY <1>1, <1>2, <1>4, Zenon DEF CountsFacts
  <2>2. Counts(q) = Counts(r) + x.count
    <3>1. Counts(q) = Counts(Tail(q)) + q[1].count
      BY <1>1, <1>3, Zenon DEF CountsFacts
    <3> QED  BY <1>1, <3>1, Zenon
  <2>3. PICK a, b, c \in Nat : a = Counts(p) /\ b = Counts(r) /\ c = x.count
    BY <1>2, <1>4, ItemParts, Zenon DEF CountsFacts
  <2>4. Counts(u) = a + c /\ Counts(q) = b + c
    BY <2>1, <2>2, <2>3, Zenon
  <2>5. (a + c) + b = a + (b + c)
    OBVIOUS
  <2> QED  BY <2>3, <2>4, <2>5, Zenon
<1>22. LossOk(o, u, r, P)
  BY <1>2, <1>19, <1>20, <1>21, Zenon DEF LineOk, LossOk
<1>23. LineOk(o, u, r, P)
  BY <1>8, <1>10, <1>17, <1>18, <1>22, Zenon DEF LineOk
<1>24. /\ s.pending_bytes - x.bytes = Bytes(r) /\ Bytes(r) \in Nat
       /\ Bytes(r) <= s.limits.max_bytes /\ Len(r) <= s.limits.max_events
  <2>1. Bytes(q) = Bytes(r) + x.bytes
    <3>1. Bytes(q) = Bytes(Tail(q)) + q[1].bytes
      BY <1>1, <1>3, Zenon DEF BytesFacts
    <3> QED  BY <1>1, <3>1, Zenon
  <2>2. PICK a, b \in Nat : a = Bytes(r) /\ b = x.bytes
    BY <1>4, ItemParts, Zenon DEF BytesFacts
  <2>3. s.pending_bytes = Bytes(q) /\ s.pending_bytes <= s.limits.max_bytes
        /\ Len(q) <= s.limits.max_events
    BY <1>1, <1>2, Zenon DEF BooksOk
  <2>4. s.pending_bytes = a + b
    BY <2>1, <2>2, <2>3, Zenon
  <2>5. s.pending_bytes - b = a /\ a <= s.limits.max_bytes /\ Len(r) <= s.limits.max_events
    BY <1>3, <1>4, <2>3, <2>4
  <2> QED  BY <2>2, <2>5, Zenon
<1>25. PICK c : c = Popped(s)
  BY Zenon
<1>26. c = [s EXCEPT !.pending = r, !.active = s.active + 1, !.pending_bytes = Bytes(r)]
  BY <1>1, <1>24, <1>25, Zenon DEF Popped
<1>27. /\ c \in Subscription /\ c.pending = r /\ c.pending_bytes = Bytes(r)
       /\ c.limits = s.limits /\ c.closed = s.closed /\ c.closing = s.closing
  <2>1. s.active + 1 \in Int
    BY <1>3
  <2> QED  BY <1>2, <1>4, <1>24, <1>26, <2>1, Zenon DEF Subscription
<1>28. BooksOk(c)
  BY <1>24, <1>27, Zenon DEF BooksOk
<1>29. Open(c)
  BY <1>27, Zenon DEF Open
<1>30. QueueOk(c, o, u, P)
  BY <1>2, <1>5, <1>11, <1>23, <1>27, <1>28, <1>29, Zenon DEF QueueOk, LineOk
<1> QED  BY <1>1, <1>25, <1>30, Zenon

-----------------------------------------------------------------------------
(* The other changes of one subscription.                                   *)

LEMMA QueueMorePublished ==
  ASSUME NEW s, NEW o, NEW p, NEW P, NEW Q, P \subseteq Q, QueueOk(s, o, p, P)
  PROVE  QueueOk(s, o, p, Q)
<1>1. \A q : ItemsOk(q, o, P) => ItemsOk(q, o, Q)
  BY Zenon DEF ItemsOk
<1>2. LossOk(o, p, s.pending, P) => LossOk(o, p, s.pending, Q)
  BY Zenon DEF LossOk
<1> QED  BY <1>1, <1>2, Zenon DEF QueueOk

(* active changes.                                                          *)
WithActive(s, n) == [s EXCEPT !.active = n]

LEMMA ActiveKeeps ==
  ASSUME NEW s, NEW o, NEW p, NEW P, QueueOk(s, o, p, P), NEW n \in Int
  PROVE  /\ QueueOk(WithActive(s, n), o, p, P)
         /\ WithActive(s, n).filter = s.filter /\ WithActive(s, n).active = n
         /\ WithActive(s, n).closed = s.closed
         /\ WithActive(s, n).closing = s.closing
<1>1. PICK c : c = WithActive(s, n)
  BY Zenon
<1>2. s \in Subscription
  BY Zenon DEF QueueOk
<1>3. /\ c \in Subscription /\ c.filter = s.filter /\ c.limits = s.limits /\ c.active = n
      /\ c.pending = s.pending /\ c.pending_bytes = s.pending_bytes
      /\ c.closed = s.closed /\ c.closing = s.closing
  BY <1>1, <1>2, Zenon DEF Subscription, WithActive
<1>4. BooksOk(c) /\ (Open(c) <=> Open(s))
  BY <1>3, Zenon DEF BooksOk, Open, QueueOk
<1>5. QueueOk(c, o, p, P)
  BY <1>3, <1>4, Zenon DEF QueueOk
<1> QED  BY <1>1, <1>3, <1>5, Zenon

(* close empties the queue.                                                 *)
Cleared(s) == [s EXCEPT !.closing = TRUE, !.pending = <<>>, !.pending_bytes = 0]

LEMMA ClearKeeps ==
  ASSUME BytesFacts, NEW s, NEW o, NEW p, NEW P, QueueOk(s, o, p, P)
  PROVE  /\ QueueOk(Cleared(s), o, p, P) /\ Cleared(s).closing
         /\ Cleared(s).filter = s.filter /\ Cleared(s).active = s.active
         /\ Cleared(s).closed = s.closed
<1>1. PICK c : c = Cleared(s)
  BY Zenon
<1>2. s \in Subscription
  BY Zenon DEF QueueOk
<1>3. s.limits.max_events \in Nat /\ s.limits.max_bytes \in Nat
  BY <1>2 DEF Subscription
<1>4. <<>> \in Seq(Item) /\ 0 \in Nat /\ Len(<<>>) = 0 /\ 1..Len(<<>>) = {}
  OBVIOUS
<1>5. /\ c \in Subscription /\ c.filter = s.filter /\ c.limits = s.limits /\ c.active = s.active
      /\ c.pending = <<>> /\ c.pending_bytes = 0 /\ c.closed = s.closed /\ c.closing
  BY <1>1, <1>2, <1>4, Zenon DEF Subscription, Cleared
<1>6. 0 <= s.limits.max_events /\ 0 <= s.limits.max_bytes
  BY <1>3
<1>7. BooksOk(c) /\ OneMarker(c.pending) /\ ~Open(c)
  <2>1. Bytes(<<>>) = 0
    BY Zenon DEF BytesFacts
  <2> QED  BY <1>4, <1>5, <1>6, <2>1, Zenon DEF BooksOk, OneMarker, Open
<1>8. QueueOk(c, o, p, P)
  BY <1>5, <1>7, Zenon DEF QueueOk
<1> QED  BY <1>1, <1>5, <1>8, Zenon

(* A subscription that is being closed is closed.                           *)
Shut(s) == [s EXCEPT !.closed = TRUE]

LEMMA ClosedKeeps ==
  ASSUME NEW s, NEW o, NEW p, NEW P, QueueOk(s, o, p, P), s.closing
  PROVE  /\ QueueOk(Shut(s), o, p, P) /\ Shut(s).closing /\ Shut(s).closed
         /\ Shut(s).filter = s.filter /\ Shut(s).active = s.active
<1>1. PICK c : c = Shut(s)
  BY Zenon
<1>2. s \in Subscription
  BY Zenon DEF QueueOk
<1>3. /\ c \in Subscription /\ c.filter = s.filter /\ c.limits = s.limits /\ c.active = s.active
      /\ c.pending = s.pending /\ c.pending_bytes = s.pending_bytes /\ c.closed
      /\ c.closing = s.closing
  BY <1>1, <1>2, Zenon DEF Subscription, Shut
<1>4. BooksOk(c) /\ ~Open(c) /\ s.pending = <<>>
  BY <1>3, Zenon DEF BooksOk, Open, QueueOk
<1>5. QueueOk(c, o, p, P)
  BY <1>3, <1>4, Zenon DEF QueueOk
<1> QED  BY <1>1, <1>3, <1>5, Zenon

(* A new subscription.                                                      *)
NewSubscription(f, l) ==
  [filter |-> f, limits |-> l, pending |-> <<>>, pending_bytes |-> 0, active |-> 0,
   closing |-> FALSE, closed |-> FALSE]

LEMMA NewKeeps ==
  ASSUME BytesFacts, CountsFacts, SetFacts, NEW f \in Filters, NEW l \in Limits, NEW P
  PROVE  QueueOk(NewSubscription(f, l), {}, <<>>, P)
<1>1. PICK c : c = NewSubscription(f, l)
  BY Zenon
<1>2. f \in Filter /\ l \in [max_events : Nat \ {0}, max_bytes : Nat \ {0}]
  BY SubscriptionAssumption, Zenon
<1>3. l.max_events \in Nat \ {0} /\ l.max_bytes \in Nat \ {0}
  BY <1>2
<1>4. <<>> \in Seq(Item) /\ 0 \in Nat /\ 0 \in Int /\ Len(<<>>) = 0 /\ 1..Len(<<>>) = {}
  OBVIOUS
<1>5. /\ c \in Subscription /\ c.limits = l /\ c.pending = <<>> /\ c.pending_bytes = 0
      /\ c.closed = FALSE /\ c.closing = FALSE
  BY <1>1, <1>2, <1>4, Zenon DEF Subscription, NewSubscription
<1>6. Bytes(<<>>) = 0 /\ Counts(<<>>) = 0 /\ Cardinality({}) = 0 /\ IsFiniteSet({})
  BY Zenon DEF BytesFacts, CountsFacts, SetFacts
<1>7. 0 <= l.max_events /\ 0 <= l.max_bytes /\ 0 + 0 = 0
  BY <1>3
<1>8. BooksOk(c)
  BY <1>4, <1>5, <1>6, <1>7, Zenon DEF BooksOk
<1>9. Plain(<<>>) = {} /\ OneMarker(<<>>) /\ ItemsOk(<<>>, {}, P)
  BY <1>4, Zenon DEF Plain, OneMarker, ItemsOk
<1>10. PlainAscending(<<>>) /\ PlainAfter(<<>>, <<>>)
  BY <1>9, Zenon DEF PlainAscending, PlainAfter
<1>11. Missing({}, <<>>, <<>>) = {}
  BY Zenon DEF Missing
<1>12. LossOk({}, <<>>, <<>>, P)
  BY <1>6, <1>7, <1>11, Zenon DEF LossOk
<1>13. {} \in SUBSET Nat
  BY Zenon
<1>14. QueueOk(c, {}, <<>>, P)
  BY <1>4, <1>5, <1>6, <1>8, <1>9, <1>10, <1>12, <1>13, Zenon DEF QueueOk
<1> QED  BY <1>1, <1>14, Zenon

-----------------------------------------------------------------------------
(* What the steps have in common.                                           *)

IsUpdate(r, q, k, x, T) ==
  /\ r \in Seq(T) /\ Len(r) = Len(q) /\ r[k] = x
  /\ \A i \in 1..Len(q) : i # k => r[i] = q[i]

LEMMA SeqUpdate ==
  ASSUME NEW T, NEW q \in Seq(T), NEW k \in 1..Len(q), NEW x \in T
  PROVE  IsUpdate([q EXCEPT ![k] = x], q, k, x, T)
BY DEF IsUpdate

LEMMA SeqSame ==
  ASSUME NEW T, NEW q \in Seq(T), NEW k \in 1..Len(q)
  PROVE  q[k] \in T /\ [q EXCEPT ![k] = q[k]] = q
OBVIOUS

(* No subscription appears; what there is keeps its filter.                 *)
SameTable ==
  /\ Len(subs') = Len(subs) /\ Ids' = Ids
  /\ \A i \in Ids : subs'[i].filter = subs[i].filter /\ (subs[i].closing => subs'[i].closing)

(* Only subscription k changes.                                             *)
OneChanges(k, s, o, p) ==
  /\ subs' = [subs EXCEPT ![k] = s]
  /\ offered' = [offered EXCEPT ![k] = o]
  /\ popped' = [popped EXCEPT ![k] = p]
  /\ born' = born /\ next_subscription_id' = next_subscription_id /\ published' = published
  /\ subscriptions' \subseteq subscriptions

(* The numbers of the subscriptions.                                        *)
LEMMA TableLookup ==
  ASSUME TableInv, NEW k \in Ids
  PROVE  /\ k \in 1..Len(subs) /\ k \in 1..Len(offered) /\ k \in 1..Len(popped)
         /\ subs \in Seq(Subscription) /\ offered \in Seq(SUBSET Nat) /\ popped \in Seq(Seq(Item))
BY DEF TableInv, Ids

LEMMA OneKeeps ==
  ASSUME TableInv, QueuesInv, NEW k \in Ids, NEW s, NEW o, NEW p, OneChanges(k, s, o, p),
         QueueOk(s, o, p, published), s.filter = subs[k].filter,
         subs[k].closing => s.closing, returned' \subseteq Ids
  PROVE  /\ TableInv' /\ QueuesInv' /\ SameTable
         /\ subs'[k] = s /\ offered'[k] = o /\ popped'[k] = p
         /\ \A i \in Ids : i # k => /\ subs'[i] = subs[i] /\ offered'[i] = offered[i]
                                    /\ popped'[i] = popped[i]
<1>1. /\ k \in 1..Len(subs) /\ k \in 1..Len(offered) /\ k \in 1..Len(popped)
      /\ subs \in Seq(Subscription) /\ offered \in Seq(SUBSET Nat) /\ popped \in Seq(Seq(Item))
  BY TableLookup, Zenon
<1>2. s \in Subscription /\ o \in SUBSET Nat /\ p \in Seq(Item)
  BY Zenon DEF QueueOk
<1>3. /\ subs' \in Seq(Subscription) /\ Len(subs') = Len(subs) /\ subs'[k] = s
      /\ \A i \in 1..Len(subs) : i # k => subs'[i] = subs[i]
  <2>1. IsUpdate([subs EXCEPT ![k] = s], subs, k, s, Subscription)
    BY <1>1, <1>2, SeqUpdate, Zenon
  <2> QED  BY <2>1, Zenon DEF IsUpdate, OneChanges
<1>4. /\ offered' \in Seq(SUBSET Nat) /\ Len(offered') = Len(offered) /\ offered'[k] = o
      /\ \A i \in 1..Len(offered) : i # k => offered'[i] = offered[i]
  <2>1. IsUpdate([offered EXCEPT ![k] = o], offered, k, o, SUBSET Nat)
    BY <1>1, <1>2, SeqUpdate, Zenon
  <2> QED  BY <2>1, Zenon DEF IsUpdate, OneChanges
<1>5. /\ popped' \in Seq(Seq(Item)) /\ Len(popped') = Len(popped) /\ popped'[k] = p
      /\ \A i \in 1..Len(popped) : i # k => popped'[i] = popped[i]
  <2>1. IsUpdate([popped EXCEPT ![k] = p], popped, k, p, Seq(Item))
    BY <1>1, <1>2, SeqUpdate, Zenon
  <2> QED  BY <2>1, Zenon DEF IsUpdate, OneChanges
<1>6. Ids' = Ids
  BY <1>3, Zenon DEF Ids
<1>7. \A i \in Ids : i # k => /\ subs'[i] = subs[i] /\ offered'[i] = offered[i]
                              /\ popped'[i] = popped[i]
  BY <1>3, <1>4, <1>5, Zenon DEF Ids, TableInv
<1>8. TableInv'
  BY <1>3, <1>4, <1>5, <1>6, Zenon DEF TableInv, OneChanges
<1>9. QueuesInv'
  <2>1. ASSUME NEW i \in Ids  PROVE QueueOk(subs'[i], offered'[i], popped'[i], published)
    BY <1>3, <1>4, <1>5, <1>7, Zenon DEF QueuesInv
  <2> QED  BY <1>6, <2>1, Zenon DEF QueuesInv, OneChanges
<1>10. SameTable
  BY <1>3, <1>6, <1>7, Zenon DEF SameTable
<1> QED  BY <1>3, <1>4, <1>5, <1>7, <1>8, <1>9, <1>10, Zenon

(* The table stays; a subscription may be erased, events published.         *)
NoneChanges ==
  /\ subs' = subs /\ offered' = offered /\ popped' = popped /\ born' = born
  /\ next_subscription_id' = next_subscription_id /\ returned' = returned
  /\ published \subseteq published' /\ subscriptions' \subseteq subscriptions

LEMMA NoneKeeps ==
  ASSUME TableInv, QueuesInv, NoneChanges
  PROVE  TableInv' /\ QueuesInv' /\ SameTable
<1>1. Ids' = Ids
  BY Zenon DEF Ids, NoneChanges
<1>2. TableInv'
  BY <1>1, Zenon DEF TableInv, NoneChanges
<1>3. SameTable
  BY <1>1, Zenon DEF SameTable, NoneChanges
<1>4. \A i \in Ids : QueueOk(subs[i], offered[i], popped[i], published')
  BY QueueMorePublished, Zenon DEF QueuesInv, NoneChanges
<1>5. QueuesInv'
  BY <1>1, <1>4, Zenon DEF QueuesInv, NoneChanges
<1> QED  BY <1>2, <1>3, <1>5, Zenon

(* One thread goes on.                                                      *)
LEMMA StepLookup ==
  ASSUME CallsInv, NEW t \in Threads, NEW c, Step(t, c)
  PROVE  /\ call' = [u \in Threads |-> call'[u]] /\ call'[t] = c
         /\ \A u \in Threads : u # t => call'[u] = call[u]
<1>1. call = [u \in Threads |-> call[u]] /\ call' = [call EXCEPT ![t] = c]
  BY Zenon DEF CallsInv, Step
<1> QED  BY <1>1

Busy(c) == c.pc \in {"registry", "enqueue"}

LEMMA CallsKept ==
  ASSUME CallsInv, NEW t \in Threads, NEW c, Step(t, c), SameTable, CallOk(c, subs'),
         Busy(c) <=> dispatcher' = t,
         \A u \in Threads : u # t => (dispatcher' = u <=> dispatcher = u)
  PROVE  CallsInv'
<1>1. /\ call' = [u \in Threads |-> call'[u]] /\ call'[t] = c
      /\ \A u \in Threads : u # t => call'[u] = call[u]
  BY StepLookup, Zenon
<1>2. ASSUME NEW x, CallOk(x, subs)  PROVE CallOk(x, subs')
  BY <1>2, Zenon DEF CallOk, SameTable, Ids
<1>3. \A u \in Threads : CallOk(call'[u], subs')
  BY <1>1, <1>2, Zenon DEF CallsInv
<1>4. \A u \in Threads : Busy(call'[u]) <=> dispatcher' = u
  BY <1>1, Zenon DEF CallsInv, Busy
<1> QED  BY <1>1, <1>3, <1>4, Zenon DEF CallsInv, Busy

(* The store and dispatch are left alone, except for what is published.     *)
BusyKept == \A u \in Threads : Busy(call[u]) \/ Busy(call'[u]) => call'[u] = call[u]

LEMMA DispatchKept ==
  ASSUME CallsInv, TableInv, DispatchInv, Grows, SameTable, BusyKept,
         last_seen' = last_seen, offered' = offered, born' = born,
         subscriptions' \subseteq subscriptions
  PROVE  DispatchInv'
<1>1. \A u \in Threads :
        call[u].pc = "enqueue" \/ call'[u].pc = "enqueue" => call'[u] = call[u]
  BY DEF Busy, BusyKept
<1>2. /\ last_seen \in Nat /\ next_sequence \in Nat
      /\ last_seen < next_sequence /\ last_seen < next_sequence'
  BY DEF DispatchInv, Grows
<1>3. ASSUME NEW u \in Threads, call'[u].pc = "registry"  PROVE CollectedOk(call[u])'
  <2>1. PICK x : x = call[u] /\ x = call'[u]
    BY <1>3, Zenon DEF Busy, BusyKept
  <2>2. CollectedOk(x) /\ x.latest \in Nat
    <3>0. call[u].pc = "registry" => CollectedOk(call[u])
      BY Zenon DEF DispatchInv
    <3>1. CollectedOk(x)
      BY <1>3, <2>1, <3>0, Zenon
    <3>2. CallOk(x, subs)
      BY <2>1, Zenon DEF CallsInv
    <3> QED  BY <1>3, <2>1, <3>1, <3>2, Zenon DEF CallOk
  <2>3. x.latest < next_sequence' /\ \A e : e.seq = next_sequence => ~(e.seq <= x.latest)
    BY <2>2 DEF CollectedOk, Grows
  <2>4. \A e \in Range(events') :
          last_seen < e.seq /\ e.seq <= x.latest => e \in Range(x.events)
    BY <2>2, <2>3, Zenon DEF CollectedOk, Grows
  <2>5. CollectedOk(x)'
    BY <2>2, <2>3, <2>4, Zenon DEF CollectedOk, Grows
  <2> QED  BY <2>1, <2>5, Zenon DEF CollectedOk
<1>4. ASSUME NEW u \in Threads, call'[u].pc = "enqueue"  PROVE WorkOk(call[u])'
  <2>1. PICK x : x = call[u] /\ x = call'[u]
    BY <1>1, <1>4, Zenon
  <2>2. WorkOk(x)
    <3>1. call[u].pc = "enqueue" => WorkOk(call[u])
      BY Zenon DEF DispatchInv
    <3> QED  BY <1>4, <2>1, <3>1, Zenon
  <2>3. \A w \in x.work : w[2] \in Ids
    BY <2>2 DEF WorkOk
  <2>4. WorkOk(x)'
    BY <2>2, <2>3, Zenon DEF WorkOk, Grows, SameTable
  <2> QED  BY <2>1, <2>4, Zenon DEF WorkOk
<1>5. ASSUME NEW i \in Ids', NEW n \in offered'[i]
      PROVE  n <= last_seen' /\ \E e \in published' : e.seq = n /\ Matches(subs'[i].filter, e)
  <2>1. i \in Ids /\ n \in offered[i] /\ subs'[i].filter = subs[i].filter
    BY <1>5, Zenon DEF SameTable
  <2>2. n <= last_seen /\ \E e \in published : e.seq = n /\ Matches(subs[i].filter, e)
    BY <2>1, Zenon DEF DispatchInv
  <2> QED  BY <2>1, <2>2, Zenon DEF Grows
<1>6. ASSUME NEW i \in subscriptions', NEW e \in Range(events'),
             born'[i] <= e.seq, e.seq <= last_seen', Matches(subs'[i].filter, e)
      PROVE  Reaches(e, i)'
  <2>1. i \in subscriptions /\ i \in Ids /\ subs'[i].filter = subs[i].filter
    BY <1>6, Zenon DEF SameTable, TableInv
  <2>2. e \in Range(events)
    <3>1. e.seq # next_sequence
      BY <1>2, <1>6
    <3> QED  BY <1>6, <3>1, Zenon DEF Grows
  <2>3. Reaches(e, i)
    BY <1>6, <2>1, <2>2, Zenon DEF DispatchInv
  <2>4. CASE e.seq \in offered[i]
    BY <2>4, Zenon DEF Reaches
  <2>5. CASE \E u \in Threads : /\ call[u].pc = "enqueue"
                                /\ \E w \in call[u].work : w[2] = i /\ call[u].events[w[1]] = e
    BY <1>1, <2>5, ZenonT(60) DEF Reaches
  <2> QED  BY <2>3, <2>4, <2>5, Zenon DEF Reaches
<1>7. last_seen' \in Nat /\ last_seen' < next_sequence'
  BY <1>2, Zenon
<1> QED  BY <1>3, <1>4, <1>5, <1>6, <1>7, Zenon DEF DispatchInv

(* No delivery begins or ends.                                              *)
LEMMA DeliveriesKept ==
  ASSUME CloseFinal, CallsInv, TableInv, SameTable, NEW t \in Threads, NEW c, Step(t, c),
         InCallback(c) <=> InCallback(call[t]), InCallback(c) => c.sub = call[t].sub,
         \A i \in Ids : subs'[i].active = subs[i].active /\ (subs[i].closed => subs'[i].closed),
         returned' = returned
  PROVE  CloseFinal' /\ \A i : Delivering(i)' = Delivering(i)
<1>1. /\ call'[t] = c /\ \A u \in Threads : u # t => call'[u] = call[u]
  BY StepLookup, Zenon
<1>2. ASSUME NEW i  PROVE Delivering(i)' = Delivering(i)
  <2>1. \A u \in Threads : InCallback(call'[u]) /\ call'[u].sub = i <=>
                           InCallback(call[u]) /\ call[u].sub = i
    BY <1>1, Zenon
  <2> QED  BY <2>1, Zenon DEF Delivering
<1>3. \A i \in returned : i \in Ids
  BY Zenon DEF TableInv
<1>4. CloseFinal'
  BY <1>2, <1>3, Zenon DEF CloseFinal, SameTable
<1> QED  BY <1>2, <1>4, Zenon

-----------------------------------------------------------------------------
(* The steps *)

QueueFacts == BytesFacts /\ CountsFacts /\ KeepFacts /\ SetFacts

LEMMA StoreKept == ASSUME StoreInv, UNCHANGED storeVars  PROVE StoreInv' /\ Grows
<1>1. events' = events /\ next_sequence' = next_sequence /\ stored_bytes' = stored_bytes
      /\ published' = published
  BY DEF storeVars
<1>2. LogExact' <=> LogExact
  BY <1>1, Zenon DEF LogExact
<1>3. StoreInv'
  BY <1>1, <1>2, Zenon DEF StoreInv
<1>4. next_sequence \in Nat /\ next_sequence <= next_sequence
  BY DEF StoreInv
<1> QED  BY <1>1, <1>3, <1>4, Zenon DEF Grows

LEMMA StartsRight == ASSUME QueueFacts, Init  PROVE SubscriptionInv
<1>1. StoreInv
  BY StoreStarts, Zenon DEF Init, QueueFacts
<1>2. /\ subs = <<>> /\ offered = <<>> /\ popped = <<>> /\ born = <<>> /\ subscriptions = {}
      /\ returned = {} /\ next_subscription_id = 1 /\ call = [t \in Threads |-> Idle]
      /\ dispatcher = None /\ last_seen = 0 /\ next_sequence = 1
  BY Zenon DEF Init, StoreInit
<1>3. Ids = {} /\ Len(<<>>) = 0
  BY <1>2 DEF Ids
<1>4. TableInv
  BY <1>2, <1>3 DEF TableInv
<1>5. QueuesInv
  BY <1>3, Zenon DEF QueuesInv
<1>6. \A t \in Threads : call[t] = Idle
  BY <1>2, Zenon
<1>7. Idle.pc = "idle"
  BY SMTT(30) DEF Idle
<1>8. \A t \in Threads : CallOk(call[t], subs) /\ ~Busy(call[t]) /\ ~InCallback(call[t])
  BY <1>6, <1>7 DEF CallOk, Busy, InCallback
<1>9. CallsInv
  BY <1>2, <1>6, <1>8, SubscriptionAssumption, Zenon DEF CallsInv, Busy
<1>10. DispatchInv
  BY <1>2, <1>3, <1>6, <1>7 DEF DispatchInv
<1>11. CloseFinal
  BY <1>2, <1>3, Zenon DEF CloseFinal
<1> QED  BY <1>1, <1>4, <1>5, <1>9, <1>10, <1>11, Zenon DEF SubscriptionInv

(* A step of the store alone.                                               *)
LEMMA OutsideKeeps ==
  ASSUME SubscriptionInv, StoreInv', Grows, NoneChanges, call' = call,
         dispatcher' = dispatcher, last_seen' = last_seen
  PROVE  SubscriptionInv'
<1>1. StoreInv /\ TableInv /\ CallsInv /\ DispatchInv /\ QueuesInv /\ CloseFinal
  BY Zenon DEF SubscriptionInv
<1>2. TableInv' /\ QueuesInv' /\ SameTable
  BY <1>1, NoneKeeps, Zenon
<1>3. CallsInv'
  BY <1>1, Zenon DEF CallsInv, NoneChanges
<1>4. offered' = offered /\ born' = born /\ subscriptions' \subseteq subscriptions
  BY Zenon DEF NoneChanges
<1>5. DispatchInv'
  <2>1. BusyKept
    BY Zenon DEF BusyKept
  <2> QED  BY <1>1, <1>2, <1>4, <2>1, DispatchKept, Zenon
<1>6. CloseFinal'
  BY <1>1, <1>2, Zenon DEF CloseFinal, NoneChanges, SameTable, Delivering
<1> QED  BY <1>2, <1>3, <1>5, <1>6, Zenon DEF SubscriptionInv

(* A thread goes on, with the subscriptions left as they are.               *)
LEMMA QuietKeeps ==
  ASSUME SubscriptionInv, StoreInv', Grows, NoneChanges, NEW t \in Threads, NEW c, Step(t, c),
         ~Busy(call[t]), ~Busy(c), CallOk(c, subs), dispatcher' = dispatcher,
         last_seen' = last_seen,
         InCallback(c) <=> InCallback(call[t]), InCallback(c) => c.sub = call[t].sub
  PROVE  SubscriptionInv'
<1>1. StoreInv /\ TableInv /\ CallsInv /\ DispatchInv /\ QueuesInv /\ CloseFinal
  BY Zenon DEF SubscriptionInv
<1>2. TableInv' /\ QueuesInv' /\ SameTable
  BY <1>1, NoneKeeps, Zenon
<1>3. /\ subs' = subs /\ offered' = offered /\ born' = born /\ returned' = returned
      /\ subscriptions' \subseteq subscriptions
  BY Zenon DEF NoneChanges
<1>4. CallsInv'
  <2>1. dispatcher # t
    BY <1>1, Zenon DEF CallsInv, Busy
  <2>2. CallOk(c, subs')
    BY <1>3, Zenon
  <2> QED  BY <1>1, <1>2, <2>1, <2>2, CallsKept, Zenon
<1>5. /\ call'[t] = c /\ \A u \in Threads : u # t => call'[u] = call[u]
  BY <1>1, StepLookup, Zenon
<1>6. DispatchInv'
  <2>1. BusyKept
    BY <1>5, Zenon DEF BusyKept
  <2> QED  BY <1>1, <1>2, <1>3, <2>1, DispatchKept, Zenon
<1>7. CloseFinal'
  <2>1. \A i \in Ids : subs'[i].active = subs[i].active /\ (subs[i].closed => subs'[i].closed)
    BY <1>3, Zenon
  <2> QED  BY <1>1, <1>2, <1>3, <2>1, DeliveriesKept, Zenon
<1> QED  BY <1>2, <1>4, <1>6, <1>7, Zenon DEF SubscriptionInv

LEMMA ActivateCatalogKeeps == ASSUME SubscriptionInv, ActivateCatalog  PROVE SubscriptionInv'
<1>1. UNCHANGED <<storeVars, subs, subscriptions, next_subscription_id, last_seen,
                  draining, dispatcher, call, historyVars>>
  BY Zenon DEF ActivateCatalog
<1>2. StoreInv' /\ Grows
  BY <1>1, StoreKept DEF SubscriptionInv
<1>3. NoneChanges /\ call' = call /\ dispatcher' = dispatcher /\ last_seen' = last_seen
  BY <1>1, <1>2 DEF NoneChanges, historyVars, Grows
<1> QED  BY <1>2, <1>3, OutsideKeeps, Zenon

LEMMA PublishEventKeeps ==
  ASSUME QueueFacts, SubscriptionInv, NEW d \in Drafts, PublishEvent(d)
  PROVE  SubscriptionInv'
<1>1. Publish(d) /\ UNCHANGED <<subs, subscriptions, next_subscription_id,
                                last_seen, draining, dispatcher, call, historyVars>>
  BY DEF PublishEvent
<1>2. d \in Draft
  BY EventStoreAssumption, Zenon
<1>3. StoreInv' /\ Grows
  BY <1>1, <1>2, PublishKeepsStore, Zenon DEF SubscriptionInv, QueueFacts
<1>4. NoneChanges /\ call' = call /\ dispatcher' = dispatcher /\ last_seen' = last_seen
  BY <1>1, <1>3, SMTT(30) DEF NoneChanges, historyVars, Grows
<1> QED  BY <1>3, <1>4, OutsideKeeps, Zenon

LEMMA DrainStartKeeps ==
  ASSUME SubscriptionInv, NEW t \in Threads, DrainStart(t)  PROVE SubscriptionInv'
<1>1. /\ call[t].pc = "idle" /\ Step(t, [pc |-> "draining"])
      /\ UNCHANGED <<storeVars, subs, subscriptions, next_subscription_id, last_seen,
                     dispatcher, historyVars>>
  BY DEF DrainStart
<1>2. StoreInv' /\ Grows
  BY <1>1, StoreKept DEF SubscriptionInv
<1>3. NoneChanges /\ dispatcher' = dispatcher /\ last_seen' = last_seen
  BY <1>1, <1>2 DEF NoneChanges, historyVars, Grows
<1>4. PICK c : c = [pc |-> "draining"]
  BY Zenon
<1>5. c.pc = "draining"
  BY <1>4, SMTT(30)
<1>6. ~Busy(call[t]) /\ ~Busy(c) /\ CallOk(c, subs) /\ ~InCallback(c) /\ ~InCallback(call[t])
  BY <1>1, <1>5 DEF Busy, CallOk, InCallback
<1> QED  BY <1>1, <1>2, <1>3, <1>4, <1>6, QuietKeeps, Zenon

LEMMA IdleOk == ASSUME NEW S  PROVE ~Busy(Idle) /\ CallOk(Idle, S) /\ ~InCallback(Idle)
<1>1. Idle.pc = "idle"
  BY SMTT(30) DEF Idle
<1> QED  BY <1>1 DEF Busy, CallOk, InCallback

LEMMA DrainPublishKeeps ==
  ASSUME QueueFacts, SubscriptionInv, NEW t \in Threads, DrainPublish(t)  PROVE SubscriptionInv'
<1>1. /\ call[t].pc = "draining"
      /\ UNCHANGED <<subs, subscriptions, next_subscription_id, last_seen, dispatcher,
                     historyVars>>
  BY DEF DrainPublish
<1>2. PICK c : Step(t, c) /\ (c = Idle \/ c = [pc |-> "drained"])
  BY SMTT(30) DEF DrainPublish
<1>3. StoreInv' /\ Grows
  <2>1. CASE Publish(DrainingDraft)
    <3>1. DrainingDraft \in Draft
      BY SubscriptionAssumption, SMTT(30) DEF DrainingDraft, Draft, EventTypes
    <3> QED  BY <2>1, <3>1, PublishKeepsStore, Zenon DEF SubscriptionInv, QueueFacts
  <2>2. CASE UNCHANGED storeVars
    BY <2>2, StoreKept DEF SubscriptionInv
  <2> QED  BY <2>1, <2>2 DEF DrainPublish
<1>4. NoneChanges /\ dispatcher' = dispatcher /\ last_seen' = last_seen
  BY <1>1, <1>3 DEF NoneChanges, historyVars, Grows
<1>5. c = Idle \/ c.pc = "drained"
  BY <1>2, SMTT(30)
<1>6. ~Busy(call[t]) /\ ~InCallback(call[t])
  BY <1>1 DEF Busy, InCallback
<1>7. ~Busy(c) /\ CallOk(c, subs) /\ ~InCallback(c)
  <2>1. CASE c.pc = "drained"
    BY <2>1 DEF Busy, CallOk, InCallback
  <2> QED  BY <1>5, <2>1, IdleOk, Zenon
<1> QED  BY <1>2, <1>3, <1>4, <1>6, <1>7, QuietKeeps, Zenon

LEMMA DeliverFindKeeps ==
  ASSUME SubscriptionInv, NEW t \in Threads, NEW id, DeliverFind(t, id)  PROVE SubscriptionInv'
<1>1. /\ call[t].pc = "idle" /\ id \in subscriptions /\ Step(t, [pc |-> "found", sub |-> id])
      /\ UNCHANGED <<storeVars, subs, subscriptions, next_subscription_id, last_seen,
                     dispatcher, historyVars>>
  BY SMTT(30) DEF DeliverFind
<1>2. StoreInv' /\ Grows
  BY <1>1, StoreKept DEF SubscriptionInv
<1>3. NoneChanges /\ dispatcher' = dispatcher /\ last_seen' = last_seen
  BY <1>1, <1>2 DEF NoneChanges, historyVars, Grows
<1>4. PICK c : c = [pc |-> "found", sub |-> id]
  BY Zenon
<1>5. c.pc = "found" /\ c.sub \in 1..Len(subs)
  BY <1>1, <1>4 DEF SubscriptionInv, TableInv, Ids
<1>6. ~Busy(call[t]) /\ ~Busy(c) /\ CallOk(c, subs) /\ ~InCallback(c) /\ ~InCallback(call[t])
  BY <1>1, <1>5, SMTT(30) DEF Busy, CallOk, InCallback
<1> QED  BY <1>1, <1>2, <1>3, <1>4, <1>6, QuietKeeps, Zenon

LEMMA CallbackStartKeeps ==
  ASSUME SubscriptionInv, NEW t \in Threads, CallbackStart(t)  PROVE SubscriptionInv'
<1>1. /\ call[t].pc = "popped" /\ Step(t, [call[t] EXCEPT !.pc = "callback"])
      /\ UNCHANGED <<storeVars, subs, subscriptions, next_subscription_id, last_seen,
                     dispatcher, historyVars>>
  BY DEF CallbackStart
<1>2. StoreInv' /\ Grows
  BY <1>1, StoreKept DEF SubscriptionInv
<1>3. NoneChanges /\ dispatcher' = dispatcher /\ last_seen' = last_seen
  BY <1>1, <1>2 DEF NoneChanges, historyVars, Grows
<1>4. PICK x, c : x = call[t] /\ c = [call[t] EXCEPT !.pc = "callback"]
  BY Zenon
<1>5. CallOk(x, subs)
  BY <1>4, Zenon DEF SubscriptionInv, CallsInv
<1>6. x = [pc |-> x.pc, sub |-> x.sub, event |-> x.event] /\ x.sub \in 1..Len(subs)
  BY <1>1, <1>4, <1>5 DEF CallOk
<1>7. c = [pc |-> "callback", sub |-> x.sub, event |-> x.event]
  BY <1>4, <1>6
<1>8. c.pc = "callback" /\ c.sub = x.sub /\ c = [pc |-> c.pc, sub |-> c.sub, event |-> c.event]
  BY <1>7
<1>9. ~Busy(c) /\ CallOk(c, subs) /\ InCallback(c)
  BY <1>6, <1>8 DEF Busy, CallOk, InCallback
<1>10. ~Busy(call[t]) /\ InCallback(call[t])
  BY <1>1 DEF Busy, InCallback
<1> QED  BY <1>1, <1>2, <1>3, <1>4, <1>8, <1>9, <1>10, QuietKeeps, Zenon

LEMMA CloseEraseKeeps ==
  ASSUME SubscriptionInv, NEW t \in Threads, NEW id, CloseErase(t, id)  PROVE SubscriptionInv'
<1>1. /\ call[t].pc = "idle" \/ (call[t].pc = "callback" /\ call[t].sub = id)
      /\ id \in subscriptions /\ subscriptions' = subscriptions \ {id}
      /\ Step(t, [pc |-> "erased", sub |-> id, from |-> call[t]])
      /\ UNCHANGED <<storeVars, subs, next_subscription_id, last_seen, dispatcher, historyVars>>
  BY SMTT(30) DEF CloseErase
<1>2. StoreInv' /\ Grows
  BY <1>1, StoreKept DEF SubscriptionInv
<1>3. NoneChanges /\ dispatcher' = dispatcher /\ last_seen' = last_seen
  BY <1>1, <1>2 DEF NoneChanges, historyVars, Grows
<1>4. PICK x, c : x = call[t] /\ c = [pc |-> "erased", sub |-> id, from |-> x]
  BY Zenon
<1>5. CallOk(x, subs)
  BY <1>4, Zenon DEF SubscriptionInv, CallsInv
<1>6. /\ c.pc = "erased" /\ c.sub = id /\ c.from = x
      /\ c = [pc |-> c.pc, sub |-> c.sub, from |-> c.from]
  BY <1>4, SMTT(30)
<1>7. id \in 1..Len(subs)
  BY <1>1, ZenonT(60) DEF SubscriptionInv, TableInv, Ids
<1>8. x = Idle \/ x = [pc |-> "callback", sub |-> id, event |-> x.event]
  BY <1>1, <1>4, <1>5, SMTT(30) DEF CallOk
<1>9. ~Busy(call[t]) /\ ~Busy(c) /\ CallOk(c, subs)
  <2>1. ~Busy(call[t])
    BY <1>1 DEF Busy
  <2> QED  BY <1>6, <1>7, <1>8, <2>1 DEF Busy, CallOk
<1>10. InCallback(c) <=> InCallback(call[t])
  BY <1>1, <1>4, <1>6 DEF InCallback
<1>11. InCallback(c) => c.sub = call[t].sub
  BY <1>1, <1>4, <1>6 DEF InCallback
<1> QED  BY <1>1, <1>2, <1>3, <1>4, <1>9, <1>10, <1>11, QuietKeeps, Zenon

(* What stays when a thread changes one subscription.                       *)
RestSame ==
  /\ UNCHANGED storeVars /\ offered' = offered /\ dispatcher' = dispatcher
  /\ last_seen' = last_seen /\ returned' \subseteq Ids

Continues(r, s) == r.filter = s.filter /\ (s.closing => r.closing) /\ r.active \in Int

(* A thread goes on and one subscription changes; the deliveries are left   *)
(* to the step.                                                             *)
LEMMA OneStepKeeps ==
  ASSUME SubscriptionInv, NEW k \in Ids, NEW r, NEW p,
         OneChanges(k, r, offered[k], p), QueueOk(r, offered[k], p, published),
         Continues(r, subs[k]), RestSame,
         NEW t \in Threads, NEW c, Step(t, c), ~Busy(call[t]), ~Busy(c), CallOk(c, subs')
  PROVE  /\ StoreInv' /\ TableInv' /\ CallsInv' /\ DispatchInv' /\ QueuesInv' /\ SameTable
         /\ subs'[k] = r /\ \A i \in Ids : i # k => subs'[i] = subs[i]
<1>0. /\ UNCHANGED storeVars /\ offered' = offered /\ dispatcher' = dispatcher
      /\ last_seen' = last_seen /\ returned' \subseteq Ids
      /\ r.filter = subs[k].filter /\ (subs[k].closing => r.closing) /\ r.active \in Int
  BY Zenon DEF RestSame, Continues
<1>1. StoreInv /\ TableInv /\ CallsInv /\ DispatchInv /\ QueuesInv
  BY Zenon DEF SubscriptionInv
<1>2. StoreInv' /\ Grows
  BY <1>0, <1>1, StoreKept, Zenon
<1>3. /\ TableInv' /\ QueuesInv' /\ SameTable /\ subs'[k] = r
      /\ \A i \in Ids : i # k => subs'[i] = subs[i]
  BY <1>0, <1>1, OneKeeps, Zenon
<1>4. CallsInv'
  <2>1. dispatcher # t
    BY <1>1, Zenon DEF CallsInv, Busy
  <2> QED  BY <1>0, <1>1, <1>3, <2>1, CallsKept, Zenon
<1>5. DispatchInv'
  <2>1. /\ call'[t] = c /\ \A u \in Threads : u # t => call'[u] = call[u]
    BY <1>1, StepLookup, Zenon
  <2>2. BusyKept
    BY <2>1, Zenon DEF BusyKept
  <2>3. born' = born /\ subscriptions' \subseteq subscriptions
    BY Zenon DEF OneChanges
  <2> QED  BY <1>0, <1>1, <1>2, <1>3, <2>2, <2>3, DispatchKept, Zenon
<1> QED  BY <1>2, <1>3, <1>4, <1>5, Zenon

(* A subscription that is there.                                            *)
LEMMA OneLookup ==
  ASSUME SubscriptionInv, NEW k \in Ids
  PROVE  /\ QueueOk(subs[k], offered[k], popped[k], published) /\ subs[k] \in Subscription
         /\ offered = [offered EXCEPT ![k] = offered[k]]
         /\ popped = [popped EXCEPT ![k] = popped[k]]
         /\ subs[k].active \in Int /\ subs[k].active = Cardinality(Delivering(k))
<1>1. QueueOk(subs[k], offered[k], popped[k], published)
  BY Zenon DEF SubscriptionInv, QueuesInv
<1>2. subs[k] \in Subscription
  BY <1>1, Zenon DEF QueueOk
<1>3. /\ k \in 1..Len(subs) /\ k \in 1..Len(offered) /\ k \in 1..Len(popped)
      /\ offered \in Seq(SUBSET Nat) /\ popped \in Seq(Seq(Item))
  BY TableLookup, Zenon DEF SubscriptionInv
<1>4. [offered EXCEPT ![k] = offered[k]] = offered
  BY <1>3, SeqSame, Zenon
<1>5. [popped EXCEPT ![k] = popped[k]] = popped
  BY <1>3, SeqSame, Zenon
<1>6. subs[k].active \in Int
  BY <1>2 DEF Subscription
<1>7. subs[k].active = Cardinality(Delivering(k))
  BY Zenon DEF SubscriptionInv, CloseFinal
<1> QED  BY <1>1, <1>2, <1>4, <1>5, <1>6, <1>7, Zenon

LEMMA DeliverPopKeeps ==
  ASSUME QueueFacts, SubscriptionInv, NEW t \in Threads, DeliverPop(t)  PROVE SubscriptionInv'
<1>1. PICK x, k, s : x = call[t] /\ k = x.sub /\ s = subs[k]
  BY Zenon
<1>2. /\ x.pc = "found"
      /\ UNCHANGED <<storeVars, subscriptions, next_subscription_id, last_seen, dispatcher,
                     offered, returned, born>>
  BY <1>1, Zenon DEF DeliverPop
<1>3. k \in Ids
  <2>1. CallOk(x, subs)
    BY <1>1, Zenon DEF SubscriptionInv, CallsInv
  <2> QED  BY <1>1, <1>2, <2>1 DEF CallOk, Ids
<1>4. ~Busy(call[t]) /\ ~InCallback(call[t])
  BY <1>1, <1>2 DEF Busy, InCallback
<1>5. CASE Step(t, Idle) /\ UNCHANGED <<subs, popped>>
  <2>1. StoreInv' /\ Grows
    BY <1>2, StoreKept DEF SubscriptionInv
  <2>2. NoneChanges /\ dispatcher' = dispatcher /\ last_seen' = last_seen
    BY <1>2, <1>5, <2>1 DEF NoneChanges, Grows
  <2> QED  BY <1>4, <1>5, <2>1, <2>2, IdleOk, QuietKeeps, Zenon
<1>6. CASE /\ Open(s) /\ s.pending # <<>>
           /\ subs' = [subs EXCEPT ![k] = Popped(subs[k])]
           /\ popped' = [popped EXCEPT ![k] = Append(popped[k], s.pending[1])]
           /\ Step(t, [pc |-> "popped", sub |-> k, event |-> s.pending[1]])
  <2>1. PICK c, n, p : /\ c = [pc |-> "popped", sub |-> k, event |-> s.pending[1]]
                       /\ n = Popped(s) /\ p = Append(popped[k], s.pending[1])
    BY Zenon
  <2>2. /\ QueueOk(s, offered[k], popped[k], published) /\ s \in Subscription
        /\ offered = [offered EXCEPT ![k] = offered[k]]
        /\ s.active \in Int /\ s.active = Cardinality(Delivering(k))
    BY <1>1, <1>3, OneLookup, Zenon
  <2>3. QueueOk(n, offered[k], p, published)
    BY <1>6, <2>1, <2>2, PopKeeps, Zenon DEF QueueFacts
  <2>4. /\ n.filter = s.filter /\ n.closing = s.closing /\ n.active = s.active + 1
        /\ n.closed = s.closed /\ n.active \in Int
    <3>1. /\ n.filter = s.filter /\ n.closing = s.closing /\ n.active = s.active + 1
          /\ n.closed = s.closed
      BY <2>1, <2>2, Zenon DEF Popped, Subscription
    <3> QED  BY <2>2, <3>1
  <2>5. OneChanges(k, n, offered[k], p)
    BY <1>1, <1>2, <1>6, <2>1, <2>2, Zenon DEF OneChanges, storeVars
  <2>6. c.pc = "popped" /\ c.sub = k /\ c = [pc |-> c.pc, sub |-> c.sub, event |-> c.event]
    BY <2>1
  <2>7. Len(subs') = Len(subs) /\ k \in 1..Len(subs)
    <3>1. subs \in Seq(Subscription) /\ k \in 1..Len(subs)
      BY <1>3, TableLookup, Zenon DEF SubscriptionInv
    <3>2. subs' = [subs EXCEPT ![k] = n]
      BY <2>5, Zenon DEF OneChanges
    <3> QED  BY <3>1, <3>2
  <2>8. ~Busy(c) /\ CallOk(c, subs') /\ InCallback(c)
    BY <2>6, <2>7 DEF Busy, CallOk, InCallback
  <2>9. returned' \subseteq Ids /\ returned' = returned
    BY <1>2, Zenon DEF SubscriptionInv, TableInv
  <2>10. /\ StoreInv' /\ TableInv' /\ CallsInv' /\ DispatchInv' /\ QueuesInv' /\ SameTable
         /\ subs'[k] = n /\ \A i \in Ids : i # k => subs'[i] = subs[i]
    <3>1. RestSame /\ Continues(n, subs[k])
      BY <1>1, <1>2, <2>4, <2>9, Zenon DEF RestSame, Continues
    <3>2. Step(t, c)
      BY <1>6, <2>1, Zenon
    <3> QED  BY <1>3, <1>4, <2>3, <2>5, <2>8, <3>1, <3>2, OneStepKeeps, Zenon
  <2>11. /\ call'[t] = c /\ \A u \in Threads : u # t => call'[u] = call[u]
    <3>1. Step(t, c)
      BY <1>6, <2>1, Zenon
    <3> QED  BY <3>1, StepLookup, Zenon DEF SubscriptionInv
  <2>12. Delivering(k)' = Delivering(k) \cup {t} /\ t \notin Delivering(k)
    <3>1. \A u \in Threads : InCallback(call'[u]) /\ call'[u].sub = k <=>
            (InCallback(call[u]) /\ call[u].sub = k) \/ u = t
      BY <2>6, <2>8, <2>11, Zenon
    <3> QED  BY <1>4, <3>1, Zenon DEF Delivering
  <2>13. \A i : i # k => Delivering(i)' = Delivering(i)
    <3>1. ASSUME NEW i, i # k  PROVE Delivering(i)' = Delivering(i)
      <4>1. \A u \in Threads : InCallback(call'[u]) /\ call'[u].sub = i <=>
                               InCallback(call[u]) /\ call[u].sub = i
        BY <1>4, <2>6, <2>11, <3>1, Zenon
      <4> QED  BY <4>1, Zenon DEF Delivering
    <3> QED  BY <3>1, Zenon
  <2>14. Cardinality(Delivering(k) \cup {t}) = Cardinality(Delivering(k)) + 1
    <3>1. IsFiniteSet(Delivering(k))
      <4>1. Delivering(k) \subseteq Threads
        BY Zenon DEF Delivering
      <4> QED  BY <4>1, SubscriptionAssumption, Zenon DEF QueueFacts, SetFacts
    <3> QED  BY <2>12, <3>1, Zenon DEF QueueFacts, SetFacts
  <2>15. \A i \in Ids : subs'[i].active = Cardinality(Delivering(i)')
    BY <2>2, <2>4, <2>10, <2>12, <2>13, <2>14, ZenonT(60) DEF SubscriptionInv, CloseFinal
  <2>16. k \notin returned
    BY <1>1, <1>6, Zenon DEF SubscriptionInv, CloseFinal, Open
  <2>17. \A i \in returned : Delivering(i)' = {} /\ subs'[i].closed
    BY <2>9, <2>10, <2>13, <2>16, Zenon DEF SubscriptionInv, CloseFinal
  <2>18. CloseFinal'
    BY <2>9, <2>10, <2>15, <2>17, Zenon DEF CloseFinal, SameTable
  <2> QED  BY <2>10, <2>18, Zenon DEF SubscriptionInv
<1> QED
  <2>1. CASE Open(s) /\ s.pending # <<>>
    <3>1. PICK f : f = FrontTaken(s.pending)
      BY Zenon
    <3>2. f.rest = Tail(s.pending) /\ f.event = Head(s.pending)
      BY <3>1 DEF FrontTaken
    <3>3. Head(s.pending) = s.pending[1]
      <4>1. s.pending \in Seq(Item)
        BY <1>1, <1>3, OneLookup DEF Subscription
      <4> QED  BY <2>1, <4>1
    <3>4. /\ subs' = [subs EXCEPT ![k] =
                        [s EXCEPT !.pending = f.rest, !.active = @ + 1,
                                  !.pending_bytes = @ - f.event.bytes]]
          /\ popped' = [popped EXCEPT ![k] = Append(@, f.event)]
          /\ Step(t, [pc |-> "popped", sub |-> k, event |-> f.event])
      BY <1>1, <2>1, <3>1, Zenon DEF DeliverPop
    <3>5. subs' = [subs EXCEPT ![k] = Popped(subs[k])]
      <4>1. [s EXCEPT !.pending = f.rest, !.active = @ + 1,
                      !.pending_bytes = @ - f.event.bytes] = Popped(s)
        BY <3>2, <3>3, Zenon DEF Popped
      <4> QED  BY <1>1, <3>4, <4>1, Zenon
    <3> QED  BY <1>6, <2>1, <3>2, <3>3, <3>4, <3>5, Zenon
  <2>2. CASE ~(Open(s) /\ s.pending # <<>>)
    BY <1>1, <1>5, <2>2, Zenon DEF DeliverPop
  <2> QED  BY <2>1, <2>2, Zenon

LEMMA DeliverDoneKeeps ==
  ASSUME QueueFacts, SubscriptionInv, NEW t \in Threads, DeliverDone(t)  PROVE SubscriptionInv'
<1>1. PICK x, k, s, n : x = call[t] /\ k = x.sub /\ s = subs[k] /\ n = s.active - 1
  BY Zenon
<1>2. /\ x.pc = "callback" /\ Step(t, Idle)
      /\ subs' = [subs EXCEPT ![k] = [subs[k] EXCEPT !.active = n]]
      /\ UNCHANGED <<storeVars, subscriptions, next_subscription_id, last_seen, dispatcher,
                     offered, popped, returned, born>>
  BY <1>1 DEF DeliverDone, historyVars
<1>3. k \in Ids
  <2>1. CallOk(x, subs)
    BY <1>1, Zenon DEF SubscriptionInv, CallsInv
  <2> QED  BY <1>1, <1>2, <2>1 DEF CallOk, Ids
<1>4. ~Busy(call[t]) /\ InCallback(call[t]) /\ ~Busy(Idle) /\ ~InCallback(Idle)
  BY <1>1, <1>2 DEF Busy, InCallback, Idle
<1>5. /\ QueueOk(s, offered[k], popped[k], published)
      /\ offered = [offered EXCEPT ![k] = offered[k]]
      /\ popped = [popped EXCEPT ![k] = popped[k]]
      /\ s.active \in Int /\ s.active = Cardinality(Delivering(k))
  BY <1>1, <1>3, OneLookup, Zenon
<1>6. PICK r : r = WithActive(s, n)
  BY Zenon
<1>7. n \in Int
  BY <1>1, <1>5
<1>8. /\ QueueOk(r, offered[k], popped[k], published) /\ r.filter = s.filter /\ r.active = n
      /\ r.closed = s.closed /\ r.closing = s.closing
  <2>1. QueueOk(s, offered[k], popped[k], published)
    BY <1>5, Zenon
  <2>2. LET c == WithActive(s, n)
        IN  /\ QueueOk(c, offered[k], popped[k], published) /\ c.filter = s.filter
            /\ c.active = n /\ c.closed = s.closed /\ c.closing = s.closing
    BY <1>7, <2>1, ActiveKeeps, ZenonT(60)
  <2> QED  BY <1>6, <2>2, Zenon
<1>9. OneChanges(k, r, offered[k], popped[k])
  BY <1>1, <1>2, <1>5, <1>6, Zenon DEF OneChanges, storeVars, WithActive
<1>10. returned' \subseteq Ids /\ returned' = returned
  BY <1>2, Zenon DEF SubscriptionInv, TableInv
<1>11. CallOk(Idle, subs')
  BY SMTT(30) DEF CallOk, Idle
<1>12. /\ StoreInv' /\ TableInv' /\ CallsInv' /\ DispatchInv' /\ QueuesInv' /\ SameTable
       /\ subs'[k] = r /\ \A i \in Ids : i # k => subs'[i] = subs[i]
  <2>1. RestSame /\ Continues(r, subs[k])
    BY <1>1, <1>2, <1>7, <1>8, <1>10, Zenon DEF RestSame, Continues
  <2> QED  BY <1>2, <1>3, <1>4, <1>8, <1>9, <1>11, <2>1, OneStepKeeps, Zenon
<1>13. /\ call'[t] = Idle /\ \A u \in Threads : u # t => call'[u] = call[u]
  BY <1>2, StepLookup, Zenon DEF SubscriptionInv
<1>14. Delivering(k) = Delivering(k)' \cup {t} /\ t \notin Delivering(k)'
  <2>1. \A u \in Threads : InCallback(call[u]) /\ call[u].sub = k <=>
          (InCallback(call'[u]) /\ call'[u].sub = k) \/ u = t
    BY <1>1, <1>4, <1>13, Zenon
  <2>2. t \notin Delivering(k)'
    BY <1>4, <1>13, Zenon DEF Delivering
  <2> QED  BY <2>1, <2>2, Zenon DEF Delivering
<1>15. \A i : i # k => Delivering(i)' = Delivering(i)
  <2>1. ASSUME NEW i, i # k  PROVE Delivering(i)' = Delivering(i)
    <3>1. \A u \in Threads : InCallback(call'[u]) /\ call'[u].sub = i <=>
                             InCallback(call[u]) /\ call[u].sub = i
      BY <1>1, <1>4, <1>13, <2>1, Zenon
    <3> QED  BY <3>1, Zenon DEF Delivering
  <2> QED  BY <2>1, Zenon
<1>16. n = Cardinality(Delivering(k)')
  <2>1. IsFiniteSet(Delivering(k)') /\ Cardinality(Delivering(k)') \in Nat
    <3>1. Delivering(k)' \subseteq Threads
      BY Zenon DEF Delivering
    <3> QED  BY <3>1, SubscriptionAssumption, Zenon DEF QueueFacts, SetFacts
  <2>2. PICK m : m = Cardinality(Delivering(k)')
    BY Zenon
  <2>3. Cardinality(Delivering(k)' \cup {t}) = m + 1
    BY <1>14, <2>1, <2>2, Zenon DEF QueueFacts, SetFacts
  <2>4. s.active = m + 1
    BY <1>5, <1>14, <2>3, Zenon
  <2>5. m \in Nat
    BY <2>1, <2>2, Zenon
  <2>6. n = m
    BY <1>1, <2>4, <2>5
  <2> QED  BY <2>2, <2>6, Zenon
<1>17. \A i \in Ids : subs'[i].active = Cardinality(Delivering(i)')
  BY <1>8, <1>12, <1>15, <1>16, ZenonT(60) DEF SubscriptionInv, CloseFinal
<1>18. k \notin returned
  BY <1>14, Zenon DEF SubscriptionInv, CloseFinal
<1>19. \A i \in returned : Delivering(i)' = {} /\ subs'[i].closed
  BY <1>10, <1>12, <1>15, <1>18, Zenon DEF SubscriptionInv, CloseFinal
<1>20. CloseFinal'
  BY <1>10, <1>12, <1>17, <1>19, Zenon DEF CloseFinal, SameTable
<1> QED  BY <1>12, <1>20, Zenon DEF SubscriptionInv

LEMMA CloseClearKeeps ==
  ASSUME QueueFacts, SubscriptionInv, NEW t \in Threads, CloseClear(t)  PROVE SubscriptionInv'
<1>1. PICK x, k, s, r, c : /\ x = call[t] /\ k = x.sub /\ s = subs[k] /\ r = Cleared(s)
                           /\ c = [x EXCEPT !.pc = "waiting"]
  BY ZenonT(60)
<1>2. /\ x.pc = "erased" /\ Step(t, c)
      /\ subs' = [subs EXCEPT ![k].closing = TRUE, ![k].pending = <<>>, ![k].pending_bytes = 0]
      /\ UNCHANGED <<storeVars, subscriptions, next_subscription_id, last_seen, dispatcher,
                     offered, popped, returned, born>>
  BY <1>1, SMTT(30) DEF CloseClear, historyVars
<1>3. k \in Ids /\ x = [pc |-> x.pc, sub |-> x.sub, from |-> x.from]
      /\ (x.from = Idle \/ x.from = [pc |-> "callback", sub |-> k, event |-> x.from.event])
  <2>1. CallOk(x, subs)
    BY <1>1, Zenon DEF SubscriptionInv, CallsInv
  <2> QED  BY <1>1, <1>2, <2>1, SMTT(30) DEF CallOk, Ids
<1>4. c = [pc |-> "waiting", sub |-> k, from |-> x.from]
  BY <1>1, <1>3
<1>5. c.pc = "waiting" /\ c.sub = k /\ c.from = x.from
      /\ c = [pc |-> c.pc, sub |-> c.sub, from |-> c.from]
  BY <1>4, SMTT(30)
<1>6. /\ ~Busy(call[t]) /\ ~Busy(c)
      /\ (InCallback(c) <=> InCallback(call[t])) /\ (InCallback(c) => c.sub = call[t].sub)
  BY <1>1, <1>2, <1>5 DEF Busy, InCallback
<1>7. /\ QueueOk(s, offered[k], popped[k], published)
      /\ offered = [offered EXCEPT ![k] = offered[k]]
      /\ popped = [popped EXCEPT ![k] = popped[k]]
      /\ s.active \in Int
  BY <1>1, <1>3, OneLookup, Zenon
<1>8. /\ QueueOk(r, offered[k], popped[k], published) /\ r.filter = s.filter
      /\ r.active = s.active /\ r.closed = s.closed /\ r.closing
  BY <1>1, <1>7, ClearKeeps, Zenon DEF QueueFacts
<1>9. subs \in Seq(Subscription) /\ k \in 1..Len(subs)
  BY <1>3, TableLookup, Zenon DEF SubscriptionInv
<1>10. subs' = [subs EXCEPT ![k] = r]
  BY <1>1, <1>2, <1>9, Zenon DEF Cleared
<1>11. OneChanges(k, r, offered[k], popped[k])
  BY <1>1, <1>2, <1>7, <1>10, Zenon DEF OneChanges, storeVars
<1>12. returned' \subseteq Ids /\ returned' = returned
  BY <1>2, Zenon DEF SubscriptionInv, TableInv
<1>13. CallOk(c, subs')
  <2>1. Len(subs') = Len(subs) /\ subs'[k] = r
    BY <1>9, <1>10
  <2> QED  BY <1>3, <1>5, <1>8, <1>9, <2>1, SMTT(30) DEF CallOk
<1>14. /\ StoreInv' /\ TableInv' /\ CallsInv' /\ DispatchInv' /\ QueuesInv' /\ SameTable
       /\ subs'[k] = r /\ \A i \in Ids : i # k => subs'[i] = subs[i]
  <2>1. RestSame /\ Continues(r, subs[k])
    BY <1>1, <1>2, <1>7, <1>8, <1>12, Zenon DEF RestSame, Continues
  <2> QED  BY <1>2, <1>3, <1>6, <1>8, <1>11, <1>13, <2>1, OneStepKeeps, Zenon
<1>15. \A i \in Ids : subs'[i].active = subs[i].active /\ (subs[i].closed => subs'[i].closed)
  BY <1>1, <1>8, <1>14, Zenon
<1>16. CloseFinal'
  BY <1>2, <1>6, <1>12, <1>14, <1>15, DeliveriesKept, Zenon DEF SubscriptionInv
<1> QED  BY <1>14, <1>16, Zenon DEF SubscriptionInv

LEMMA CloseReturnKeeps ==
  ASSUME QueueFacts, SubscriptionInv, NEW t \in Threads, CloseReturn(t)  PROVE SubscriptionInv'
<1>1. PICK x, k, s, r, c : /\ x = call[t] /\ k = x.sub /\ s = subs[k] /\ c = x.from
                           /\ r = Shut(s)
  BY Zenon
<1>2. /\ x.pc = "waiting" /\ s.active = 0 /\ Step(t, c)
      /\ subs' = [subs EXCEPT ![k] = r] /\ returned' = returned \cup {k}
      /\ UNCHANGED <<storeVars, subscriptions, next_subscription_id, last_seen, dispatcher,
                     offered, popped, born>>
  BY <1>1, Zenon DEF CloseReturn, Inactive, Shut
<1>3. /\ k \in Ids /\ s.closing
      /\ c = Idle \/ c = [pc |-> "callback", sub |-> k, event |-> c.event]
  <2>1. CallOk(x, subs)
    BY <1>1, Zenon DEF SubscriptionInv, CallsInv
  <2> QED  BY <1>1, <1>2, <2>1, Zenon DEF CallOk, Ids
<1>4. /\ QueueOk(s, offered[k], popped[k], published)
      /\ offered = [offered EXCEPT ![k] = offered[k]]
      /\ popped = [popped EXCEPT ![k] = popped[k]]
      /\ s.active \in Int /\ s.active = Cardinality(Delivering(k))
  BY <1>1, <1>3, OneLookup, Zenon
<1>5. Delivering(k) = {}
  <2>1. Delivering(k) \subseteq Threads
    BY Zenon DEF Delivering
  <2>2. IsFiniteSet(Delivering(k)) /\ Cardinality(Delivering(k)) = 0
    BY <1>2, <1>4, <2>1, SubscriptionAssumption, Zenon DEF QueueFacts, SetFacts
  <2> QED  BY <2>2, Zenon DEF QueueFacts, SetFacts
<1>6. /\ c = Idle /\ ~Busy(call[t]) /\ ~Busy(c)
      /\ (InCallback(c) <=> InCallback(call[t])) /\ (InCallback(c) => c.sub = call[t].sub)
  <2>1. InCallback(x) <=> c.pc = "callback"
    BY <1>1, <1>2 DEF InCallback
  <2>2. ~InCallback(x)
    BY <1>1, <1>5, Zenon DEF Delivering
  <2>3. c = Idle
    BY <1>3, <2>1, <2>2
  <2>4. ~Busy(x) /\ ~Busy(c) /\ ~InCallback(c)
    BY <1>2, <2>3 DEF Busy, InCallback, Idle
  <2> QED  BY <1>1, <2>2, <2>3, <2>4, Zenon
<1>7. /\ QueueOk(r, offered[k], popped[k], published) /\ r.filter = s.filter
      /\ r.active = s.active /\ r.closed /\ r.closing
  BY <1>1, <1>3, <1>4, ClosedKeeps, Zenon
<1>8. OneChanges(k, r, offered[k], popped[k])
  BY <1>1, <1>2, <1>4, Zenon DEF OneChanges, storeVars
<1>9. returned' \subseteq Ids
  BY <1>2, <1>3, Zenon DEF SubscriptionInv, TableInv
<1>10. CallOk(c, subs')
  BY <1>6, SMTT(30) DEF CallOk, Idle
<1>11. /\ StoreInv' /\ TableInv' /\ CallsInv' /\ DispatchInv' /\ QueuesInv' /\ SameTable
       /\ subs'[k] = r /\ \A i \in Ids : i # k => subs'[i] = subs[i]
  <2>1. RestSame /\ Continues(r, subs[k])
    BY <1>1, <1>2, <1>4, <1>7, <1>9, Zenon DEF RestSame, Continues
  <2> QED  BY <1>2, <1>3, <1>6, <1>7, <1>8, <1>10, <2>1, OneStepKeeps, Zenon
<1>12. /\ call'[t] = c /\ \A u \in Threads : u # t => call'[u] = call[u]
  BY <1>2, StepLookup, Zenon DEF SubscriptionInv
<1>13. \A i : Delivering(i)' = Delivering(i)
  <2>1. ASSUME NEW i  PROVE Delivering(i)' = Delivering(i)
    <3>1. \A u \in Threads : InCallback(call'[u]) /\ call'[u].sub = i <=>
                             InCallback(call[u]) /\ call[u].sub = i
      BY <1>6, <1>12, Zenon
    <3> QED  BY <3>1, Zenon DEF Delivering
  <2> QED  BY <2>1, Zenon
<1>14. \A i \in Ids : subs'[i].active = Cardinality(Delivering(i)')
  BY <1>1, <1>7, <1>11, <1>13, Zenon DEF SubscriptionInv, CloseFinal
<1>15. \A i \in returned' : Delivering(i)' = {} /\ subs'[i].closed
  <2>1. \A i \in returned : i \in Ids /\ Delivering(i) = {} /\ subs[i].closed
    BY Zenon DEF SubscriptionInv, CloseFinal, TableInv
  <2> QED  BY <1>2, <1>5, <1>7, <1>11, <1>13, <2>1, Zenon
<1>16. CloseFinal'
  BY <1>11, <1>14, <1>15, Zenon DEF CloseFinal, SameTable
<1> QED  BY <1>11, <1>16, Zenon DEF SubscriptionInv

-----------------------------------------------------------------------------
(* Dispatch.  It is one thread at a time, so what is to be enqueued is the  *)
(* work of that thread alone.                                               *)

LEMMA OnlyDispatcher ==
  ASSUME CallsInv, NEW t \in Threads, dispatcher = t \/ dispatcher = None,
         NEW u \in Threads, Busy(call[u])
  PROVE  u = t
BY SubscriptionAssumption, Zenon DEF CallsInv, Busy

(* A step of dispatch that leaves the subscriptions alone.                  *)
DispatchSame == UNCHANGED storeVars /\ NoneChanges

LEMMA DispatcherKeeps ==
  ASSUME SubscriptionInv, DispatchSame, NEW t \in Threads, NEW c, Step(t, c),
         ~InCallback(call[t]), ~InCallback(c), CallOk(c, subs),
         Busy(c) <=> dispatcher' = t,
         \A u \in Threads : u # t => (dispatcher' = u <=> dispatcher = u),
         DispatchInv'
  PROVE  SubscriptionInv'
<1>1. StoreInv /\ TableInv /\ CallsInv /\ QueuesInv /\ CloseFinal
  BY Zenon DEF SubscriptionInv
<1>2. TableInv' /\ QueuesInv' /\ SameTable
  BY <1>1, NoneKeeps, Zenon DEF DispatchSame
<1>3. subs' = subs /\ returned' = returned
  BY Zenon DEF DispatchSame, NoneChanges
<1>4. StoreInv'
  BY <1>1, StoreKept, Zenon DEF DispatchSame
<1>5. CallsInv'
  <2>1. CallOk(c, subs')
    BY <1>3, Zenon
  <2> QED  BY <1>1, <1>2, <2>1, CallsKept, Zenon
<1>6. CloseFinal'
  <2>1. \A i \in Ids : subs'[i].active = subs[i].active /\ (subs[i].closed => subs'[i].closed)
    BY <1>3, Zenon
  <2> QED  BY <1>1, <1>2, <1>3, <2>1, DeliveriesKept, Zenon
<1> QED  BY <1>2, <1>4, <1>5, <1>6, Zenon DEF SubscriptionInv

(* What the log has since the last dispatch.                                *)
LEMMA SinceOk ==
  ASSUME KeepFacts, StoreInv, NEW l \in Nat, NEW s, s = Since(l)
  PROVE  /\ s \in Seq(Item) /\ Ascending(s)
         /\ \A i \in 1..Len(s) : s[i] \in published /\ l < s[i].seq
         /\ \A e \in Range(events) : l < e.seq => e \in Range(s)
<1>1. PICK T : T = {e \in Range(events) : e.seq > l}
  BY Zenon
<1>2. events \in Seq(Item) /\ Ascending(events) /\ \A i \in 1..Len(events) : events[i] \in published
  BY Zenon DEF StoreInv, LogExact, Ascending
<1>3. s \in Seq(Item) /\ Range(s) = Range(events) \cap T /\ PartOf(s, events)
  BY <1>1, <1>2, Zenon DEF KeepFacts, Since
<1>4. /\ \A i \in 1..Len(s) : s[i] \in Range(s)
      /\ \A e \in Range(events) : \E i \in 1..Len(events) : e = events[i]
  <2>1. Range(s) = {s[i] : i \in 1..Len(s)}
    BY <1>3, RangeItems, SMTT(20)
  <2>2. Range(events) = {events[i] : i \in 1..Len(events)}
    BY <1>2, RangeItems, Zenon
  <2> QED  BY <2>1, <2>2, Zenon
<1>5. \A e \in Range(events) : e \in Item
  BY <1>2, RangeItems, Zenon
<1>6. \A e \in Item : e.seq > l <=> l < e.seq
  BY DEF Item
<1>7. Ascending(s)
  <2>1. PICK a \in [1..Len(s) -> 1..Len(events)] :
          /\ \A j \in 1..Len(s) : s[j] = events[a[j]]
          /\ \A i, j \in 1..Len(s) : i < j => a[i] < a[j]
    BY <1>3, Zenon DEF PartOf
  <2>2. ASSUME NEW i \in 1..Len(s), NEW j \in 1..Len(s), i < j  PROVE s[i].seq < s[j].seq
    <3>1. a[i] \in 1..Len(events) /\ a[j] \in 1..Len(events) /\ a[i] < a[j]
      BY <2>1, <2>2
    <3>2. events[a[i]].seq < events[a[j]].seq
      BY <1>2, <3>1, Zenon DEF Ascending
    <3> QED  BY <2>1, <3>2, Zenon
  <2> QED  BY <2>2, Zenon DEF Ascending
<1>8. \A e \in Range(events) : e \in T <=> l < e.seq
  BY <1>1, <1>5, <1>6, Zenon
<1>9. \A i \in 1..Len(s) : s[i] \in published /\ l < s[i].seq
  <2>1. ASSUME NEW i \in 1..Len(s)  PROVE s[i] \in Range(events) /\ s[i] \in T
    BY <1>3, <1>4, Zenon
  <2>2. \A e \in Range(events) : e \in published
    BY <1>2, <1>4, Zenon
  <2> QED  BY <1>8, <2>1, <2>2, Zenon
<1> QED  BY <1>3, <1>7, <1>8, <1>9, Zenon

LEMMA DispatchSinceKeeps ==
  ASSUME QueueFacts, SubscriptionInv, NEW t \in Threads, DispatchSince(t)  PROVE SubscriptionInv'
<1>1. /\ call[t].pc \in {"idle", "drained"} /\ dispatcher = None
      /\ UNCHANGED <<storeVars, subs, subscriptions, next_subscription_id, last_seen,
                     offered, popped, returned, born>>
  BY DEF DispatchSince, historyVars
<1>2. ~Busy(call[t]) /\ ~InCallback(call[t])
  BY <1>1 DEF Busy, InCallback
<1>3. StoreInv /\ TableInv /\ CallsInv /\ DispatchInv
  BY Zenon DEF SubscriptionInv
<1>4. NoneChanges
  BY <1>1, SMTT(30) DEF NoneChanges, storeVars
<1>5. CASE Step(t, Idle) /\ dispatcher' = dispatcher
  <2>1. StoreInv' /\ Grows
    BY <1>1, <1>3, StoreKept
  <2> QED  BY <1>1, <1>2, <1>4, <1>5, <2>1, IdleOk, QuietKeeps, Zenon
<1>6. CASE /\ Step(t, [pc |-> "registry", events |-> Since(last_seen), latest |-> LatestSequence])
           /\ dispatcher' = t
  <2>1. PICK c, s, n : /\ s = Since(last_seen) /\ n = LatestSequence
                       /\ c = [pc |-> "registry", events |-> s, latest |-> n]
    BY Zenon
  <2>2. Step(t, c) /\ c.pc = "registry" /\ c.events = s /\ c.latest = n
    <3>1. c.pc = "registry" /\ c.events = s /\ c.latest = n
      BY <2>1
    <3> QED  BY <1>6, <2>1, <3>1, Zenon
  <2>3. last_seen \in Nat /\ last_seen < next_sequence /\ next_sequence \in Nat
    BY <1>3 DEF DispatchInv, StoreInv
  <2>4. /\ n \in Nat /\ last_seen <= n /\ n < next_sequence
        /\ \A m \in Nat : m < next_sequence => m <= n
    BY <2>1, <2>3 DEF LatestSequence
  <2>5. /\ s \in Seq(Item) /\ Ascending(s)
        /\ \A i \in 1..Len(s) : s[i] \in published /\ last_seen < s[i].seq
        /\ \A e \in Range(events) : last_seen < e.seq => e \in Range(s)
    BY <1>3, <2>1, <2>3, SinceOk, Zenon DEF QueueFacts
  <2>6. \A i \in 1..Len(s) : s[i].seq <= n
    <3>1. \A e \in published : e.seq \in Nat /\ e.seq < next_sequence
      BY <1>3 DEF StoreInv, Item
    <3> QED  BY <2>4, <2>5, <3>1, Zenon
  <2>7. CollectedOk(c)
    BY <2>2, <2>4, <2>5, <2>6, Zenon DEF CollectedOk
  <2>8. CallOk(c, subs) /\ Busy(c) /\ ~InCallback(c)
    BY <2>2, <2>4, <2>5 DEF CallOk, Busy, InCallback
  <2>9. /\ call'[t] = c /\ \A u \in Threads : u # t => call'[u] = call[u]
    BY <1>3, <2>2, StepLookup, Zenon
  <2>10. \A u \in Threads : ~Busy(call[u])
    BY <1>1, <1>2, <1>3, OnlyDispatcher, Zenon
  <2>11. \A u \in Threads : call[u].pc # "enqueue" /\ call[u].pc # "registry"
    BY <2>10, SMTT(30) DEF Busy
  <2>12. DispatchInv'
    <3>1. /\ last_seen' = last_seen /\ next_sequence' = next_sequence /\ events' = events
          /\ published' = published /\ Ids' = Ids /\ offered' = offered /\ subs' = subs
          /\ subscriptions' = subscriptions /\ born' = born
      BY <1>1 DEF storeVars, Ids
    <3>2. ASSUME NEW u \in Threads  PROVE /\ call'[u].pc = "registry" => CollectedOk(call[u])'
                                          /\ call'[u].pc # "enqueue"
      <4>1. CASE u = t
        <5>1. CollectedOk(c)'
          BY <2>7, <3>1, <2>2, Zenon DEF CollectedOk
        <5>2. call'[u].pc = "registry" /\ "registry" # "enqueue"
          BY <2>2, <2>9, <4>1, Zenon
        <5>3. CollectedOk(call[u])'
          BY <2>9, <4>1, <5>1, Zenon DEF CollectedOk
        <5> QED  BY <5>2, <5>3
      <4>2. CASE u # t
        BY <2>9, <2>11, <4>2, Zenon
      <4> QED  BY <4>1, <4>2, Zenon
    <3>3. \A e, i : Reaches(e, i) => Reaches(e, i)'
      BY <2>11, <3>1, Zenon DEF Reaches
    <3> QED  BY <1>3, <3>1, <3>2, <3>3, Zenon DEF DispatchInv
  <2>13. \A u \in Threads : u # t => (dispatcher' = u <=> dispatcher = u)
    BY <1>1, <1>6, SubscriptionAssumption, Zenon
  <2>14. DispatchSame /\ (Busy(c) <=> dispatcher' = t)
    BY <1>1, <1>4, <1>6, <2>8, Zenon DEF DispatchSame
  <2> QED  BY <1>2, <2>2, <2>8, <2>12, <2>13, <2>14, DispatcherKeeps, Zenon
<1> QED  BY <1>5, <1>6, Zenon DEF DispatchSince

LEMMA DispatchRegistryKeeps ==
  ASSUME SubscriptionInv, NEW t \in Threads, DispatchRegistry(t)  PROVE SubscriptionInv'
<1>1. PICK x, c : /\ x = call[t]
                  /\ c = [pc |-> "enqueue", events |-> x.events,
                          work |-> {w \in (1..Len(x.events)) \X subscriptions :
                                      Matches(subs[w[2]].filter, x.events[w[1]])}]
  BY Zenon
<1>2. /\ x.pc = "registry" /\ Step(t, c) /\ last_seen' = x.latest
      /\ UNCHANGED <<storeVars, subs, subscriptions, next_subscription_id, dispatcher,
                     offered, popped, returned, born>>
  BY <1>1, SMTT(30) DEF DispatchRegistry, historyVars
<1>3. StoreInv /\ TableInv /\ CallsInv /\ DispatchInv
  BY Zenon DEF SubscriptionInv
<1>4. /\ c.pc = "enqueue" /\ c.events = x.events
      /\ c = [pc |-> c.pc, events |-> c.events, work |-> c.work]
      /\ c.work = {w \in (1..Len(x.events)) \X subscriptions :
                     Matches(subs[w[2]].filter, x.events[w[1]])}
  BY <1>1
<1>5. x.events \in Seq(Item) /\ x.latest \in Nat
  <2>1. CallOk(x, subs)
    BY <1>1, <1>3, Zenon DEF CallsInv
  <2> QED  BY <1>2, <2>1, Zenon DEF CallOk
<1>6. CollectedOk(x)
  <2>1. call[t].pc = "registry" => CollectedOk(call[t])
    BY <1>3, Zenon DEF DispatchInv
  <2> QED  BY <1>1, <1>2, <2>1, Zenon
<1>7. dispatcher = t
  BY <1>1, <1>2, <1>3 DEF CallsInv
<1>8. /\ call'[t] = c /\ \A u \in Threads : u # t => call'[u] = call[u]
  BY <1>2, <1>3, StepLookup, Zenon
<1>9. /\ ~InCallback(call[t]) /\ ~InCallback(c) /\ Busy(c) /\ CallOk(c, subs)
  <2>1. CallOk(c, subs)
    BY <1>4, <1>5 DEF CallOk
  <2>2. ~InCallback(x) /\ ~InCallback(c) /\ Busy(c)
    BY <1>2, <1>4 DEF InCallback, Busy
  <2> QED  BY <1>1, <2>1, <2>2, Zenon
<1>10. /\ \A u \in Threads : call[u].pc # "enqueue"
       /\ \A u \in Threads : u # t => call[u].pc # "registry"
  <2>1. ASSUME NEW u \in Threads, Busy(call[u])  PROVE u = t
    BY <1>3, <1>7, <2>1, OnlyDispatcher, Zenon
  <2> QED  BY <1>1, <1>2, <2>1, Zenon DEF Busy
<1>11. /\ next_sequence' = next_sequence /\ events' = events
       /\ published' = published /\ Ids' = Ids /\ offered' = offered /\ subs' = subs
       /\ subscriptions' = subscriptions /\ born' = born
  BY <1>2, SMTT(30) DEF storeVars, Ids
<1>12. last_seen \in Nat /\ last_seen <= x.latest /\ x.latest < next_sequence
  BY <1>3, <1>6, Zenon DEF CollectedOk, DispatchInv
<1>13. \A i \in Ids : \A n \in offered[i] : n \in Nat /\ n <= last_seen
  BY <1>3 DEF DispatchInv, TableInv, Ids
<1>14. WorkOk(c)'
  <2>1. \A i \in 1..Len(x.events) : /\ x.events[i] \in published /\ x.events[i].seq <= x.latest
                                    /\ x.events[i].seq \in Nat /\ last_seen < x.events[i].seq
    <3>1. \A i \in 1..Len(x.events) : x.events[i] \in Item
      BY <1>5
    <3> QED  BY <1>6, <3>1, ItemParts, Zenon DEF CollectedOk
  <2>2. ASSUME NEW w \in c.work
        PROVE  /\ w \in (1..Len(x.events)) \X Ids /\ Matches(subs[w[2]].filter, x.events[w[1]])
               /\ \A n \in offered[w[2]] : n < x.events[w[1]].seq
    <3>1. /\ w \in (1..Len(x.events)) \X subscriptions
          /\ Matches(subs[w[2]].filter, x.events[w[1]])
      BY <1>4, <2>2, Zenon
    <3>2. subscriptions \subseteq Ids
      BY <1>3, Zenon DEF TableInv
    <3>3. w \in (1..Len(x.events)) \X Ids /\ w[1] \in 1..Len(x.events) /\ w[2] \in Ids
      BY <3>1, <3>2
    <3>4. ASSUME NEW n \in offered[w[2]]  PROVE n < x.events[w[1]].seq
      <4>1. PICK m : m = x.events[w[1]].seq
        BY Zenon
      <4>2. m \in Nat /\ last_seen < m /\ n \in Nat /\ n <= last_seen
        BY <1>13, <2>1, <3>3, <3>4, <4>1, Zenon
      <4>3. n < m
        BY <1>12, <4>2
      <4> QED  BY <4>1, <4>3, Zenon
    <3> QED  BY <3>1, <3>3, <3>4, Zenon
  <2>3. Ascending(x.events)
    BY <1>6, Zenon DEF CollectedOk
  <2> QED  BY <1>2, <1>4, <1>11, <2>1, <2>2, <2>3, Zenon DEF WorkOk
<1>15. DispatchInv'
  <2>1. last_seen' \in Nat /\ last_seen' < next_sequence'
    BY <1>2, <1>5, <1>11, <1>12, Zenon
  <2>2. ASSUME NEW u \in Threads  PROVE /\ call'[u].pc # "registry"
                                        /\ call'[u].pc = "enqueue" => WorkOk(call[u])'
    <3>1. CASE u = t
      <4>1. call'[u].pc # "registry"
        BY <1>4, <1>8, <3>1
      <4>2. WorkOk(call[u])'
        BY <1>8, <1>14, <3>1, Zenon DEF WorkOk
      <4> QED  BY <4>1, <4>2, Zenon
    <3>2. CASE u # t
      BY <1>8, <1>10, <3>2, Zenon
    <3> QED  BY <3>1, <3>2, Zenon
  <2>3. ASSUME NEW i \in Ids, NEW n \in offered[i]
        PROVE  n <= last_seen' /\ \E e \in published : e.seq = n /\ Matches(subs[i].filter, e)
    <3>1. n \in Nat /\ n <= last_seen
      BY <1>13, <2>3, Zenon
    <3>2. n <= x.latest
      BY <1>5, <1>12, <3>1
    <3>3. \E e \in published : e.seq = n /\ Matches(subs[i].filter, e)
      BY <1>3, <2>3, Zenon DEF DispatchInv
    <3> QED  BY <1>2, <3>2, <3>3, Zenon
  <2>4. ASSUME NEW i \in subscriptions, NEW e \in Range(events),
               born[i] <= e.seq, e.seq <= last_seen', Matches(subs[i].filter, e)
        PROVE  Reaches(e, i)'
    <3>1. e \in Item
      BY <1>3, <2>4, RangeItems, Zenon DEF StoreInv
    <3>2. e.seq \in Nat
      BY <3>1, ItemParts, Zenon
    <3>3. CASE e.seq <= last_seen
      <4>1. Reaches(e, i)
        BY <1>3, <2>4, <3>3, Zenon DEF DispatchInv
      <4> QED  BY <1>10, <1>11, <4>1, Zenon DEF Reaches
    <3>4. CASE last_seen < e.seq
      <4>1. e \in Range(x.events)
        BY <1>2, <1>6, <2>4, <3>4, Zenon DEF CollectedOk
      <4>2. PICK j \in 1..Len(x.events) : x.events[j] = e
        <5>1. Range(x.events) = {x.events[k] : k \in 1..Len(x.events)}
          BY <1>5, RangeItems, Zenon
        <5> QED  BY <4>1, <5>1, Zenon
      <4>3. PICK w : w = <<j, i>>
        BY Zenon
      <4>4. w \in (1..Len(x.events)) \X subscriptions /\ w[1] = j /\ w[2] = i
        BY <4>3
      <4>5. w \in c.work /\ c.events[w[1]] = e
        BY <1>4, <2>4, <4>2, <4>4, Zenon
      <4> QED  BY <1>4, <1>8, <4>4, <4>5, Zenon DEF Reaches
    <3> QED  BY <1>12, <3>2, <3>3, <3>4
  <2> QED  BY <1>11, <2>1, <2>2, <2>3, <2>4, Zenon DEF DispatchInv
<1>16. DispatchSame /\ dispatcher' = dispatcher
  BY <1>2, SMTT(30) DEF DispatchSame, NoneChanges, storeVars
<1> QED  BY <1>2, <1>7, <1>9, <1>15, <1>16, DispatcherKeeps, ZenonT(60)

LEMMA DispatchDoneKeeps ==
  ASSUME SubscriptionInv, NEW t \in Threads, DispatchDone(t)  PROVE SubscriptionInv'
<1>1. /\ call[t].pc = "enqueue" /\ call[t].work = {} /\ Step(t, Idle) /\ dispatcher' = None
      /\ UNCHANGED <<storeVars, subs, subscriptions, next_subscription_id, last_seen,
                     offered, popped, returned, born>>
  BY SMTT(30) DEF DispatchDone, historyVars
<1>2. StoreInv /\ TableInv /\ CallsInv /\ DispatchInv
  BY Zenon DEF SubscriptionInv
<1>3. dispatcher = t /\ Busy(call[t])
  BY <1>1, <1>2, SMTT(30) DEF CallsInv, Busy
<1>4. /\ call'[t] = Idle /\ \A u \in Threads : u # t => call'[u] = call[u]
  BY <1>1, <1>2, StepLookup, Zenon
<1>5. ~InCallback(call[t]) /\ ~InCallback(Idle) /\ ~Busy(Idle) /\ CallOk(Idle, subs)
  BY <1>1 DEF InCallback, Busy, CallOk, Idle
<1>6. \A u \in Threads : Busy(call[u]) => u = t
  BY <1>2, <1>3, OnlyDispatcher, Zenon
<1>7. \A u \in Threads : ~Busy(call'[u])
  BY <1>4, <1>5, <1>6, Zenon
<1>8. \A e, i : Reaches(e, i) => Reaches(e, i)'
  <2>1. \A u \in Threads : call[u].pc = "enqueue" => call[u].work = {}
    BY <1>1, <1>6 DEF Busy
  <2> QED  BY <1>1, <2>1, Zenon DEF Reaches
<1>9. DispatchInv'
  <2>1. /\ last_seen' = last_seen /\ next_sequence' = next_sequence /\ events' = events
        /\ published' = published /\ Ids' = Ids /\ offered' = offered /\ subs' = subs
        /\ subscriptions' = subscriptions /\ born' = born
    BY <1>1 DEF storeVars, Ids
  <2>2. \A u \in Threads : call'[u].pc # "registry" /\ call'[u].pc # "enqueue"
    BY <1>7 DEF Busy
  <2> QED  BY <1>2, <1>8, <2>1, <2>2, Zenon DEF DispatchInv
<1>10. DispatchSame
  BY <1>1 DEF DispatchSame, NoneChanges, storeVars
<1>11. /\ dispatcher' # t
       /\ \A u \in Threads : u # t => (dispatcher' = u <=> dispatcher = u)
  BY <1>1, <1>3, SubscriptionAssumption, Zenon
<1> QED  BY <1>1, <1>5, <1>9, <1>10, <1>11, DispatcherKeeps, Zenon

LEMMA DispatchEnqueueKeeps ==
  ASSUME QueueFacts, SubscriptionInv, NEW t \in Threads, DispatchEnqueue(t)
  PROVE  SubscriptionInv'
<1>1. PICK x, w : /\ x = call[t] /\ x.pc = "enqueue" /\ w \in x.work
                  /\ \A v \in x.work : Before(w, v)
                  /\ subs' = [subs EXCEPT ![w[2]] = Enqueued(@, x.events[w[1]])]
                  /\ offered' = [offered EXCEPT ![w[2]] = @ \cup {x.events[w[1]].seq}]
                  /\ Step(t, [x EXCEPT !.work = @ \ {w}])
  BY Zenon DEF DispatchEnqueue
<1>2. UNCHANGED <<storeVars, subscriptions, next_subscription_id, last_seen, dispatcher, popped,
                  returned, born>>
  BY DEF DispatchEnqueue
<1>3. StoreInv /\ TableInv /\ CallsInv /\ DispatchInv /\ QueuesInv /\ CloseFinal
  BY Zenon DEF SubscriptionInv
<1>4. x = [pc |-> x.pc, events |-> x.events, work |-> x.work] /\ x.events \in Seq(Item)
  <2>1. CallOk(x, subs)
    BY <1>1, <1>3, Zenon DEF CallsInv
  <2> QED  BY <1>1, <2>1, Zenon DEF CallOk
<1>5. PICK c : c = [x EXCEPT !.work = x.work \ {w}]
  BY Zenon
<1>6. /\ Step(t, c) /\ c.pc = "enqueue" /\ c.events = x.events /\ c.work = x.work \ {w}
      /\ c = [pc |-> c.pc, events |-> c.events, work |-> c.work]
  BY <1>1, <1>4, <1>5, Zenon
<1>7. WorkOk(x)
  <2>1. call[t].pc = "enqueue" => WorkOk(call[t])
    BY <1>3, Zenon DEF DispatchInv
  <2> QED  BY <1>1, <2>1, Zenon
<1>8. PICK k, e, s : k = w[2] /\ e = x.events[w[1]] /\ s = subs[k]
  BY Zenon
<1>9. /\ w \in (1..Len(x.events)) \X Ids /\ Matches(s.filter, e) /\ \A n \in offered[k] : n < e.seq
  BY <1>1, <1>7, <1>8, Zenon DEF WorkOk
<1>10. w[1] \in 1..Len(x.events) /\ k \in Ids /\ w = <<w[1], k>>
  BY <1>8, <1>9
<1>11. e \in published /\ e.seq <= last_seen
  BY <1>7, <1>8, <1>10, Zenon DEF WorkOk
<1>12. PICK r, o : r = Enqueued(s, e) /\ o = offered[k] \cup {e.seq}
  BY Zenon
<1>13. /\ QueueOk(r, o, popped[k], published) /\ r.filter = s.filter /\ r.active = s.active
       /\ (s.closed => r.closed) /\ (s.closing => r.closing)
  <2>1. QueueOk(s, offered[k], popped[k], published)
    BY <1>8, <1>10, OneLookup, Zenon
  <2>2. published \in SUBSET Item /\ \A y \in published : y.type # "loss" /\ y.count = 0
    BY <1>3, Zenon DEF StoreInv
  <2> QED  BY <1>9, <1>11, <1>12, <2>1, <2>2, EnqueueKeeps, ZenonT(60) DEF QueueFacts
<1>14. OneChanges(k, r, o, popped[k])
  <2>1. popped = [popped EXCEPT ![k] = popped[k]]
    BY <1>10, OneLookup, Zenon
  <2>2. subs' = [subs EXCEPT ![k] = r] /\ offered' = [offered EXCEPT ![k] = o]
    BY <1>1, <1>8, <1>12, Zenon
  <2> QED  BY <1>2, <2>1, <2>2, Zenon DEF OneChanges, storeVars
<1>15. returned' = returned /\ returned' \subseteq Ids
  BY <1>2, <1>3, Zenon DEF TableInv
<1>16. /\ TableInv' /\ QueuesInv' /\ SameTable /\ subs'[k] = r /\ offered'[k] = o
       /\ \A i \in Ids : i # k => subs'[i] = subs[i] /\ offered'[i] = offered[i]
  <2>1. r.filter = subs[k].filter /\ (subs[k].closing => r.closing)
    BY <1>8, <1>13, Zenon
  <2>2. QueueOk(r, o, popped[k], published) /\ k \in Ids
    BY <1>10, <1>13, Zenon
  <2> QED  BY <1>3, <1>14, <1>15, <2>1, <2>2, OneKeeps, ZenonT(60)
<1>17. StoreInv' /\ Grows
  BY <1>2, <1>3, StoreKept, Zenon
<1>18. dispatcher = t /\ dispatcher' = dispatcher
  BY <1>1, <1>2, <1>3 DEF CallsInv
<1>19. /\ Busy(c) /\ CallOk(c, subs') /\ ~InCallback(c) /\ ~InCallback(call[t])
  BY <1>1, <1>4, <1>6 DEF Busy, CallOk, InCallback
<1>20. CallsInv'
  BY <1>3, <1>6, <1>16, <1>18, <1>19, CallsKept, Zenon
<1>21. /\ call'[t] = c /\ \A u \in Threads : u # t => call'[u] = call[u]
  BY <1>3, <1>6, StepLookup, Zenon
<1>22. CloseFinal'
  <2>1. \A i \in Ids : subs'[i].active = subs[i].active /\ (subs[i].closed => subs'[i].closed)
    BY <1>8, <1>13, <1>16, Zenon
  <2> QED  BY <1>3, <1>6, <1>15, <1>16, <1>19, <2>1, DeliveriesKept, Zenon
<1>23. ASSUME NEW u \in Threads, u # t  PROVE call'[u].pc # "registry" /\ call'[u].pc # "enqueue"
  <2>1. ~Busy(call[u])
    BY <1>3, <1>18, <1>23, OnlyDispatcher, Zenon
  <2> QED  BY <1>21, <1>23, <2>1 DEF Busy
<1>24. /\ last_seen' = last_seen /\ next_sequence' = next_sequence /\ events' = events
       /\ published' = published /\ subscriptions' = subscriptions /\ born' = born
  BY <1>2, SMTT(30) DEF storeVars
<1>25. Ids' = Ids /\ \A i \in Ids : subs'[i].filter = subs[i].filter
  BY <1>16, Zenon DEF SameTable
<1>26. WorkOk(c)'
  <2>1. ASSUME NEW v \in c.work
        PROVE  /\ v \in (1..Len(x.events)) \X Ids /\ Matches(subs'[v[2]].filter, x.events[v[1]])
               /\ \A n \in offered'[v[2]] : n < x.events[v[1]].seq
    <3>1. v \in x.work /\ v # w
      BY <1>6, <2>1, Zenon
    <3>2. /\ v \in (1..Len(x.events)) \X Ids /\ Matches(subs[v[2]].filter, x.events[v[1]])
          /\ \A n \in offered[v[2]] : n < x.events[v[1]].seq
      BY <1>7, <3>1, Zenon DEF WorkOk
    <3>3. v[1] \in 1..Len(x.events) /\ v[2] \in Ids /\ v = <<v[1], v[2]>>
      BY <3>2
    <3>4. Matches(subs'[v[2]].filter, x.events[v[1]])
      BY <1>25, <3>2, <3>3, Zenon
    <3>5. CASE v[2] # k
      BY <1>16, <3>2, <3>3, <3>4, <3>5, Zenon
    <3>6. CASE v[2] = k
      <4>1. v[1] # w[1]
        BY <1>10, <3>1, <3>3, <3>6, Zenon
      <4>2. w[1] < v[1]
        <5>1. Before(w, v)
          BY <1>1, <3>1, Zenon
        <5> QED  BY <4>1, <5>1, Zenon DEF Before
      <4>3. e.seq < x.events[v[1]].seq
        BY <1>7, <1>8, <1>10, <3>3, <4>2, Zenon DEF WorkOk, Ascending
      <4>4. \A n \in offered'[v[2]] : n < x.events[v[1]].seq
        BY <1>12, <1>16, <3>2, <3>6, <4>3, Zenon
      <4> QED  BY <3>2, <3>4, <4>4, Zenon
    <3> QED  BY <3>5, <3>6, Zenon
  <2>2. /\ Ascending(x.events)
        /\ \A i \in 1..Len(x.events) : x.events[i] \in published /\ x.events[i].seq <= last_seen
    BY <1>7, Zenon DEF WorkOk
  <2> QED  BY <1>6, <1>24, <1>25, <2>1, <2>2, Zenon DEF WorkOk
<1>27. DispatchInv'
  <2>1. last_seen' \in Nat /\ last_seen' < next_sequence'
    BY <1>3, <1>24, Zenon DEF DispatchInv
  <2>2. ASSUME NEW u \in Threads  PROVE /\ call'[u].pc # "registry"
                                        /\ call'[u].pc = "enqueue" => WorkOk(call[u])'
    <3>1. CASE u = t
      <4>1. call'[u].pc # "registry"
        BY <1>6, <1>21, <3>1, SMTT(30)
      <4>2. WorkOk(call[u])'
        BY <1>21, <1>26, <3>1, Zenon DEF WorkOk
      <4> QED  BY <4>1, <4>2, Zenon
    <3>2. CASE u # t
      BY <1>23, <3>2, Zenon
    <3> QED  BY <3>1, <3>2, Zenon
  <2>3. ASSUME NEW i \in Ids, NEW n \in offered'[i]
        PROVE  n <= last_seen /\ \E d \in published : d.seq = n /\ Matches(subs'[i].filter, d)
    <3>1. \A m \in offered[i] :
            m <= last_seen /\ \E d \in published : d.seq = m /\ Matches(subs[i].filter, d)
      BY <1>3, Zenon DEF DispatchInv
    <3>2. subs'[i].filter = subs[i].filter
      BY <1>25, Zenon
    <3>3. CASE n \in offered[i]
      BY <3>1, <3>2, <3>3, Zenon
    <3>4. CASE i = k /\ n = e.seq
      BY <1>8, <1>9, <1>11, <3>2, <3>4, Zenon
    <3> QED  BY <1>12, <1>16, <2>3, <3>3, <3>4, Zenon
  <2>4. ASSUME NEW i \in subscriptions, NEW d \in Range(events),
               born[i] <= d.seq, d.seq <= last_seen, Matches(subs'[i].filter, d)
        PROVE  Reaches(d, i)'
    <3>1. i \in Ids /\ subs'[i].filter = subs[i].filter
      BY <1>3, <1>25, Zenon DEF TableInv
    <3>2. Reaches(d, i)
      BY <1>3, <2>4, <3>1, Zenon DEF DispatchInv
    <3>3. CASE d.seq \in offered[i]
      <4>1. d.seq \in offered'[i]
        BY <1>12, <1>16, <3>1, <3>3, Zenon
      <4> QED  BY <4>1, Zenon DEF Reaches
    <3>4. CASE \E u \in Threads : /\ call[u].pc = "enqueue"
                                  /\ \E v \in call[u].work : v[2] = i /\ call[u].events[v[1]] = d
      <4>1. PICK u \in Threads : /\ call[u].pc = "enqueue"
                                 /\ \E v \in call[u].work : v[2] = i /\ call[u].events[v[1]] = d
        BY <3>4, Zenon
      <4>2. u = t
        BY <1>21, <1>23, <4>1, Zenon
      <4>3. PICK v \in x.work : v[2] = i /\ x.events[v[1]] = d
        BY <1>1, <4>1, <4>2, Zenon
      <4>4. CASE v = w
        <5>1. i = k /\ d = e
          BY <1>8, <4>3, <4>4, Zenon
        <5>2. d.seq \in offered'[i]
          BY <1>12, <1>16, <5>1, Zenon
        <5> QED  BY <5>2, Zenon DEF Reaches
      <4>5. CASE v # w
        <5>1. v \in c.work /\ c.events[v[1]] = d
          BY <1>6, <4>3, <4>5, Zenon
        <5> QED  BY <1>6, <1>21, <4>3, <5>1, Zenon DEF Reaches
      <4> QED  BY <4>4, <4>5, Zenon
    <3> QED  BY <3>2, <3>3, <3>4, Zenon DEF Reaches
  <2> QED  BY <1>24, <1>25, <2>1, <2>2, <2>3, <2>4, Zenon DEF DispatchInv
<1> QED  BY <1>16, <1>17, <1>20, <1>22, <1>27, Zenon DEF SubscriptionInv

-----------------------------------------------------------------------------
(* A new subscription *)

(* One more entry of a table.                                               *)
Extends(r, q, x, k) == r = Append(q, x) /\ k = Len(q) + 1

Longer(r, q, x, k, T) ==
  /\ r \in Seq(T) /\ Len(r) = k /\ r[k] = x /\ \A i \in 1..Len(q) : r[i] = q[i]
  /\ 1..Len(r) = 1..Len(q) \cup {k} /\ k \notin 1..Len(q)

LEMMA OneMore ==
  ASSUME NEW T, NEW q \in Seq(T), NEW x \in T, NEW r, NEW k, Extends(r, q, x, k)
  PROVE  Longer(r, q, x, k, T)
BY SMTT(30) DEF Extends, Longer

(* The table with one more entry.                                           *)
TableGrows(k, s) ==
  /\ Ids' = Ids \cup {k} /\ k \notin Ids /\ subs'[k] = s /\ offered'[k] = {} /\ popped'[k] = <<>>
  /\ born'[k] = next_sequence /\ subscriptions' = subscriptions \cup {k}
  /\ \A i \in Ids : /\ subs'[i] = subs[i] /\ offered'[i] = offered[i]
                    /\ popped'[i] = popped[i] /\ born'[i] = born[i]

LEMMA SubscribeTable ==
  ASSUME QueueFacts, SubscriptionInv, NEW f \in Filters, NEW l \in Limits, Subscribe(f, l)
  PROVE  TableInv' /\ \E k \in Nat : TableGrows(k, NewSubscription(f, l))
<1>1. PICK k, s : k = next_subscription_id /\ s = NewSubscription(f, l)
  BY Zenon
<1>2. /\ subs' = Append(subs, s) /\ offered' = Append(offered, {}) /\ popped' = Append(popped, <<>>)
      /\ born' = Append(born, next_sequence) /\ subscriptions' = subscriptions \cup {k}
      /\ next_subscription_id' = k + 1 /\ returned' = returned
  BY <1>1, Zenon DEF Subscribe, NewSubscription
<1>3. /\ subs \in Seq(Subscription) /\ offered \in Seq(SUBSET Nat) /\ popped \in Seq(Seq(Item))
      /\ born \in Seq(Nat) /\ Len(offered) = Len(subs) /\ Len(popped) = Len(subs)
      /\ Len(born) = Len(subs) /\ k = Len(subs) + 1 /\ subscriptions \in SUBSET Ids
      /\ returned \in SUBSET Ids
  BY <1>1, Zenon DEF SubscriptionInv, TableInv
<1>4. s \in Subscription
  <2>1. QueueOk(s, {}, <<>>, published)
    BY <1>1, NewKeeps, Zenon DEF QueueFacts
  <2> QED  BY <2>1, Zenon DEF QueueOk
<1>5. {} \in SUBSET Nat /\ <<>> \in Seq(Item) /\ next_sequence \in Nat
  BY DEF SubscriptionInv, StoreInv
<1>6. k \in Nat
  BY <1>3
<1>7. /\ subs' \in Seq(Subscription) /\ Len(subs') = k /\ subs'[k] = s
      /\ \A i \in 1..Len(subs) : subs'[i] = subs[i]
      /\ 1..Len(subs') = 1..Len(subs) \cup {k} /\ k \notin 1..Len(subs)
  <2>1. Extends(subs', subs, s, k)
    BY <1>2, <1>3, Zenon DEF Extends
  <2>2. Longer(subs', subs, s, k, Subscription)
    BY <1>3, <1>4, <2>1, OneMore, Zenon
  <2> QED  BY <2>2, Zenon DEF Longer
<1>8. /\ offered' \in Seq(SUBSET Nat) /\ Len(offered') = k /\ offered'[k] = {}
      /\ \A i \in 1..Len(subs) : offered'[i] = offered[i]
  <2>1. Extends(offered', offered, {}, k)
    BY <1>2, <1>3, Zenon DEF Extends
  <2>2. Longer(offered', offered, {}, k, SUBSET Nat)
    BY <1>3, <1>5, <2>1, OneMore, Zenon
  <2> QED  BY <1>3, <2>2, Zenon DEF Longer
<1>9. /\ popped' \in Seq(Seq(Item)) /\ Len(popped') = k /\ popped'[k] = <<>>
      /\ \A i \in 1..Len(subs) : popped'[i] = popped[i]
  <2>1. Extends(popped', popped, <<>>, k)
    BY <1>2, <1>3, Zenon DEF Extends
  <2>2. Longer(popped', popped, <<>>, k, Seq(Item))
    BY <1>3, <1>5, <2>1, OneMore, Zenon
  <2> QED  BY <1>3, <2>2, Zenon DEF Longer
<1>10. /\ born' \in Seq(Nat) /\ Len(born') = k /\ born'[k] = next_sequence
       /\ \A i \in 1..Len(subs) : born'[i] = born[i]
  <2>1. Extends(born', born, next_sequence, k)
    BY <1>2, <1>3, Zenon DEF Extends
  <2>2. Longer(born', born, next_sequence, k, Nat)
    BY <1>3, <1>5, <2>1, OneMore, Zenon
  <2> QED  BY <1>3, <2>2, Zenon DEF Longer
<1>11. Ids = 1..Len(subs) /\ Ids' = 1..Len(subs')
  BY Zenon DEF Ids
<1>12. Ids' = Ids \cup {k} /\ k \notin Ids
  BY <1>7, <1>11, Zenon
<1>13. TableGrows(k, s)
  BY <1>2, <1>7, <1>8, <1>9, <1>10, <1>11, <1>12, Zenon DEF TableGrows
<1>14. TableInv'
  <2>1. subscriptions' \in SUBSET Ids' /\ returned' \in SUBSET Ids'
    BY <1>2, <1>3, <1>12, Zenon
  <2>2. next_subscription_id' = Len(subs') + 1
    BY <1>2, <1>7, Zenon
  <2> QED  BY <1>7, <1>8, <1>9, <1>10, <2>1, <2>2, Zenon DEF TableInv
<1> QED  BY <1>1, <1>6, <1>13, <1>14, Zenon

(* The callbacks are of subscriptions that are there.                       *)
LEMMA DeliveringKnown ==
  ASSUME CallsInv, NEW k, k \notin Ids  PROVE Delivering(k) = {}
<1>1. ASSUME NEW u \in Threads, InCallback(call[u])  PROVE call[u].sub \in Ids
  <2>1. CallOk(call[u], subs)
    BY Zenon DEF CallsInv
  <2> QED  BY <1>1, <2>1 DEF CallOk, InCallback, Ids
<1> QED  BY <1>1, Zenon DEF Delivering

LEMMA SubscribeKeeps ==
  ASSUME QueueFacts, SubscriptionInv, NEW f \in Filters, NEW l \in Limits, Subscribe(f, l)
  PROVE  SubscriptionInv'
<1>1. PICK s : s = NewSubscription(f, l)
  BY Zenon
<1>2. TableInv' /\ \E k \in Nat : TableGrows(k, s)
  BY <1>1, SubscribeTable, Zenon
<1>3. PICK k \in Nat : TableGrows(k, s)
  BY <1>2, Zenon
<1>4. StoreInv /\ TableInv /\ CallsInv /\ DispatchInv /\ QueuesInv /\ CloseFinal
  BY Zenon DEF SubscriptionInv
<1>5. /\ UNCHANGED <<storeVars, last_seen, dispatcher, call, returned>>
  BY DEF Subscribe
<1>6. StoreInv'
  BY <1>4, <1>5, StoreKept, Zenon
<1>7. CallsInv'
  <2>1. ASSUME NEW x, CallOk(x, subs)  PROVE CallOk(x, subs')
    <3>1. \A i \in 1..Len(subs) : i \in 1..Len(subs') /\ subs'[i] = subs[i]
      BY <1>3, Zenon DEF TableGrows, Ids
    <3> QED  BY <2>1, <3>1, Zenon DEF CallOk
  <2> QED  BY <1>4, <1>5, <2>1, Zenon DEF CallsInv
<1>8. QueuesInv'
  <2>1. QueueOk(s, {}, <<>>, published)
    BY <1>1, NewKeeps, Zenon DEF QueueFacts
  <2>2. published' = published
    BY <1>5 DEF storeVars
  <2> QED  BY <1>3, <1>4, <2>1, <2>2, Zenon DEF QueuesInv, TableGrows
<1>9. DispatchInv'
  <2>1. /\ last_seen' = last_seen /\ next_sequence' = next_sequence /\ events' = events
        /\ published' = published /\ call' = call
    BY <1>5 DEF storeVars
  <2>2. \A i \in Ids : i \in Ids' /\ subs'[i] = subs[i] /\ offered'[i] = offered[i]
    BY <1>3, Zenon DEF TableGrows
  <2>3. \A u \in Threads : call'[u].pc = "registry" => CollectedOk(call[u])'
    BY <1>4, <2>1, Zenon DEF DispatchInv, CollectedOk
  <2>4. ASSUME NEW u \in Threads, call'[u].pc = "enqueue"  PROVE WorkOk(call[u])'
    <3>1. PICK x : x = call[u] /\ x = call'[u]
      BY <2>1, Zenon
    <3>2. WorkOk(x)
      <4>1. call[u].pc = "enqueue" => WorkOk(call[u])
        BY <1>4, Zenon DEF DispatchInv
      <4> QED  BY <2>4, <3>1, <4>1, Zenon
    <3>3. \A w \in x.work : w \in (1..Len(x.events)) \X Ids /\ w[2] \in Ids
      BY <3>2 DEF WorkOk
    <3>4. \A w \in x.work : w \in (1..Len(x.events)) \X Ids'
      BY <2>2, <3>3
    <3>5. WorkOk(x)'
      BY <2>1, <2>2, <3>2, <3>3, <3>4, Zenon DEF WorkOk
    <3> QED  BY <3>1, <3>5, Zenon DEF WorkOk
  <2>5. ASSUME NEW i \in Ids', NEW n \in offered'[i]
        PROVE  n <= last_seen /\ \E e \in published : e.seq = n /\ Matches(subs'[i].filter, e)
    <3>1. i \in Ids
      BY <1>3, <2>5, Zenon DEF TableGrows
    <3> QED  BY <1>4, <2>2, <2>5, <3>1, Zenon DEF DispatchInv
  <2>6. ASSUME NEW i \in subscriptions', NEW e \in Range(events),
               born'[i] <= e.seq, e.seq <= last_seen, Matches(subs'[i].filter, e)
        PROVE  Reaches(e, i)'
    <3>1. i # k
      <4>1. e.seq \in Nat
        <5>1. e \in Item
          BY <1>4, <2>6, RangeItems, Zenon DEF StoreInv
        <5> QED  BY <5>1, ItemParts, Zenon
      <4>2. last_seen \in Nat /\ next_sequence \in Nat /\ last_seen < next_sequence
        BY <1>4, Zenon DEF DispatchInv, StoreInv
      <4>3. ~(next_sequence <= e.seq)
        BY <2>6, <4>1, <4>2
      <4> QED  BY <1>3, <2>6, <4>3, Zenon DEF TableGrows
    <3>2. i \in subscriptions /\ i \in Ids /\ born'[i] = born[i]
      BY <1>3, <1>4, <2>6, <3>1, Zenon DEF TableGrows, TableInv
    <3>3. Reaches(e, i)
      BY <1>4, <2>2, <2>6, <3>2, Zenon DEF DispatchInv
    <3> QED  BY <2>1, <2>2, <3>2, <3>3, Zenon DEF Reaches
  <2>7. last_seen' \in Nat /\ last_seen' < next_sequence'
    BY <1>4, <2>1, Zenon DEF DispatchInv
  <2> QED  BY <2>1, <2>3, <2>4, <2>5, <2>6, <2>7, Zenon DEF DispatchInv
<1>10. CloseFinal'
  <2>1. \A i : Delivering(i)' = Delivering(i)
    BY <1>5, Zenon DEF Delivering
  <2>2. Delivering(k) = {} /\ k \notin Ids
    BY <1>3, <1>4, DeliveringKnown, Zenon DEF TableGrows
  <2>3. s.active = 0 /\ Cardinality({}) = 0
    BY <1>1, Zenon DEF NewSubscription, QueueFacts, SetFacts
  <2>4. \A i \in Ids' : subs'[i].active = Cardinality(Delivering(i)')
    BY <1>3, <1>4, <2>1, <2>2, <2>3, Zenon DEF TableGrows, CloseFinal
  <2>5. \A i \in returned' : Delivering(i)' = {} /\ subs'[i].closed
    BY <1>3, <1>4, <1>5, <2>1, Zenon DEF TableGrows, CloseFinal, TableInv
  <2> QED  BY <2>4, <2>5, Zenon DEF CloseFinal
<1> QED  BY <1>2, <1>6, <1>7, <1>8, <1>9, <1>10, Zenon DEF SubscriptionInv

-----------------------------------------------------------------------------
(* Every step *)

LEMMA NextKeeps ==
  ASSUME QueueFacts, SubscriptionInv, [Next]_vars  PROVE SubscriptionInv'
<1>1. CASE ActivateCatalog
  BY <1>1, ActivateCatalogKeeps, Zenon
<1>2. CASE \E d \in Drafts : PublishEvent(d)
  BY <1>2, PublishEventKeeps, Zenon
<1>3. CASE \E f \in Filters, l \in Limits : Subscribe(f, l)
  BY <1>3, SubscribeKeeps, Zenon
<1>4. ASSUME NEW t \in Threads, DispatchSince(t) \/ DrainStart(t) \/ ThreadStep(t)
      PROVE  SubscriptionInv'
  <2>1. CASE DispatchSince(t)
    BY <2>1, DispatchSinceKeeps, Zenon
  <2>2. CASE DrainStart(t)
    BY <2>2, DrainStartKeeps, Zenon
  <2>3. CASE DispatchRegistry(t)
    BY <2>3, DispatchRegistryKeeps, Zenon
  <2>4. CASE DispatchEnqueue(t)
    BY <2>4, DispatchEnqueueKeeps, Zenon
  <2>5. CASE DispatchDone(t)
    BY <2>5, DispatchDoneKeeps, Zenon
  <2>6. CASE DrainPublish(t)
    BY <2>6, DrainPublishKeeps, Zenon
  <2>7. CASE DeliverPop(t)
    BY <2>7, DeliverPopKeeps, Zenon
  <2>8. CASE CallbackStart(t)
    BY <2>8, CallbackStartKeeps, Zenon
  <2>9. CASE DeliverDone(t)
    BY <2>9, DeliverDoneKeeps, Zenon
  <2>10. CASE CloseClear(t)
    BY <2>10, CloseClearKeeps, Zenon
  <2>11. CASE CloseReturn(t)
    BY <2>11, CloseReturnKeeps, Zenon
  <2> QED  BY <1>4, <2>1, <2>2, <2>3, <2>4, <2>5, <2>6, <2>7, <2>8, <2>9, <2>10, <2>11, Zenon
              DEF ThreadStep
<1>5. CASE \E t \in Threads, id \in 1..(MaxSubscriptionId - 1) :
             DeliverFind(t, id) \/ CloseErase(t, id)
  BY <1>5, DeliverFindKeeps, CloseEraseKeeps, Zenon
<1>6. CASE UNCHANGED vars
  <2>1. UNCHANGED <<storeVars, subs, subscriptions, next_subscription_id, last_seen, dispatcher,
                    call, offered, popped, returned, born>>
    BY <1>6 DEF vars
  <2>2. StoreInv' /\ Grows
    BY <2>1, StoreKept, Zenon DEF SubscriptionInv
  <2>3. NoneChanges
    BY <2>1 DEF NoneChanges, storeVars
  <2> QED  BY <2>1, <2>2, <2>3, OutsideKeeps, Zenon
<1> QED  BY <1>1, <1>2, <1>3, <1>4, <1>5, <1>6, Zenon DEF Next

-----------------------------------------------------------------------------
(* What the invariant says *)

LEMMA QuotaFollows == ASSUME SubscriptionInv  PROVE QuotaExact
BY Zenon DEF SubscriptionInv, QueuesInv, QueueOk, BooksOk, OneMarker, QuotaExact

LEMMA LossFollows == ASSUME SubscriptionInv  PROVE LossAccounted
<1>1. SUFFICES ASSUME NEW id \in OpenIds
               PROVE  /\ Cardinality(Dropped(id)) = Counts(popped[id]) + Counts(subs[id].pending)
                      /\ \A n \in Dropped(id) :
                           \E m \in Range(popped[id]) \cup Range(subs[id].pending) :
                             m.type = "loss" /\ n \in m.first..m.last
                      /\ \A e \in published : isNonDroppable(e.type) => e.seq \notin Dropped(id)
  BY Zenon DEF LossAccounted
<1>2. LossOk(offered[id], popped[id], subs[id].pending, published)
  BY Zenon DEF SubscriptionInv, QueuesInv, QueueOk, OpenIds
<1>3. Dropped(id) = Missing(offered[id], popped[id], subs[id].pending)
  BY Zenon DEF Dropped, Missing
<1>4. \A d, e \in published : d.seq = e.seq => d = e
  BY Zenon DEF SubscriptionInv, StoreInv
<1>5. \A e \in published : isNonDroppable(e.type) => e.seq \notin Dropped(id)
  BY <1>2, <1>3, <1>4, ZenonT(60) DEF LossOk
<1> QED  BY <1>2, <1>3, <1>5, Zenon DEF LossOk, Told

LEMMA OrderFollows == ASSUME SubscriptionInv  PROVE QueueInOrder
<1>1. SUFFICES ASSUME NEW id \in OpenIds, NEW q, q = popped[id] \o subs[id].pending,
                      NEW i \in Plain(q), NEW j \in Plain(q), i < j
               PROVE  q[i].seq < q[j].seq
  BY Zenon DEF QueueInOrder
<1>2. PICK p, r : p = popped[id] /\ r = subs[id].pending
  BY Zenon
<1>3. QueueOk(subs[id], offered[id], p, published) /\ Open(subs[id])
  BY <1>2, ZenonT(60) DEF SubscriptionInv, QueuesInv, OpenIds
<1>4. p \in Seq(Item) /\ PlainAscending(p) /\ PlainAscending(r) /\ PlainAfter(p, r)
  BY <1>2, <1>3, Zenon DEF QueueOk
<1>5. r \in Seq(Item)
  BY <1>2, <1>3, ZenonT(60) DEF QueueOk, Subscription
<1>6. q = p \o r
  BY <1>1, <1>2, Zenon
<1>7. i \in 1..Len(q) /\ j \in 1..Len(q) /\ q[i].type # "loss" /\ q[j].type # "loss"
  BY <1>1, Zenon DEF Plain
<1>8. PICK n \in Nat : n = Len(p)
  BY <1>4, SMTT(30)
<1>9. CASE i <= n /\ j <= n
  <2>1. i \in 1..Len(p) /\ j \in 1..Len(p) /\ q[i] = p[i] /\ q[j] = p[j]
    BY <1>4, <1>5, <1>6, <1>7, <1>8, <1>9
  <2> QED  BY <1>1, <1>4, <1>7, <2>1, Zenon DEF PlainAscending, Plain
<1>10. CASE i <= n /\ n < j
  <2>1. i \in 1..Len(p) /\ j - n \in 1..Len(r) /\ q[i] = p[i] /\ q[j] = r[j - n]
    BY <1>4, <1>5, <1>6, <1>7, <1>8, <1>10, SMTT(30)
  <2> QED  BY <1>4, <1>7, <2>1, Zenon DEF PlainAfter, Plain
<1>11. CASE n < i /\ n < j
  <2>1. /\ i - n \in 1..Len(r) /\ j - n \in 1..Len(r) /\ q[i] = r[i - n] /\ q[j] = r[j - n]
        /\ i - n < j - n
    BY <1>1, <1>4, <1>5, <1>6, <1>7, <1>8, <1>11, SMTT(20)
  <2> QED  BY <1>4, <1>7, <2>1, Zenon DEF PlainAscending, Plain
<1>12. i \in Nat /\ j \in Nat
  BY <1>4, <1>5, <1>6, <1>7, SMTT(30)
<1>13. (i <= n /\ j <= n) \/ (i <= n /\ n < j) \/ (n < i /\ n < j)
  BY <1>1, <1>8, <1>12
<1> QED  BY <1>9, <1>10, <1>11, <1>13, Zenon

LEMMA CompleteFollows == ASSUME SubscriptionInv  PROVE DispatchComplete
<1>1. ASSUME dispatcher = None, NEW id \in subscriptions, NEW e \in Range(events),
             born[id] <= e.seq, e.seq <= last_seen, Matches(subs[id].filter, e)
      PROVE  e.seq \in offered[id]
  <2>1. Reaches(e, id)
    BY <1>1, Zenon DEF SubscriptionInv, DispatchInv
  <2>2. \A t \in Threads : call[t].pc # "enqueue"
    BY <1>1, SubscriptionAssumption, SMTT(30) DEF SubscriptionInv, CallsInv
  <2> QED  BY <2>1, <2>2, Zenon DEF Reaches
<1>2. ASSUME NEW id \in Ids, NEW e \in published, subs[id].filter.entity # None,
             ~subs[id].filter.follow, e.seq \in offered[id]
      PROVE  e.entity = subs[id].filter.entity
  <2>1. PICK d \in published : d.seq = e.seq /\ Matches(subs[id].filter, d)
    BY <1>2, Zenon DEF SubscriptionInv, DispatchInv
  <2>2. d = e
    BY <2>1, Zenon DEF SubscriptionInv, StoreInv
  <2> QED  BY <1>2, <2>1, <2>2, Zenon DEF Matches, SameEntity
<1> QED  BY <1>1, <1>2, Zenon DEF DispatchComplete

-----------------------------------------------------------------------------
(* The facts that the steps used.  They follow from Lemmas, whose facts are *)
(* brought in only here: the provers see every one that is in scope.        *)

INSTANCE Lemmas

LEMMA BytesRight == BytesFacts
<1>1. PICK v : v = [s \in Item |-> s.bytes]
  BY Zenon
<1>2. \A s \in Item : s.bytes \in Nat /\ v[s] = s.bytes
  BY <1>1 DEF Item
<1>3. Weighs(v, Item) /\ \A q \in Seq(Item) : Bytes(q) = Weight(q, v)
  <2>1. Weighs(v, Item)
    BY <1>1, <1>2, Zenon DEF Weighs
  <2>2. ASSUME NEW q \in Seq(Item)  PROVE Bytes(q) = Weight(q, v)
    <3>1. \A i \in 1..Len(q) : q[i].bytes = v[q[i]]
      BY <1>2
    <3>2. [i \in 1..Len(q) |-> q[i].bytes] = [i \in 1..Len(q) |-> v[q[i]]]
      BY <3>1, Zenon
    <3> QED  BY <3>2, Zenon DEF Bytes, Weight, Weights
  <2> QED  BY <2>1, <2>2, Zenon
<1>4. \A q \in Seq(Item), x \in Item : Bytes(Append(q, x)) = Bytes(q) + x.bytes
  BY <1>2, BytesAppend, Zenon
<1>5. \A q \in Seq(Item) : q # <<>> => Bytes(q) = Bytes(Tail(q)) + q[1].bytes
  BY <1>2, BytesTail, Zenon
<1>6. ASSUME NEW q \in Seq(Item), NEW n \in Nat, n <= Len(q)
      PROVE  Bytes(q) = Bytes(SubSeq(q, 1, n)) + Bytes(SubSeq(q, n + 1, Len(q)))
  <2>1. n \in 0..Len(q) /\ SubSeq(q, 1, n) \in Seq(Item) /\ SubSeq(q, n + 1, Len(q)) \in Seq(Item)
    BY <1>6, SMTT(30)
  <2>2. Weight(q, v) = Weight(SubSeq(q, 1, n), v) + Weight(SubSeq(q, n + 1, Len(q)), v)
    BY <1>3, <2>1, WeightSplit, Zenon
  <2> QED  BY <1>3, <2>1, <2>2, Zenon
<1>7. ASSUME NEW q \in Seq(Item), NEW S
      PROVE  Bytes(Keep(q, S)) + Bytes(Keep(q, Range(q) \ S)) = Bytes(q)
  <2>1. Keep(q, S) \in Seq(Item) /\ Keep(q, Range(q) \ S) \in Seq(Item)
    BY KeepPicks, Zenon
  <2>2. Weight(Keep(q, S), v) + Weight(Keep(q, Range(q) \ S), v) = Weight(q, v)
    BY <1>3, WeightKeep, Zenon
  <2> QED  BY <1>3, <2>1, <2>2, Zenon
<1>8. ASSUME NEW q \in Seq(Item), NEW r \in Seq(Item), NEW k \in 1..Len(q), Len(r) = Len(q),
             \A i \in 1..Len(q) : i # k => r[i] = q[i]
      PROVE  Bytes(r) + q[k].bytes = Bytes(q) + r[k].bytes
  <2>1. q[k] \in Item /\ r[k] \in Item
    BY <1>8, SMTT(30)
  <2>2. Weight(r, v) + v[q[k]] = Weight(q, v) + v[r[k]]
    <3>1. SameBut(r, q, k)
      BY <1>8, Zenon DEF SameBut
    <3>2. Exchanged(r, q, k, v)
      BY <1>3, <3>1, WeightChange, Zenon
    <3> QED  BY <3>2, Zenon DEF Exchanged
  <2> QED  BY <1>2, <1>3, <2>1, <2>2, Zenon
<1>9. ASSUME NEW q \in Seq(Item)  PROVE Bytes(q) \in Nat
  <2>1. PICK s : SumsOf(s, Weights(q, v), Len(q)) /\ Weight(q, v) = s[Len(q)]
    BY <1>3, WeightSums, Zenon
  <2>2. Len(q) \in 0..Len(q)
    BY SMTT(30)
  <2> QED  BY <1>3, <2>1, <2>2, SMTT(20) DEF SumsOf
<1> QED  BY <1>4, <1>5, <1>6, <1>7, <1>8, <1>9, BytesEmpty, Zenon DEF BytesFacts

LEMMA CountsRight == CountsFacts
<1>1. PICK v : v = [s \in Item |-> s.count]
  BY Zenon
<1>2. \A s \in Item : s.count \in Nat /\ v[s] = s.count
  BY <1>1 DEF Item
<1>3. Weighs(v, Item)
  BY <1>1, <1>2, Zenon DEF Weighs
<1>4. ASSUME NEW q \in Seq(Item)  PROVE Counts(q) = Weight(q, v)
  <2>1. \A i \in 1..Len(q) : q[i].count = v[q[i]]
    BY <1>2
  <2>2. [i \in 1..Len(q) |-> q[i].count] = [i \in 1..Len(q) |-> v[q[i]]]
    BY <2>1, Zenon
  <2> QED  BY <2>2, Zenon DEF Counts, Weight, Weights
<1>5. Counts(<<>>) = 0
  <2>1. Len([i \in 1..Len(<<>>) |-> <<>>[i].count]) = 0
    BY SMTT(30)
  <2> QED  BY <2>1, TotalEmpty, Zenon DEF Counts
<1>6. ASSUME NEW q \in Seq(Item)  PROVE Counts(q) \in Nat
  <2>1. PICK s : SumsOf(s, Weights(q, v), Len(q)) /\ Weight(q, v) = s[Len(q)]
    BY <1>3, WeightSums, Zenon
  <2>2. Len(q) \in 0..Len(q)
    OBVIOUS
  <2> QED  BY <1>4, <2>1, <2>2 DEF SumsOf
<1>7. ASSUME NEW q \in Seq(Item), NEW x \in Item  PROVE Counts(Append(q, x)) = Counts(q) + x.count
  <2>1. Append(q, x) \in Seq(Item)
    OBVIOUS
  <2>2. Weight(Append(q, x), v) = Weight(q, v) + v[x]
    BY <1>3, WeightAppend, Zenon
  <2> QED  BY <1>2, <1>4, <2>1, <2>2, Zenon
<1>8. ASSUME NEW q \in Seq(Item), q # <<>>  PROVE Counts(q) = Counts(Tail(q)) + q[1].count
  <2>1. Tail(q) \in Seq(Item) /\ q[1] \in Item
    BY <1>8, SMTT(30)
  <2>2. Weight(q, v) = Weight(Tail(q), v) + v[q[1]]
    BY <1>3, <1>8, WeightTail, Zenon
  <2> QED  BY <1>2, <1>4, <2>1, <2>2, Zenon
<1>9. ASSUME NEW q \in Seq(Item), NEW S
      PROVE  Counts(Keep(q, S)) + Counts(Keep(q, Range(q) \ S)) = Counts(q)
  <2>1. Keep(q, S) \in Seq(Item) /\ Keep(q, Range(q) \ S) \in Seq(Item)
    BY KeepPicks, Zenon
  <2>2. Weight(Keep(q, S), v) + Weight(Keep(q, Range(q) \ S), v) = Weight(q, v)
    BY <1>3, WeightKeep, Zenon
  <2> QED  BY <1>4, <2>1, <2>2, Zenon
<1>10. ASSUME NEW q \in Seq(Item), \A i \in 1..Len(q) : q[i].count = 0  PROVE Counts(q) = 0
  <2>1. \A i \in 1..Len(q) : q[i] \in Item
    OBVIOUS
  <2>2. \A i \in 1..Len(q) : v[q[i]] = 0
    BY <1>2, <1>10, <2>1, Zenon
  <2>3. Weight(q, v) = 0
    BY <1>3, <2>2, WeightNone, Zenon
  <2> QED  BY <1>4, <2>3, Zenon
<1>11. ASSUME NEW q \in Seq(Item), NEW r \in Seq(Item), NEW k \in 1..Len(q), Len(r) = Len(q),
              \A i \in 1..Len(q) : i # k => r[i] = q[i]
       PROVE  Counts(r) + q[k].count = Counts(q) + r[k].count
  <2>1. q[k] \in Item /\ r[k] \in Item
    BY <1>11
  <2>2. Weight(r, v) + v[q[k]] = Weight(q, v) + v[r[k]]
    <3>1. SameBut(r, q, k)
      BY <1>11, Zenon DEF SameBut
    <3>2. Exchanged(r, q, k, v)
      BY <1>3, <3>1, WeightChange, Zenon
    <3> QED  BY <3>2, Zenon DEF Exchanged
  <2> QED  BY <1>2, <1>4, <2>1, <2>2, Zenon
<1> QED  BY <1>5, <1>6, <1>7, <1>8, <1>9, <1>10, <1>11, Zenon DEF CountsFacts

LEMMA KeepRight == KeepFacts
<1>1. SUFFICES ASSUME NEW q \in Seq(Item), NEW S
               PROVE  /\ Keep(q, S) \in Seq(Item) /\ Range(Keep(q, S)) = Range(q) \cap S
                      /\ PartOf(Keep(q, S), q)
  BY Zenon DEF KeepFacts
<1>2. Keep(q, S) \in Seq(Item)
  BY KeepPicks, Zenon
<1>3. Range(Keep(q, S)) = Range(q) \cap S
  BY KeepRange
<1>4. PartOf(Keep(q, S), q)
  <2>1. Sub(Keep(q, S), q)
    BY KeepSub, Zenon
  <2> QED  BY <2>1, Zenon DEF Sub, PartOf
<1> QED  BY <1>2, <1>3, <1>4, Zenon

LEMMA SetsRight == SetFacts
<1>1. \A T \in SUBSET Nat : T # {} => Min(T) \in T /\ \A j \in T : Min(T) <= j
  BY MinNatural, Zenon
<1>2. ASSUME NEW T \in SUBSET Nat, T # {}, IsFiniteSet(T)
      PROVE  Max(T) \in T /\ \A j \in T : j <= Max(T)
  <2>1. PICK n \in Nat : \A j \in T : j <= n
    BY <1>2, FiniteBound, Zenon
  <2>2. Max(T) \in T /\ \A j \in T : Max(T) >= j
    BY <1>2, <2>1, MaxNatural, Zenon
  <2>3. PICK m \in Nat : m = Max(T)
    BY <2>2, Zenon
  <2>4. \A j \in T : j <= m
    BY <2>2, <2>3
  <2> QED  BY <2>2, <2>3, <2>4, Zenon
<1>3. IsFiniteSet({}) /\ Cardinality({}) = 0
  BY FS_EmptySet, Zenon
<1>4. ASSUME NEW A, NEW B, IsFiniteSet(A), B \subseteq A
      PROVE  IsFiniteSet(B) /\ Cardinality(B) \in Nat
  <2>1. IsFiniteSet(B)
    BY <1>4, FS_Subset, Zenon
  <2> QED  BY <2>1, FS_CardinalityType, Zenon
<1>5. ASSUME NEW A, NEW B, IsFiniteSet(A), IsFiniteSet(B)
      PROVE  IsFiniteSet(A \cup B)
  BY <1>5, FS_Union, Zenon
<1>6. \A x, y : IsFiniteSet({x, y})
  <2>1. ASSUME NEW x, NEW y  PROVE IsFiniteSet({x, y})
    <3>1. IsFiniteSet({x} \cup {y})
      BY <1>5, FS_Singleton, Zenon
    <3>2. {x} \cup {y} = {x, y}
      BY Zenon
    <3> QED  BY <3>1, <3>2, Zenon
  <2> QED  BY <2>1, Zenon
<1>7. ASSUME NEW A, NEW x, IsFiniteSet(A), x \notin A
      PROVE  IsFiniteSet(A \cup {x}) /\ Cardinality(A \cup {x}) = Cardinality(A) + 1
  BY <1>7, FS_AddElement, SMTT(20)
<1>8. ASSUME NEW A, NEW B, IsFiniteSet(A), IsFiniteSet(B), A \cap B = {}
      PROVE  Cardinality(A \cup B) = Cardinality(A) + Cardinality(B)
  <2>1. Cardinality(A) \in Nat /\ Cardinality(B) \in Nat
    BY <1>8, FS_CardinalityType, Zenon
  <2>2. Cardinality(A \cup B) = Cardinality(A) + Cardinality(B) - Cardinality(A \cap B)
    BY <1>8, FS_Union, SMTT(20)
  <2>3. Cardinality(A \cap B) = 0
    BY <1>3, <1>8, Zenon
  <2> QED  BY <2>1, <2>2, <2>3, SMTT(20)
<1>9. \A A : IsFiniteSet(A) /\ Cardinality(A) = 0 => A = {}
  BY FS_EmptySet, Zenon
<1>10. ASSUME NEW q \in Seq(Item), \A i, j \in 1..Len(q) : q[i].seq = q[j].seq => i = j
       PROVE  /\ IsFiniteSet({q[i].seq : i \in 1..Len(q)})
              /\ Cardinality({q[i].seq : i \in 1..Len(q)}) = Len(q)
  <2>1. PICK f, n, S : /\ n = Len(q) /\ S = {q[i].seq : i \in 1..n}
                       /\ f = [i \in 1..n |-> q[i].seq]
    BY Zenon
  <2>2. f \in [1..n -> S] /\ \A i \in 1..n : f[i] = q[i].seq
    BY <2>1, Zenon
  <2>3. \A i, j \in 1..n : f[i] = f[j] => i = j
    BY <1>10, <2>1, <2>2, Zenon
  <2>4. \A x \in S : \E i \in 1..n : f[i] = x
    BY <2>1, <2>2, Zenon
  <2>5. n \in Nat
    BY <2>1
  <2>6. Numbers(f, n, S)
    BY <2>2, <2>3, <2>4, Zenon DEF Numbers
  <2>7. IsFiniteSet(S) /\ Cardinality(S) = n
    BY <2>5, <2>6, NumberedSet, Zenon
  <2> QED  BY <2>1, <2>7, Zenon
<1> QED  BY <1>1, <1>2, <1>3, <1>4, <1>5, <1>6, <1>7, <1>8, <1>9, <1>10, Zenon DEF SetFacts

(* The event log and the subscriptions keep SubscriptionInv: it holds when  *)
(* the daemon starts and after every publish, dispatch, delivery, drain and *)
(* close, by whatever threads.                                              *)
THEOREM SubscriptionInvHolds == Spec => []SubscriptionInv
<1>1. QueueFacts
  BY BytesRight, CountsRight, KeepRight, SetsRight, Zenon DEF QueueFacts
<1>2. Init => SubscriptionInv
  BY <1>1, StartsRight, Zenon
<1>3. SubscriptionInv /\ [Next]_vars => SubscriptionInv'
  BY <1>1, NextKeeps, Zenon
<1> QED  BY <1>2, <1>3, PTL DEF Spec

(* EventStore::publish, whatever is published and whatever the limits: the  *)
(* log holds the newest events, in order, within max_events and max_bytes,  *)
(* its byte count is the sum of what it holds, and eviction never empties   *)
(* it.                                                                      *)
THEOREM LogExactCorrect == Spec => []LogExact
<1>1. SubscriptionInv => LogExact
  BY Zenon DEF SubscriptionInv, StoreInv
<1> QED  BY <1>1, SubscriptionInvHolds, PTL

(* A subscription stays within its quota however slow its consumer and      *)
(* however many events arrive: enqueue bounds the queue, accounts for its   *)
(* bytes, merges loss markers into one and empties it on close.             *)
THEOREM QuotaExactCorrect == Spec => []QuotaExact
<1>1. SubscriptionInv => QuotaExact
  BY QuotaFollows, Zenon
<1> QED  BY <1>1, SubscriptionInvHolds, PTL

(* Every event is delivered at most once and in the order of publication,   *)
(* loss markers aside, whichever threads dispatch and deliver.              *)
THEOREM QueueInOrderCorrect == Spec => []QueueInOrder
<1>1. SubscriptionInv => QueueInOrder
  BY OrderFollows, Zenon
<1> QED  BY <1>1, SubscriptionInvHolds, PTL

(* A subscription is told of every event that enqueue dropped: the counts   *)
(* of the loss markers add up to exactly the events dropped, their ranges   *)
(* cover them, and the draining event is never dropped.                     *)
THEOREM LossAccountedCorrect == Spec => []LossAccounted
<1>1. SubscriptionInv => LossAccounted
  BY LossFollows, Zenon
<1> QED  BY <1>1, SubscriptionInvHolds, PTL

(* Between dispatches an open subscription has been offered all matching    *)
(* events that the log still has, from the time it was made, and none of a  *)
(* rediscovered entity that it does not follow.                             *)
THEOREM DispatchCompleteCorrect == Spec => []DispatchComplete
<1>1. SubscriptionInv => DispatchComplete
  BY CompleteFollows, Zenon
<1> QED  BY <1>1, SubscriptionInvHolds, PTL

(* When close returns no callback of the subscription is running and none   *)
(* will start, and active_deliveries is the number of callbacks under way,  *)
(* for any number of threads that deliver and close at the same time.       *)
THEOREM CloseFinalCorrect == Spec => []CloseFinal
<1>1. SubscriptionInv => CloseFinal
  BY Zenon DEF SubscriptionInv
<1> QED  BY <1>1, SubscriptionInvHolds, PTL

=============================================================================
