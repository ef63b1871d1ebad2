----------------------------- MODULE EventStore -----------------------------
(***************************************************************************)
(* EventStore (event_store.cpp): the bounded log of events that             *)
(* DataManager publishes and SubscriptionManager reads.  mutex_ is held for *)
(* the whole of publish and since, so each is one step.                     *)
(*                                                                         *)
(* An event's size is a number; entity is a pair of an identity and its     *)
(* generation.  first, last and count are those of SubscriptionLossPayload. *)
(***************************************************************************)
EXTENDS Integers, Sequences, FiniteSets, FiniteSetsExt, Functions, Sizes

CONSTANTS
  Drafts,         \* the EventDrafts the source modules publish
  None,           \* an absent entity, metric or health subsystem
  MaxStoreEvents, MaxStoreBytes,  \* EventStoreLimits
  MaxSequence     \* the value of next_sequence_ at which publish gives up

EventTypes == {"catalog", "entity", "capability", "metric", "health", "provider",
               "loss", "draining"}

(* No module publishes a loss marker: lossMarker makes them for one queue.  *)
Draft == [type : EventTypes \ {"loss"}, severity : 0..3,
          entity : [id : Nat, generation : Nat] \cup {None},
          metric : Nat \cup {None}, health : {"heartbeat", None}, bytes : Nat]

ASSUME EventStoreAssumption ==
  /\ Drafts \subseteq Draft
  /\ MaxStoreEvents \in Nat \ {0} /\ MaxStoreBytes \in Nat \ {0}
  /\ MaxSequence \in Nat \ {0}

VARIABLES
  events,         \* events_
  next_sequence,  \* next_sequence_
  stored_bytes,   \* stored_bytes_
  published       \* history: every event that was stored

storeVars == <<events, next_sequence, stored_bytes, published>>

isNonDroppable(type) == type \in {"loss", "draining"}

Event(d, sequence) ==
  [type |-> d.type, severity |-> d.severity, entity |-> d.entity,
   metric |-> d.metric, health |-> d.health, bytes |-> d.bytes,
   seq |-> sequence, first |-> 0, last |-> 0, count |-> 0]

(* publish rejects a malformed draft.                                       *)
WellFormed(d) ==
  /\ d.type = "metric" => d.entity # None /\ d.metric # None
  /\ d.type = "health" => d.health = "heartbeat"

StoreInit ==
  /\ events = <<>>
  /\ next_sequence = 1
  /\ stored_bytes = 0
  /\ published = {}

(* Mutant: events go only for their number, not for their bytes.            *)
EvictedByCount(q, total) == IF Len(q) > MaxStoreEvents THEN Len(q) - MaxStoreEvents ELSE 0

(* How many of the oldest events go until both limits hold.                 *)
Evicted(q, total) ==
  LET Fits(n) == /\ Len(q) - n <= MaxStoreEvents
                 /\ total - Bytes(SubSeq(q, 1, n)) <= MaxStoreBytes
  IN  CHOOSE n \in 0..Len(q) : Fits(n) /\ \A k \in 0..(n - 1) : ~Fits(k)

(* An event too large for the store uses up its sequence number.            *)
Publish(d) ==
  LET e == Event(d, next_sequence)
      all == Append(events, e)
      n == Evicted(all, stored_bytes + d.bytes)
  IN  /\ WellFormed(d)
      /\ next_sequence # MaxSequence
      /\ next_sequence' = next_sequence + 1
      /\ \/ /\ d.bytes > MaxStoreBytes
            /\ UNCHANGED <<events, stored_bytes, published>>
         \/ /\ d.bytes <= MaxStoreBytes
            /\ events' = SubSeq(all, n + 1, Len(all))
            /\ stored_bytes' = stored_bytes + d.bytes - Bytes(SubSeq(all, 1, n))
            /\ published' = published \cup {e}

(* Mutant: the first new event is skipped.                                  *)
SinceSkips(sequence) == Keep(events, {e \in Range(events) : e.seq > sequence + 1})

(* The events after a sequence number, and the last number given out.       *)
Since(sequence) == Keep(events, {e \in Range(events) : e.seq > sequence})
LatestSequence == next_sequence - 1

(* The log stays within both limits, its bytes are accounted for, and it    *)
(* holds the newest events: what it has lost is older than all it has, and  *)
(* its sequence numbers go up (publish).                                    *)
LogExact ==
  /\ Len(events) <= MaxStoreEvents
  /\ stored_bytes = Bytes(events) /\ stored_bytes <= MaxStoreBytes
  /\ \A i, j \in 1..Len(events) : i < j => events[i].seq < events[j].seq
  /\ \A i \in 1..Len(events) : events[i] \in published
  /\ \A e \in published \ Range(events) :
       \A i \in 1..Len(events) : e.seq < events[i].seq
  /\ published # {} => events # <<>>

=============================================================================
