---------------------------- MODULE DataManager ----------------------------
(***************************************************************************)
(* DataManager (data_manager.cpp): the latest results, last valid values    *)
(* and bounded history of every metric, the heartbeat evidence and the      *)
(* health derived from it, all of one catalog generation.                   *)
(*                                                                         *)
(* Each operation holds state_mutex_ (and, for metrics, every shard's       *)
(* mutex) while it changes the stores, so it is one step; what it publishes *)
(* goes to the event log after the unlock, and waits in outbox until then.  *)
(* Here are its state and activateCatalog.  MetricStore has the operations  *)
(* on metrics, which QueryEngine calls, and HealthStore those on evidence   *)
(* and health, which MetricsManager calls.                                  *)
(***************************************************************************)
EXTENDS Integers, Sequences, FiniteSetsExt, Functions, Sizes

CONSTANTS
  Threads,
  None,
  MaxEpoch,            \* the value of commit_epoch_ at which commits give up
  MaxTombstones

ASSUME DataAssumption == {MaxEpoch, MaxTombstones} \subseteq Nat \ {0}

VARIABLES
  catalog,             \* catalog_
  commit_epoch,        \* commit_epoch_
  entries,             \* the entries of all shards, by key
  tombstones,          \* tombstones_
  heartbeat_evidence,  \* heartbeat_evidence_
  latest_heartbeat,    \* latest_heartbeat_
  health,              \* health_
  next_evidence_id,    \* next_evidence_id_
  outbox,              \* what each thread has still to publish
  log,                 \* the events published, in EventStore's order
  committed,           \* history: the observations of this catalog, in order
  retired              \* history: every tombstone made

storeVars == <<entries, committed>>
evidenceVars == <<heartbeat_evidence, latest_heartbeat, health, next_evidence_id>>
eventVars == <<outbox, log>>
dataVars == <<catalog, commit_epoch, storeVars, tombstones, evidenceVars,
              eventVars, retired>>

Entity == [id : Nat, generation : Nat \ {0}]
Catalog == [generation : Nat, entities : SUBSET Entity, unsupported : BOOLEAN,
            supported : BOOLEAN]

DataInit ==
  /\ catalog = [generation |-> 0, entities |-> {}, unsupported |-> FALSE,
                supported |-> FALSE]
  /\ commit_epoch = 0
  /\ entries = <<>>
  /\ tombstones = <<>> /\ retired = <<>>
  /\ heartbeat_evidence = <<>> /\ latest_heartbeat = <<>> /\ health = <<>>
  /\ next_evidence_id = 1
  /\ outbox = [t \in Threads |-> <<>>]
  /\ log = <<>>
  /\ committed = <<>>

sameLogicalEntity(a, b) == a.id = b.id

(* The last n members of a sequence, or all of it.                          *)
Last_n(s, n) == IF Len(s) <= n THEN s ELSE SubSeq(s, Len(s) - n + 1, Len(s))

-----------------------------------------------------------------------------
(* activateCatalog *)

(* Mutant: a catalog that is active already is activated again.             *)
NewerOrSame(c) == c.generation >= catalog.generation

Newer(c) == c.generation > catalog.generation

(* A catalog that is not newer changes nothing.                             *)
ActivateCatalog(t, c) ==
  /\ Newer(c)
  /\ catalog' = c
  /\ entries' = <<>> /\ committed' = <<>>
  /\ heartbeat_evidence' = <<>> /\ latest_heartbeat' = <<>> /\ health' = <<>>
  /\ LET removed == {[entity |-> e, generation |-> c.generation] :
                      e \in catalog.entities \ c.entities}
         gone == CHOOSE q \in [1..Cardinality(removed) -> removed] : Range(q) = removed
     IN  /\ tombstones' = Last_n(tombstones \o gone, MaxTombstones)
         /\ retired' = retired \o gone
  /\ outbox' = [outbox EXCEPT ![t] = <<[type |-> "catalog", generation |-> c.generation]>>]
  /\ UNCHANGED <<commit_epoch, next_evidence_id, log>>

PublishNext(t) ==
  /\ outbox[t] # <<>>
  /\ log' = Append(log, Head(outbox[t]))
  /\ outbox' = [outbox EXCEPT ![t] = Tail(@)]
  /\ UNCHANGED <<catalog, commit_epoch, storeVars, tombstones, evidenceVars, retired>>

=============================================================================
