----------------------- MODULE MCSubscriptionManager -----------------------
(***************************************************************************)
(* SubscriptionManager for TLC.  Bounds keeps a state only if it lies       *)
(* within one of three scenarios.                                           *)
(***************************************************************************)
EXTENDS SubscriptionManager, TLC

CONSTANTS t1, t2

D(type, severity, entity, metric, health, bytes) ==
  [type |-> type, severity |-> severity, entity |-> entity, metric |-> metric,
   health |-> health, bytes |-> bytes]
E(id, generation) == [id |-> id, generation |-> generation]
F(types, severity, entity, metrics, health, follow) ==
  [types |-> types, severity |-> severity, entity |-> entity, metrics |-> metrics,
   health |-> health, follow |-> follow]

(* Two metrics and a larger state change.                                   *)
MCDrafts ==
  {D("metric", 0, E(1, 1), 1, None, 1), D("metric", 0, E(1, 1), 2, None, 1),
   D("entity", 1, E(1, 1), None, None, 2)}

(* The entity is rediscovered; a health change; a malformed update; one too *)
(* large for the store.                                                     *)
MCEntityDrafts ==
  {D("metric", 0, E(1, 1), 1, None, 1), D("metric", 0, E(1, 2), 1, None, 1),
   D("health", 2, E(1, 2), None, "heartbeat", 1), D("metric", 0, None, 1, None, 1),
   D("capability", 1, None, None, None, 5)}

MCFewDrafts ==
  {D("metric", 0, E(1, 1), 1, None, 1), D("entity", 1, E(1, 1), None, None, 2)}

MCAllDrafts == MCDrafts \cup MCEntityDrafts

MCAll == F(EventTypes, 0, None, {}, None, FALSE)
MCFilters == {MCAll}
MCEntityFilters ==
  {F({"metric", "health"}, 0, E(1, 1), {}, None, FALSE),
   F({"metric", "health"}, 1, E(1, 1), {}, "heartbeat", TRUE),
   F({"metric", "draining"}, 0, None, {1}, None, FALSE)}
MCAllFilters == MCFilters \cup MCEntityFilters

MCLimits == {[max_events |-> 2, max_bytes |-> 3]}

(* Events of these drafts only, and subscriptions with these filters.       *)
Inputs(drafts, filters) ==
  /\ \A e \in published :
       \/ e.type = "draining"
       \/ \E d \in drafts : /\ e.type = d.type /\ e.entity = d.entity
                            /\ e.metric = d.metric /\ e.bytes = d.bytes
  /\ \A id \in Ids : subs[id].filter \in filters

OneThread == Cardinality({t \in Threads : call[t] # Idle}) <= 1
NoGaps == next_sequence = Cardinality(published) + 1

(* One queue under pressure, there before the first event.                  *)
Pressure ==
  /\ OneThread /\ NoGaps /\ Len(subs) <= 1 /\ Inputs(MCDrafts, MCFilters)
  /\ \A id \in Ids : born[id] = 1
  /\ subs = <<>> => published = {}

(* Filters against a rediscovered entity; an event too large for the store. *)
Rediscovery ==
  /\ OneThread /\ next_sequence <= 3 /\ Len(subs) <= 1
  /\ Inputs(MCEntityDrafts, MCEntityFilters)

(* Two threads on two subscriptions.                                        *)
Threading ==
  NoGaps /\ next_sequence <= 3 /\ Inputs(MCFewDrafts, MCFilters)

Bounds == Pressure \/ Rediscovery \/ Threading

ThreadSymmetry == Permutations(Threads)

=============================================================================
