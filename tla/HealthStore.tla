---------------------------- MODULE HealthStore ----------------------------
(***************************************************************************)
(* Heartbeat evidence and health in DataManager (data_manager.cpp):         *)
(* commitHeartbeatEvidence and commitHealth.                                *)
(***************************************************************************)
EXTENDS DataManager

CONSTANTS
  MaxEvidenceItems, MaxEvidenceBytes, EvidenceTtl, MaxEvidenceId,
  MaxHealthEntries, MaxHealthResultBytes, MaxHealthBytes

ASSUME HealthStoreAssumption ==
  {MaxEvidenceItems, MaxEvidenceBytes, EvidenceTtl, MaxEvidenceId,
   MaxHealthEntries, MaxHealthResultBytes, MaxHealthBytes} \subseteq Nat \ {0}

Statuses == {"valid", "stale", "not_available", "unsupported", "error"}

-----------------------------------------------------------------------------
(* commitHeartbeatEvidence; the drafts carry id 0 *)

(* f with the value v for k.                                                *)
With(f, k, v) == [x \in DOMAIN f \cup {k} |-> IF x = k THEN v ELSE f[x]]

validateFirmwareHeartbeatEvidence(ev) ==
  /\ ev.status # "stale"
  /\ IF ev.status = "valid"
     THEN ev.class # "unknown_native" /\ ev.sample # None /\ ev.failure = None
     ELSE ev.class = "unknown_native" /\ ev.failure # None

(* The stored evidence latest_heartbeat_ names for an entity, if any.       *)
LatestEvidence(entity) ==
  {ev \in Range(heartbeat_evidence) :
     entity \in DOMAIN latest_heartbeat /\ ev.id = latest_heartbeat[entity]}

sameHeartbeatEvidence(a, b) == [a EXCEPT !.id = 0] = [b EXCEPT !.id = 0]

(* Valid evidence has a newer token and sample than the last valid one.     *)
NewerThanValid(ev) ==
  LET valid == {i \in 1..Len(heartbeat_evidence) :
                  /\ heartbeat_evidence[i].entity = ev.entity
                  /\ heartbeat_evidence[i].status = "valid"}
      last == heartbeat_evidence[Max(valid)]
  IN  \/ ev.status # "valid" \/ valid = {}
      \/ ev.token > last.token /\ ev.sample > last.sample

is_referenced(id) == \E e \in DOMAIN health : \E r \in health[e].evidence : r.id = id

(* Mutant: what health refers to may be evicted.                            *)
EvictableReferenced(c, ev) == c.id # ev.id

Evictable(c, ev) == c.id # ev.id /\ ~is_referenced(c.id)

(* What is too old is evicted, wherever it is.                              *)
Young(ev) ==
  LET all == Append(heartbeat_evidence, ev)
  IN  Keep(all, {c \in Range(all) : ~(Evictable(c, ev) /\ ev.time - c.time > EvidenceTtl)})

(* q without what can be evicted of its first n members.                    *)
Without(q, n, ev) ==
  Keep(q, Range(q) \ {q[i] : i \in {j \in 1..n : Evictable(q[j], ev)}})

Fits(q) == Len(q) <= MaxEvidenceItems /\ Bytes(q) <= MaxEvidenceBytes

(* The store with ev, without what is too old and, from the oldest on,      *)
(* without as much as has to go; None if that is not enough.                *)
WithEvidence(ev) ==
  LET enough == {n \in 0..Len(Young(ev)) : Fits(Without(Young(ev), n, ev))}
  IN  IF enough = {} THEN None ELSE Without(Young(ev), Min(enough), ev)

NewEvidence(ev) == [ev EXCEPT !.id = next_evidence_id]

EvidenceStatus(ev) ==
  IF ~validateFirmwareHeartbeatEvidence(ev) THEN "invalid_argument"
  ELSE IF catalog.generation = 0 THEN "not_initialized"
  ELSE IF catalog.unsupported THEN "unsupported"
  ELSE IF ev.generation # catalog.generation \/ ev.entity \notin catalog.entities
       THEN "stale_generation"
  ELSE IF ~ev.mapped \/ ~catalog.supported THEN "unsupported"
  ELSE IF commit_epoch = MaxEpoch \/ next_evidence_id = MaxEvidenceId THEN "internal"
  ELSE IF \E c \in LatestEvidence(ev.entity) : sameHeartbeatEvidence(c, ev) THEN "same"
  ELSE IF \E c \in LatestEvidence(ev.entity) : ev.time <= c.time THEN "stale_generation"
  ELSE IF ~NewerThanValid(ev) THEN "stale_generation"
  ELSE IF WithEvidence(NewEvidence(ev)) = None THEN "resource_exhausted" ELSE "ok"

CommitHeartbeatEvidence(ev) ==
  /\ EvidenceStatus(ev) = "ok"
  /\ heartbeat_evidence' = WithEvidence(NewEvidence(ev))
  /\ latest_heartbeat' = With(latest_heartbeat, ev.entity, next_evidence_id)
  /\ next_evidence_id' = next_evidence_id + 1
  /\ commit_epoch' = commit_epoch + 1
  /\ UNCHANGED <<catalog, storeVars, tombstones, health, eventVars, retired>>

-----------------------------------------------------------------------------
(* commitHealth *)

isDeterminateHealth(state) == state # "unknown"

codeMatchesState(state, code) ==
  CASE state = "healthy" -> code = "ok"
    [] state = "warning" -> code = "warning"
    [] state = "error" -> code = "fault"
    [] OTHER -> code \notin {"ok", "warning", "fault"}

validateHealthResult(r) ==
  /\ r.age >= 0
  /\ codeMatchesState(r.state, r.code)
  /\ IF isDeterminateHealth(r.state)
     THEN r.item_status = "valid" /\ r.evidence # {}
     ELSE r.item_status # "valid"

healthResultBytes(r) ==
  1 + Cardinality(r.evidence) + IF r.limitation = None THEN 0 ELSE 1

EvidenceRef(ev) == [id |-> ev.id, token |-> ev.token, sample |-> ev.sample, time |-> ev.time]

OfCatalog(r) == r.generation = catalog.generation /\ r.entity \in catalog.entities

HealthStatus(r) ==
  LET others == DOMAIN health \ {r.entity}
  IN  IF ~validateHealthResult(r) THEN "invalid_argument"
      ELSE IF healthResultBytes(r) > MaxHealthResultBytes THEN "resource_exhausted"
      ELSE IF catalog.generation = 0 THEN "not_initialized"
      ELSE IF ~OfCatalog(r) THEN "stale_generation"
      ELSE IF \E ref \in r.evidence : \A ev \in Range(heartbeat_evidence) :
                ev.entity # r.entity \/ ev.generation # r.generation \/ EvidenceRef(ev) # ref
           THEN "not_found"
      ELSE IF \/ Cardinality(others) >= MaxHealthEntries
              \/ healthResultBytes(r)
                 + MapThenSumSet(LAMBDA e : healthResultBytes(health[e]), others) > MaxHealthBytes
           THEN "resource_exhausted"
      ELSE IF commit_epoch = MaxEpoch THEN "internal" ELSE "ok"

(* Mutant: a new code for the same state is no change.                      *)
StateChangedState(r) ==
  IF r.entity \in DOMAIN health THEN health[r.entity].state # r.state
  ELSE isDeterminateHealth(r.state)

(* A first result is a change if it is determinate.                         *)
StateChanged(r) ==
  IF r.entity \in DOMAIN health
  THEN LET old == health[r.entity]
       IN  <<old.state, old.code, old.limitation>> # <<r.state, r.code, r.limitation>>
  ELSE isDeterminateHealth(r.state)

HealthChange(r) ==
  LET known == r.entity \in DOMAIN health
  IN  [type |-> "health", generation |-> r.generation, epoch |-> commit_epoch + 1,
       from |-> IF known THEN health[r.entity].state ELSE "unknown",
       from_code |-> IF known THEN health[r.entity].code ELSE "missing",
       to |-> r.state, to_code |-> r.code]

CommitHealth(t, r) ==
  /\ HealthStatus(r) = "ok"
  /\ health' = With(health, r.entity, r)
  /\ commit_epoch' = commit_epoch + 1
  /\ outbox' = [outbox EXCEPT ![t] = IF StateChanged(r) THEN <<HealthChange(r)>> ELSE <<>>]
  /\ UNCHANGED <<catalog, storeVars, tombstones, heartbeat_evidence, latest_heartbeat,
                 next_evidence_id, log, retired>>

=============================================================================
