----------------------- MODULE MetricsManager_proofs -------------------------
(***************************************************************************)
(* Heartbeat evidence, health and the catalog they are of, for every number *)
(* of threads, every sequence of catalogs and readings and every limit.     *)
(*                                                                         *)
(* ManagerInv is inductive.  It says what is stored (DataType, EvidenceInv, *)
(* HealthInv) and what a thread remembers from one step of its call to the  *)
(* next while other threads change the stores (CallOk).  The point of both  *)
(* is that an id is never used twice: evidence that a thread or a stored    *)
(* result refers to by its id may be evicted but not replaced.  EventInv    *)
(* adds the changes of health that were published.                         *)
(***************************************************************************)
EXTENDS MetricsManager, Lemmas

-----------------------------------------------------------------------------
(* What is stored, and what the threads know of it.                         *)

EvidenceRecord ==
  [id : Nat, entity : Entity, generation : Nat, time : Nat,
   class : DOMAIN NativeState \cup {"unknown_native"}, status : Statuses, token : Nat,
   sample : Nat \cup {None}, failure : {None, "timeout", "unavailable", "other"},
   mapped : BOOLEAN, bytes : Nat]

DataType ==
  /\ catalog \in Catalogs \/ (catalog.generation = 0 /\ catalog.entities = {})
  /\ commit_epoch \in Nat /\ next_evidence_id \in Nat
  /\ heartbeat_evidence \in Seq(EvidenceRecord)
  /\ DOMAIN outbox = Threads

(* Valid evidence has a class that says something about the device.         *)
Classified(ev) == ev.status = "valid" => ev.class \in DOMAIN NativeState

Ordered(q) ==
  \A i, j \in 1..Len(q) : i < j =>
    /\ q[i].id < q[j].id /\ q[i].time < q[j].time
    /\ q[i].status = "valid" /\ q[j].status = "valid" => q[i].token < q[j].token

EvidenceInv ==
  /\ EvidenceOrdered
  /\ \A ev \in Range(heartbeat_evidence) :
       /\ ev.id < next_evidence_id /\ Classified(ev)
       /\ ev.generation = catalog.generation /\ ev.entity \in catalog.entities

(* The next store has nothing new but evidence with ids that are new.       *)
Grows(q, n, q2, n2) ==
  /\ n \in Nat /\ n2 \in Nat /\ n <= n2
  /\ \A ev \in Range(q2) : ev.id \in Nat /\ (ev \in Range(q) \/ ev.id >= n)

(* ev was stored, and if it still is it has not changed.                    *)
Known(ev, q, n) ==
  /\ ev \in EvidenceRecord /\ Classified(ev) /\ ev.id < n
  /\ \A e \in Range(q) : e.id = ev.id => e = ev

Justifies(ev, h) ==
  /\ isDeterminateHealth(h.state) =>
       ev.status = "valid" /\ NativeState[ev.class] = h.state /\ h.age <= Freshness
  /\ h.code = "stale" => ev.status = "valid" /\ h.age > Freshness

(* h rests on evidence that was stored; what still is justifies it.         *)
Justified(h, q, n) ==
  /\ \A ref \in h.evidence : ref.id \in Nat /\ ref.id < n
  /\ \A ev \in Range(q) : EvidenceRef(ev) \in h.evidence => Justifies(ev, h)

HealthInv ==
  \A e \in DOMAIN health :
    /\ Justified(health[e], heartbeat_evidence, next_evidence_id)
    /\ health[e].generation = catalog.generation /\ e \in catalog.entities
    /\ \A ref \in health[e].evidence :
         \E ev \in Range(heartbeat_evidence) : ev.entity = e /\ EvidenceRef(ev) = ref

Fresh(c) ==
  isDeterminateHealth(c.result.state) =>
    /\ c.result.age <= Freshness
    /\ c.request.max_age \in 1..MaxTime => c.result.age <= c.request.max_age
    /\ c.request.heartbeat \/ ~isDeterminateHealth(c.item.state)

(* What a thread remembers from one step of its call to the next.           *)
CallOk(c, q, n) ==
  /\ c.pc \in {"activate", "install"} => c.catalog \in Catalogs
  /\ c.pc = "collected" => c.evidence \in EvidenceRecord
  /\ c.pc = "snapshot" => /\ c.op \in {"evidence", "provider", "freshness", "query"}
                          /\ c.op = "query" => c.request \in Requests
  /\ c.pc \in {"evidence", "provider", "freshness", "age", "query"} => c.time \in Nat
  /\ c.pc = "query" => c.request \in Requests
  /\ c.pc = "evaluate" => Known(c.evidence, q, n)
  /\ c.pc = "commit" => Justified(c.result, q, n)
  /\ c.pc = "answer" => Fresh(c)

CallInv ==
  /\ DOMAIN call = Threads /\ now \in Nat /\ runtime.generation \in Nat
  /\ \A t \in Threads : CallOk(call[t], heartbeat_evidence, next_evidence_id)

(* What is left of an ordered evidence store is ordered.                    *)
LEMMA SubOrdered ==
  ASSUME NEW w, NEW q, Sub(w, q), Ordered(q)
  PROVE  Ordered(w)
<1>1. PICK p \in [1..Len(w) -> 1..Len(q)] :
        /\ \A j \in 1..Len(w) : w[j] = q[p[j]]
        /\ \A i, j \in 1..Len(w) : i < j => p[i] < p[j]
  BY DEF Sub
<1> SUFFICES ASSUME NEW i \in 1..Len(w), NEW j \in 1..Len(w), i < j
             PROVE  /\ w[i].id < w[j].id /\ w[i].time < w[j].time
                    /\ w[i].status = "valid" /\ w[j].status = "valid" => w[i].token < w[j].token
  BY DEF Ordered
<1>2. p[i] < p[j] /\ p[i] \in 1..Len(q) /\ p[j] \in 1..Len(q) /\ w[i] = q[p[i]] /\ w[j] = q[p[j]]
  BY <1>1
<1> QED  BY <1>2 DEF Ordered

(* What commitHeartbeatEvidence stores: some of what was stored and ev, in  *)
(* the same order and within the limits, and all that cannot be evicted.    *)
LEMMA WithEvidenceFacts ==
  ASSUME heartbeat_evidence \in Seq(EvidenceRecord), NEW ev \in EvidenceRecord,
         WithEvidence(ev) # None
  PROVE  LET all == Append(heartbeat_evidence, ev)
             w == WithEvidence(ev)
         IN  /\ all \in Seq(EvidenceRecord) /\ w \in Seq(EvidenceRecord)
             /\ Fits(w) /\ Sub(w, all)
             /\ Range(w) \subseteq Range(heartbeat_evidence) \cup {ev}
             /\ \A c \in Range(heartbeat_evidence) \cup {ev} : ~Evictable(c, ev) => c \in Range(w)
<1> DEFINE all == Append(heartbeat_evidence, ev)
           y == Young(ev)
           w == WithEvidence(ev)
<1>1. all \in Seq(EvidenceRecord) /\ Range(all) = Range(heartbeat_evidence) \cup {ev}
  BY RangeAppend
<1> HIDE DEF all
<1>2. y = Keep(all, {c \in Range(all) : ~(Evictable(c, ev) /\ ev.time - c.time > EvidenceTtl)})
  BY DEF Young, all
<1> HIDE DEF y
<1>3. y \in Seq(EvidenceRecord) /\ Sub(y, all)
  BY <1>1, <1>2, KeepPicks, KeepSub
<1>4. /\ Range(y) \subseteq Range(all)
      /\ \A c \in Range(all) : ~Evictable(c, ev) => c \in Range(y)
  <2>1. Range(y) = Range(all) \cap
                     {c \in Range(all) : ~(Evictable(c, ev) /\ ev.time - c.time > EvidenceTtl)}
    BY <1>1, <1>2, KeepRange
  <2> QED  BY <2>1, Zenon
<1>5. PICK n \in 0..Len(y) : w = Without(y, n, ev) /\ Fits(w)
  <2> DEFINE enough == {n \in 0..Len(y) : Fits(Without(y, n, ev))}
  <2>1. w = (IF enough = {} THEN None ELSE Without(y, Min(enough), ev))
    BY DEF WithEvidence, y
  <2>2. enough # {} /\ w = Without(y, Min(enough), ev)
    BY <2>1
  <2>3. enough \in SUBSET Nat
    BY <1>3
  <2>4. Min(enough) \in enough
    <3> HIDE DEF enough
    <3> QED  BY <2>2, <2>3, MinNatural
  <2> QED  BY <2>2, <2>4, Zenon
<1> HIDE DEF w
<1> DEFINE S == Range(y) \ {y[i] : i \in {j \in 1..n : Evictable(y[j], ev)}}
<1>6. w = Keep(y, S)
  BY <1>5 DEF Without
<1>7. \A c \in Range(y) : ~Evictable(c, ev) => c \in S
  BY Zenon
<1> HIDE DEF S
<1>8. w \in Seq(EvidenceRecord) /\ Sub(w, y) /\ Range(w) = Range(y) \cap S
  BY <1>3, <1>6, KeepPicks, KeepSub, KeepRange, Zenon
<1>9. Sub(w, all)
  BY <1>3, <1>8, SubTrans
<1>10. Range(w) \subseteq Range(all) /\ \A c \in Range(all) : ~Evictable(c, ev) => c \in Range(w)
  BY <1>4, <1>7, <1>8, Zenon
<1> QED  BY <1>1, <1>5, <1>8, <1>9, <1>10, Zenon DEF all, w


-----------------------------------------------------------------------------
(* The evidence.                                                            *)

(* What commitHeartbeatEvidence has checked of evidence it accepts.         *)
LEMMA EvidenceAccepted ==
  ASSUME NEW ev, EvidenceStatus(ev) = "ok"
  PROVE  /\ validateFirmwareHeartbeatEvidence(ev)
         /\ catalog.generation # 0
         /\ ev.generation = catalog.generation /\ ev.entity \in catalog.entities
         /\ \A c \in LatestEvidence(ev.entity) : ~(ev.time <= c.time)
         /\ NewerThanValid(ev)
         /\ WithEvidence(NewEvidence(ev)) # None
BY DEF EvidenceStatus

(* A catalog has one device at most.                                        *)
LEMMA OneEntity ==
  ASSUME DataType
  PROVE  \A d, e \in catalog.entities : d = e
BY MetricsAssumption DEF DataType

(* The record that is stored has its type, and the next number.             *)
LEMMA NewEvidenceType ==
  ASSUME DataType, NEW ev \in EvidenceRecord
  PROVE  /\ NewEvidence(ev) \in EvidenceRecord
         /\ NewEvidence(ev).id = next_evidence_id
         /\ NewEvidence(ev).entity = ev.entity /\ NewEvidence(ev).generation = ev.generation
         /\ NewEvidence(ev).time = ev.time /\ NewEvidence(ev).token = ev.token
         /\ NewEvidence(ev).status = ev.status /\ NewEvidence(ev).class = ev.class
BY Zenon DEF DataType, EvidenceRecord, NewEvidence

(* The numbers in the store are below the new one.                          *)
LEMMA EvidenceNumbers ==
  \A ev \in EvidenceRecord : ev.id \in Nat /\ ev.time \in Nat /\ ev.token \in Nat
BY DEF EvidenceRecord

(* New evidence is later than all that is stored.                           *)
LEMMA AppendOrdered ==
  ASSUME DataType, EvidenceInv, NEW ev \in EvidenceRecord, EvidenceStatus(ev) = "ok"
  PROVE  Ordered(Append(heartbeat_evidence, NewEvidence(ev)))
<1> DEFINE q == heartbeat_evidence
           n == NewEvidence(ev)
           a == Append(q, n)
<1>1. /\ q \in Seq(EvidenceRecord) /\ n \in EvidenceRecord /\ next_evidence_id \in Nat
      /\ n.id = next_evidence_id /\ n.time = ev.time /\ n.token = ev.token /\ n.status = ev.status
  BY NewEvidenceType DEF DataType
<1>2. Ordered(q) /\ \A i \in 1..Len(q) : q[i].id < next_evidence_id /\ q[i].entity = ev.entity
  <2>1. Ordered(q)
    BY DEF EvidenceInv, EvidenceOrdered, Ordered
  <2>2. \A i \in 1..Len(q) : q[i] \in Range(q)
    BY <1>1, RangeOf
  <2>3. ev.entity \in catalog.entities
    BY EvidenceAccepted
  <2> QED  BY <2>1, <2>2, <2>3, OneEntity, Zenon DEF EvidenceInv
<1>3. \A i \in 1..Len(q) : q[i].time < n.time
  <2> SUFFICES ASSUME NEW i \in 1..Len(q)  PROVE  q[i].time < n.time
    OBVIOUS
  <2>1. q[Len(q)] \in LatestEvidence(ev.entity)
    <3>1. q # <<>> /\ Len(q) \in 1..Len(q) /\ q[Len(q)].entity = ev.entity
      BY <1>1, <1>2
    <3>2. latest_heartbeat = [e \in {ev.entity} |-> q[Len(q)].id]
      BY <3>1 DEF EvidenceInv, EvidenceOrdered
    <3>3. q[Len(q)] \in Range(q)
      BY <1>1, <3>1, RangeOf
    <3> QED  BY <3>2, <3>3 DEF LatestEvidence
  <2>2. ~(ev.time <= q[Len(q)].time)
    BY <2>1, EvidenceAccepted, Zenon
  <2>3. /\ q[i] \in EvidenceRecord /\ q[Len(q)] \in EvidenceRecord /\ Len(q) \in Nat
        /\ i = Len(q) \/ q[i].time < q[Len(q)].time
    BY <1>1, <1>2 DEF Ordered
  <2>4. q[i].time \in Nat /\ q[Len(q)].time \in Nat /\ ev.time \in Nat
    BY <2>3, EvidenceNumbers, Zenon
  <2> QED  BY <1>1, <2>2, <2>3, <2>4
<1>4. \A i \in 1..Len(q) : q[i].status = "valid" /\ n.status = "valid" => q[i].token < n.token
  <2> SUFFICES ASSUME NEW i \in 1..Len(q), q[i].status = "valid", n.status = "valid"
               PROVE  q[i].token < n.token
    OBVIOUS
  <2> DEFINE valid == {j \in 1..Len(q) : q[j].entity = ev.entity /\ q[j].status = "valid"}
  <2>1. i \in valid /\ valid \subseteq Nat /\ Len(q) \in Nat /\ \A j \in valid : j <= Len(q)
    BY <1>1, <1>2
  <2>2. ev.token > q[Max(valid)].token
    BY <1>1, <2>1, EvidenceAccepted, Zenon DEF NewerThanValid
  <2>3. Max(valid) \in valid /\ i <= Max(valid)
    <3> HIDE DEF valid
    <3> QED  BY <2>1, MaxNatural, Zenon
  <2>4. i = Max(valid) \/ q[i].token < q[Max(valid)].token
    BY <1>2, <2>3 DEF Ordered
  <2>5. q[i].token \in Nat /\ q[Max(valid)].token \in Nat /\ ev.token \in Nat
    <3>1. q[i] \in EvidenceRecord /\ q[Max(valid)] \in EvidenceRecord
      BY <1>1, <2>3
    <3> QED  BY <3>1, EvidenceNumbers, Zenon
  <2> HIDE DEF valid
  <2> QED  BY <1>1, <2>2, <2>4, <2>5
<1>5. /\ Len(a) = Len(q) + 1 /\ Len(q) \in Nat /\ a[Len(q) + 1] = n
      /\ \A i \in 1..Len(q) : a[i] = q[i]
  BY <1>1
<1> HIDE DEF a, n, q
<1> SUFFICES ASSUME NEW i \in 1..Len(a), NEW j \in 1..Len(a), i < j
             PROVE  /\ a[i].id < a[j].id /\ a[i].time < a[j].time
                    /\ a[i].status = "valid" /\ a[j].status = "valid" => a[i].token < a[j].token
  BY DEF Ordered, a, q, n
<1>6. CASE j \in 1..Len(q)
  BY <1>2, <1>5, <1>6 DEF Ordered
<1>7. CASE j = Len(q) + 1
  BY <1>1, <1>2, <1>3, <1>4, <1>5, <1>7
<1> QED  BY <1>5, <1>6, <1>7, SMTT(30)


(* commitHeartbeatEvidence keeps the store ordered and referenced evidence in it. *)
LEMMA EvidenceCommitted ==
  ASSUME DataType, EvidenceInv, NEW ev \in EvidenceRecord, CommitHeartbeatEvidence(ev)
  PROVE  /\ DataType' /\ EvidenceInv'
         /\ Grows(heartbeat_evidence, next_evidence_id, heartbeat_evidence', next_evidence_id')
         /\ \A c \in Range(heartbeat_evidence) :
              is_referenced(c.id) => c \in Range(heartbeat_evidence')
<1> DEFINE q == heartbeat_evidence
           n == NewEvidence(ev)
           w == heartbeat_evidence'
<1>1. /\ EvidenceStatus(ev) = "ok" /\ w = WithEvidence(n)
      /\ latest_heartbeat' = With(latest_heartbeat, ev.entity, next_evidence_id)
      /\ next_evidence_id' = next_evidence_id + 1 /\ commit_epoch' = commit_epoch + 1
      /\ catalog' = catalog /\ outbox' = outbox
  BY DEF CommitHeartbeatEvidence, eventVars
<1>2. /\ n \in EvidenceRecord /\ next_evidence_id \in Nat /\ commit_epoch \in Nat
      /\ n.id = next_evidence_id /\ n.entity = ev.entity /\ n.generation = ev.generation
      /\ n.status = ev.status /\ n.class = ev.class /\ q \in Seq(EvidenceRecord)
  BY NewEvidenceType DEF DataType
<1>3. /\ ev.generation = catalog.generation /\ ev.entity \in catalog.entities
      /\ w # None /\ validateFirmwareHeartbeatEvidence(ev)
  BY <1>1, EvidenceAccepted, Zenon
<1>4. /\ w \in Seq(EvidenceRecord) /\ Fits(w) /\ Sub(w, Append(q, n))
      /\ Range(w) \subseteq Range(q) \cup {n}
      /\ \A c \in Range(q) \cup {n} : ~Evictable(c, n) => c \in Range(w)
  BY <1>1, <1>2, <1>3, WithEvidenceFacts, Zenon
<1>5. Ordered(w)
  BY <1>1, <1>4, AppendOrdered, SubOrdered, Zenon
<1>6. DataType'
  BY <1>1, <1>2, <1>4, SMTT(30) DEF DataType
<1>7. \A c \in Range(q) : /\ c.id \in Nat /\ c.id < next_evidence_id /\ Classified(c)
                          /\ c.generation = catalog.generation /\ c.entity \in catalog.entities
  <2>1. \A c \in Range(q) : c \in EvidenceRecord
    BY <1>2, RangeOf, Zenon
  <2> QED  BY <2>1, EvidenceNumbers DEF EvidenceInv
<1>8. \A c \in Range(w) : /\ c.id \in Nat /\ c.id <= n.id /\ Classified(c)
                          /\ c.generation = catalog.generation /\ c.entity \in catalog.entities
  <2>1. Classified(n)
    BY <1>2, <1>3 DEF Classified, validateFirmwareHeartbeatEvidence, EvidenceRecord
  <2> QED  BY <1>2, <1>3, <1>4, <1>7, <2>1, SMTT(30)
<1>9. w # <<>> /\ w[Len(w)] = n
  <2>1. n \in Range(w)
    BY <1>4, Zenon DEF Evictable
  <2>2. PICK k \in 1..Len(w) : w[k] = n
    BY <1>4, <2>1, RangeOf, Zenon
  <2>3. Len(w) \in 1..Len(w) /\ w # <<>> /\ w[Len(w)] \in Range(w)
    BY <1>4, <2>2, RangeOf
  <2>4. k = Len(w)
    <3> SUFFICES ASSUME k < Len(w)  PROVE FALSE
      BY <1>4, <2>2
    <3>1. n.id < w[Len(w)].id
      BY <1>5, <2>2, <2>3, Zenon DEF Ordered
    <3>2. w[Len(w)].id <= n.id /\ w[Len(w)].id \in Nat
      BY <1>8, <2>3, Zenon
    <3> QED  BY <1>2, <3>1, <3>2, SMTT(30)
  <2> QED  BY <2>2, <2>3, <2>4, Zenon
<1>10. latest_heartbeat' = [e \in {n.entity} |-> n.id]
  <2>1. DOMAIN latest_heartbeat \subseteq {ev.entity}
    <3>1. CASE q = <<>>
      <4>1. latest_heartbeat = <<>>
        BY <3>1 DEF EvidenceInv, EvidenceOrdered
      <4> QED  BY <4>1
    <3>2. CASE q # <<>>
      <4>1. Len(q) \in 1..Len(q) /\ q[Len(q)] \in Range(q)
        BY <1>2, <3>2, RangeOf, SMTT(30)
      <4>2. q[Len(q)].entity = ev.entity
        BY <1>3, <1>7, <4>1, OneEntity, Zenon
      <4>3. latest_heartbeat = [e \in {q[Len(q)].entity} |-> q[Len(q)].id]
        BY <3>2, SMTT(30) DEF EvidenceInv, EvidenceOrdered
      <4> QED  BY <4>2, <4>3, Zenon
    <3> QED  BY <3>1, <3>2
  <2>2. DOMAIN latest_heartbeat \cup {ev.entity} = {ev.entity}
    BY <2>1, Zenon
  <2> QED  BY <1>1, <1>2, <2>2, Zenon DEF With
<1>11. EvidenceOrdered'
  BY <1>4, <1>5, <1>9, <1>10, Zenon DEF EvidenceOrdered, Fits, Ordered
<1>12. EvidenceInv'
  BY <1>1, <1>2, <1>8, <1>11 DEF EvidenceInv, Classified
<1>13. Grows(q, next_evidence_id, w, next_evidence_id')
  BY <1>1, <1>2, <1>4, <1>8 DEF Grows
<1>14. \A c \in Range(q) : is_referenced(c.id) => c \in Range(w)
  BY <1>4, Zenon DEF Evictable
<1> QED  BY <1>6, <1>12, <1>13, <1>14, Zenon

-----------------------------------------------------------------------------
(* Health, and the calls that make it.                                      *)

(* A justification outlives every change that only evicts unreferenced evidence. *)
LEMMA JustifiedGrows ==
  ASSUME NEW h, NEW q, NEW n, NEW q2, NEW n2, Grows(q, n, q2, n2), Justified(h, q, n)
  PROVE  Justified(h, q2, n2)
<1>1. \A ref \in h.evidence : ref.id \in Nat /\ ref.id < n2
  BY DEF Grows, Justified
<1>2. ASSUME NEW ev \in Range(q2), EvidenceRef(ev) \in h.evidence
      PROVE  Justifies(ev, h)
  <2>1. EvidenceRef(ev).id = ev.id
    BY DEF EvidenceRef
  <2>2. ev.id < n
    BY <1>2, <2>1, Zenon DEF Justified
  <2>3. ev \in Range(q)
    BY <1>2, <2>2 DEF Grows
  <2> QED  BY <1>2, <2>3, Zenon DEF Justified
<1> QED  BY <1>1, <1>2, Zenon DEF Justified

(* Evidence a call has read stays the one evidence of its number.           *)
LEMMA KnownGrows ==
  ASSUME NEW ev, NEW q, NEW n, NEW q2, NEW n2, Grows(q, n, q2, n2), Known(ev, q, n)
  PROVE  Known(ev, q2, n2)
<1>1. ev.id \in Nat /\ ev.id < n /\ ev.id < n2
  BY EvidenceNumbers DEF Grows, Known
<1>2. \A e \in Range(q2) : e.id = ev.id => e = ev
  BY <1>1 DEF Grows, Known
<1> QED  BY <1>1, <1>2, Zenon DEF Known

(* A call in progress is not disturbed by a commit of another thread.       *)
LEMMA CallGrows ==
  ASSUME NEW c, NEW q, NEW n, NEW q2, NEW n2, Grows(q, n, q2, n2), CallOk(c, q, n)
  PROVE  CallOk(c, q2, n2)
<1>1. c.pc = "evaluate" => Known(c.evidence, q2, n2)
  BY KnownGrows DEF CallOk
<1>2. c.pc = "commit" => Justified(c.result, q2, n2)
  BY JustifiedGrows, Zenon DEF CallOk
<1> QED  BY <1>1, <1>2, Zenon DEF CallOk

(* A thread that goes on leaves what the other threads remember as it was.  *)
LEMMA CallGoes ==
  ASSUME CallInv, NEW t \in Threads, NEW c, Goto(t, c), now' \in Nat, runtime'.generation \in Nat,
         Grows(heartbeat_evidence, next_evidence_id, heartbeat_evidence', next_evidence_id'),
         CallOk(c, heartbeat_evidence', next_evidence_id')
  PROVE  CallInv'
<1>1. DOMAIN call' = Threads /\ call'[t] = c /\ \A u \in Threads \ {t} : call'[u] = call[u]
  BY DEF CallInv, Goto
<1>2. ASSUME NEW u \in Threads
      PROVE  CallOk(call'[u], heartbeat_evidence', next_evidence_id')
  <2>1. CASE u = t
    BY <1>1, <2>1, Zenon
  <2>2. CASE u # t
    <3>1. CallOk(call[u], heartbeat_evidence, next_evidence_id)
      BY DEF CallInv
    <3>2. CallOk(call[u], heartbeat_evidence', next_evidence_id')
      BY <3>1, CallGrows, Zenon
    <3> QED  BY <1>1, <2>2, <3>2, Zenon
  <2> QED  BY <2>1, <2>2, Zenon
<1> QED  BY <1>1, <1>2, Zenon DEF CallInv

(* A store that does not change has grown.                                  *)
LEMMA GrowsSame ==
  ASSUME DataType, UNCHANGED <<heartbeat_evidence, next_evidence_id>>
  PROVE  Grows(heartbeat_evidence, next_evidence_id, heartbeat_evidence', next_evidence_id')
<1>1. \A ev \in Range(heartbeat_evidence) : ev \in EvidenceRecord
  BY RangeOf DEF DataType
<1> QED  BY <1>1, EvidenceNumbers DEF Grows, DataType

(* What is stored is known, and latest_heartbeat_ only names what is stored. *)
LEMMA StoredKnown ==
  ASSUME DataType, EvidenceInv
  PROVE  /\ \A ev \in Range(heartbeat_evidence) : Known(ev, heartbeat_evidence, next_evidence_id)
         /\ \A rt : Latest(rt) \subseteq Range(heartbeat_evidence)
<1> DEFINE q == heartbeat_evidence
<1>1. ASSUME NEW ev \in Range(q)  PROVE Known(ev, q, next_evidence_id)
  <2>1. q \in Seq(EvidenceRecord) /\ ev \in EvidenceRecord
    BY RangeOf, Zenon DEF DataType
  <2>2. ASSUME NEW e \in Range(q), e.id = ev.id  PROVE e = ev
    <3>1. PICK i \in 1..Len(q), j \in 1..Len(q) : e = q[i] /\ ev = q[j]
      BY <2>1, RangeOf
    <3>2. e.id \in Nat /\ ev.id \in Nat /\ Len(q) \in Nat
      BY <2>1, <2>2, EvidenceNumbers
    <3>3. (i < j => e.id < ev.id) /\ (j < i => ev.id < e.id)
      BY <3>1 DEF EvidenceInv, EvidenceOrdered
    <3> QED  BY <2>2, <3>1, <3>2, <3>3
  <2> QED  BY <2>1, <2>2, Zenon DEF EvidenceInv, Known
<1>2. \A rt : Latest(rt) \subseteq Range(q)
  BY DEF Latest, LatestEvidence
<1> QED  BY <1>1, <1>2, Zenon

(* A result that is not determinate needs no evidence.                      *)
LEMMA UnknownJustified ==
  ASSUME NEW rt, NEW code, NEW status, NEW limitation, NEW q, NEW n
  PROVE  Justified(Unknown(rt, code, status, limitation), q, n)
BY Zenon DEF Unknown, Justified

(* The parts of a result that say on what it rests.                         *)
LEMMA EvaluateFacts ==
  ASSUME NEW rt, NEW ev \in EvidenceRecord, Classified(ev), NEW time \in Nat, NEW f \in Nat
  PROVE  LET h == Evaluate(rt, ev, time, f)
         IN  /\ h.evidence = {EvidenceRef(ev)}
             /\ h.age \in Int
             /\ isDeterminateHealth(h.state) =>
                  ev.status = "valid" /\ NativeState[ev.class] = h.state /\ h.age <= f
             /\ h.code = "stale" => ev.status = "valid" /\ h.age > f
<1> DEFINE h == Evaluate(rt, ev, time, f)
           age == time - ev.time
<1>1. age \in Int
  BY EvidenceNumbers
<1>2. CASE ev.status # "valid"
  <2>1. FailureCode(ev)[1] # "stale"
    BY Zenon DEF FailureCode
  <2>2. /\ h.evidence = {EvidenceRef(ev)} /\ h.age = age
        /\ h.state = "unknown" /\ h.code = FailureCode(ev)[1]
    BY <1>2, Zenon DEF Evaluate
  <2> QED  BY <1>1, <2>1, <2>2, Zenon DEF isDeterminateHealth
<1>3. CASE ev.status = "valid" /\ age > f
  <2>1. /\ h.evidence = {EvidenceRef(ev)} /\ h.age = age
        /\ h.state = "unknown" /\ h.code = "stale"
    BY <1>3, Zenon DEF Evaluate, IsStale
  <2> QED  BY <1>1, <1>3, <2>1, Zenon DEF isDeterminateHealth
<1>4. CASE ev.status = "valid" /\ ~(age > f)
  <2>1. /\ h.evidence = {EvidenceRef(ev)} /\ h.age = age
        /\ h.state = NativeState[ev.class] /\ h.code = NativeCode[ev.class]
    BY <1>4, Zenon DEF Evaluate, IsStale
  <2>2. NativeCode[ev.class] # "stale"
    BY <1>4 DEF Classified, NativeState, NativeCode
  <2>3. age <= f
    BY <1>1, <1>4
  <2> QED  BY <1>1, <1>4, <2>1, <2>2, <2>3, Zenon
<1> QED  BY <1>2, <1>3, <1>4, Zenon

(* What evaluate returns for evidence read from the store is justified by it. *)
LEMMA EvaluateJustified ==
  ASSUME NEW rt, NEW ev, NEW time \in Nat, NEW q, NEW n, Known(ev, q, n)
  PROVE  Justified(Evaluate(rt, ev, time, Freshness), q, n)
<1> DEFINE h == Evaluate(rt, ev, time, Freshness)
<1>1. /\ h.evidence = {EvidenceRef(ev)} /\ Justifies(ev, h)
  BY EvaluateFacts, MetricsAssumption DEF Known, Justifies
<1> HIDE DEF h
<1>2. \A e : EvidenceRef(e).id = e.id
  BY DEF EvidenceRef
<1>3. ASSUME NEW e \in Range(q), EvidenceRef(e) = EvidenceRef(ev)  PROVE e = ev
  BY <1>2, <1>3, Zenon DEF Known
<1>4. ev.id \in Nat /\ ev.id < n
  BY EvidenceNumbers DEF Known
<1> QED  BY <1>1, <1>2, <1>3, <1>4, Zenon DEF Justified, h

(* A step that leaves the stores alone keeps what is said of them.          *)
LEMMA DataSame ==
  ASSUME DataType, EvidenceInv, HealthInv, UNCHANGED dataVars
  PROVE  /\ DataType' /\ EvidenceInv' /\ HealthInv'
         /\ Grows(heartbeat_evidence, next_evidence_id, heartbeat_evidence', next_evidence_id')
<1>1. UNCHANGED <<catalog, commit_epoch, heartbeat_evidence, latest_heartbeat, health,
                  next_evidence_id, outbox>>
  BY Zenon DEF dataVars, evidenceVars, eventVars
<1>2. DataType' /\ EvidenceInv'
  BY <1>1, Zenon DEF DataType, EvidenceInv, EvidenceOrdered
<1>3. HealthInv'
  BY <1>1, Zenon DEF HealthInv
<1> QED  BY <1>1, <1>2, <1>3, GrowsSame, Zenon

(* A thread without a call satisfies the invariant of calls.                *)
LEMMA IdleOk == \A q, n : CallOk(Idle, q, n)
BY Zenon DEF CallOk, Idle

ManagerInv == DataType /\ EvidenceInv /\ HealthInv /\ CallInv

(* The invariant holds at the start.                                        *)
LEMMA ManagerInitial == Init => ManagerInv
<1> SUFFICES ASSUME Init  PROVE ManagerInv
  BY Zenon
<1> USE DEF Init, DataInit
<1>1. heartbeat_evidence \in Seq(EvidenceRecord) /\ Range(heartbeat_evidence) = {}
  <2>1. <<>> \in Seq(EvidenceRecord) /\ DOMAIN <<>> = {}
    BY SMTT(30)
  <2> QED  BY <2>1, Zenon DEF Range
<1>2. DataType
  BY <1>1, Zenon DEF DataType
<1>3. EvidenceInv
  <2>1. Len(heartbeat_evidence) = 0 /\ Bytes(heartbeat_evidence) = 0
    BY BytesEmpty, Zenon
  <2> QED  BY <1>1, <2>1, HealthStoreAssumption DEF EvidenceInv, EvidenceOrdered
<1>4. HealthInv
  BY DEF HealthInv
<1>5. CallInv
  BY IdleOk, Zenon DEF CallInv
<1> QED  BY <1>2, <1>3, <1>4, <1>5, Zenon DEF ManagerInv

(* A result that is accepted refers to stored evidence of its entity.       *)
LEMMA HealthAccepted ==
  ASSUME NEW r, HealthStatus(r) = "ok"
  PROVE  /\ OfCatalog(r)
         /\ \A ref \in r.evidence : \E ev \in Range(heartbeat_evidence) :
              ev.entity = r.entity /\ EvidenceRef(ev) = ref
<1>1. /\ OfCatalog(r)
      /\ ~(\E ref \in r.evidence : \A ev \in Range(heartbeat_evidence) :
              ev.entity # r.entity \/ ev.generation # r.generation \/ EvidenceRef(ev) # ref)
  BY Zenon DEF HealthStatus
<1> QED  BY <1>1

(* commitHealth of a justified result keeps what is said of the stores.     *)
LEMMA HealthCommitted ==
  ASSUME DataType, EvidenceInv, HealthInv, NEW t \in Threads, NEW r,
         Justified(r, heartbeat_evidence, next_evidence_id), CommitHealth(t, r)
  PROVE  /\ DataType' /\ EvidenceInv' /\ HealthInv'
         /\ Grows(heartbeat_evidence, next_evidence_id, heartbeat_evidence', next_evidence_id')
<1>1. /\ HealthStatus(r) = "ok" /\ health' = With(health, r.entity, r)
      /\ commit_epoch' = commit_epoch + 1 /\ DOMAIN outbox' = DOMAIN outbox
      /\ UNCHANGED <<catalog, heartbeat_evidence, latest_heartbeat, next_evidence_id>>
  BY Zenon DEF CommitHealth
<1>2. DataType' /\ EvidenceInv'
  BY <1>1 DEF DataType, EvidenceInv, EvidenceOrdered
<1>3. /\ DOMAIN health' = DOMAIN health \cup {r.entity} /\ health'[r.entity] = r
      /\ \A e \in DOMAIN health \ {r.entity} : health'[e] = health[e]
  BY <1>1, Zenon DEF With
<1>4. HealthInv'
  BY <1>1, <1>3, HealthAccepted DEF HealthInv, OfCatalog
<1> QED  BY <1>1, <1>2, <1>4, GrowsSame, Zenon

(* commitHeartbeatEvidence leaves what justifies the stored results.        *)
LEMMA HealthEvidence ==
  ASSUME DataType, EvidenceInv, HealthInv, NEW ev \in EvidenceRecord, CommitHeartbeatEvidence(ev)
  PROVE  HealthInv'
<1>1. /\ Grows(heartbeat_evidence, next_evidence_id, heartbeat_evidence', next_evidence_id')
      /\ \A c \in Range(heartbeat_evidence) :
           is_referenced(c.id) => c \in Range(heartbeat_evidence')
      /\ health' = health /\ catalog' = catalog
  BY EvidenceCommitted, Zenon DEF CommitHeartbeatEvidence
<1> SUFFICES ASSUME NEW e \in DOMAIN health
             PROVE  /\ Justified(health[e], heartbeat_evidence', next_evidence_id')
                    /\ \A ref \in health[e].evidence :
                         \E c \in Range(heartbeat_evidence') : c.entity = e /\ EvidenceRef(c) = ref
  BY <1>1, Zenon DEF HealthInv
<1>2. Justified(health[e], heartbeat_evidence', next_evidence_id')
  BY <1>1, JustifiedGrows, Zenon DEF HealthInv
<1>3. ASSUME NEW ref \in health[e].evidence
      PROVE  \E c \in Range(heartbeat_evidence') : c.entity = e /\ EvidenceRef(c) = ref
  <2>1. PICK c \in Range(heartbeat_evidence) : c.entity = e /\ EvidenceRef(c) = ref
    BY Zenon DEF HealthInv
  <2>2. ref.id = c.id
    BY <2>1 DEF EvidenceRef
  <2>3. is_referenced(c.id)
    BY <2>2, Zenon DEF is_referenced
  <2> QED  BY <1>1, <2>1, <2>3, Zenon
<1> QED  BY <1>2, <1>3, Zenon

(* activateCatalog empties the stores and goes on numbering.                *)
LEMMA CatalogActivated ==
  ASSUME DataType, NEW t \in Threads, NEW c \in Catalogs, ActivateCatalog(t, c)
  PROVE  /\ DataType' /\ EvidenceInv' /\ HealthInv'
         /\ Grows(heartbeat_evidence, next_evidence_id, heartbeat_evidence', next_evidence_id')
<1>1. /\ catalog' = c /\ heartbeat_evidence' = <<>> /\ latest_heartbeat' = <<>> /\ health' = <<>>
      /\ DOMAIN outbox' = DOMAIN outbox /\ UNCHANGED <<commit_epoch, next_evidence_id>>
  BY DEF ActivateCatalog
<1>2. heartbeat_evidence' \in Seq(EvidenceRecord) /\ Range(heartbeat_evidence') = {}
  <2>1. <<>> \in Seq(EvidenceRecord) /\ DOMAIN <<>> = {}
    OBVIOUS
  <2> QED  BY <1>1, <2>1, Zenon DEF Range
<1>3. DataType'
  BY <1>1, <1>2, Zenon DEF DataType
<1>4. EvidenceInv'
  <2>1. Len(heartbeat_evidence') = 0 /\ Bytes(heartbeat_evidence') = 0
    BY <1>1, BytesEmpty, Zenon
  <2> QED  BY <1>1, <1>2, <2>1, HealthStoreAssumption DEF EvidenceInv, EvidenceOrdered
<1>5. HealthInv'
  BY <1>1 DEF HealthInv
<1>6. Grows(heartbeat_evidence, next_evidence_id, heartbeat_evidence', next_evidence_id')
  BY <1>1, <1>2 DEF Grows, DataType
<1> QED  BY <1>3, <1>4, <1>5, <1>6, ZenonT(60)

(* A step that leaves the stores alone and sends the thread on with c.      *)
LEMMA LocalStep ==
  ASSUME ManagerInv, NEW t \in Threads, NEW c, Goto(t, c), UNCHANGED dataVars,
         now' \in Nat, runtime'.generation \in Nat,
         CallOk(c, heartbeat_evidence, next_evidence_id)
  PROVE  ManagerInv'
<1>1. /\ DataType' /\ EvidenceInv' /\ HealthInv'
      /\ Grows(heartbeat_evidence, next_evidence_id, heartbeat_evidence', next_evidence_id')
  BY DataSame DEF ManagerInv
<1>2. UNCHANGED <<heartbeat_evidence, next_evidence_id>>
  BY DEF dataVars, evidenceVars
<1>3. CallInv'
  BY <1>1, <1>2, CallGoes, Zenon DEF ManagerInv
<1> QED  BY <1>1, <1>3, Zenon DEF ManagerInv

(* The steps of activateCatalog in MetricsManager.                          *)
LEMMA ActivateSteps ==
  ASSUME ManagerInv, NEW t \in Threads
  PROVE  /\ \A c \in Catalogs : ActivateData(t, c) => ManagerInv'
         /\ ActivateCheck(t) => ManagerInv'
         /\ ActivateInstall(t) => ManagerInv'
<1>1. /\ now \in Nat /\ runtime.generation \in Nat
      /\ CallOk(call[t], heartbeat_evidence, next_evidence_id)
  BY Zenon DEF ManagerInv, CallInv
<1>2. ASSUME NEW c \in Catalogs, ActivateData(t, c)  PROVE ManagerInv'
  <2> DEFINE d == [pc |-> "activate", catalog |-> c]
  <2>1. Goto(t, d) /\ UNCHANGED <<runtime, now>>
    BY <1>2, Zenon DEF ActivateData
  <2>2. \A q, n : CallOk(d, q, n)
    BY DEF CallOk
  <2> HIDE DEF d
  <2>3. CASE UNCHANGED dataVars
    BY <1>1, <2>1, <2>2, <2>3, LocalStep
  <2>4. CASE ActivateCatalog(t, c)
    <3>1. /\ DataType' /\ EvidenceInv' /\ HealthInv'
          /\ Grows(heartbeat_evidence, next_evidence_id, heartbeat_evidence', next_evidence_id')
      BY <2>4, CatalogActivated, Zenon DEF ManagerInv
    <3>2. CallInv'
      BY <1>1, <2>1, <2>2, <3>1, CallGoes DEF ManagerInv
    <3> QED  BY <3>1, <3>2, Zenon DEF ManagerInv
  <2> QED  BY <1>2, <2>3, <2>4, Zenon DEF ActivateData
<1>3. ASSUME ActivateCheck(t)  PROVE ManagerInv'
  <2> DEFINE d == IF catalog.generation = call[t].catalog.generation
                  THEN [call[t] EXCEPT !.pc = "install"] ELSE Idle
  <2>1. Goto(t, d) /\ UNCHANGED <<dataVars, runtime, now>> /\ call[t].pc = "activate"
    BY <1>3, Zenon DEF ActivateCheck, At
  <2>2. CallOk(d, heartbeat_evidence, next_evidence_id)
    BY <1>1, <2>1, IdleOk, SMTT(30) DEF CallOk
  <2> HIDE DEF d
  <2> QED  BY <1>1, <2>1, <2>2, LocalStep, Zenon
<1>4. ASSUME ActivateInstall(t)  PROVE ManagerInv'
  <2> DEFINE c == call[t].catalog
             d == IF RuntimeOf(c).entity = None THEN Idle
                  ELSE [pc |-> "commit", result |-> Initial(RuntimeOf(c))]
  <2>1. /\ UNCHANGED <<dataVars, now>> /\ call[t].pc = "install"
        /\ \/ runtime' = RuntimeOf(c) /\ Goto(t, d)
           \/ UNCHANGED runtime /\ Goto(t, Idle)
    BY <1>4, Zenon DEF ActivateInstall, At
  <2>2. c \in Catalogs
    BY <1>1, <2>1, Zenon DEF CallOk
  <2>3. RuntimeOf(c).generation \in Nat
    BY <2>2, MetricsAssumption, Zenon DEF RuntimeOf, Catalog
  <2>4. CallOk(d, heartbeat_evidence, next_evidence_id)
    <3>1. Justified(Initial(RuntimeOf(c)), heartbeat_evidence, next_evidence_id)
      BY UnknownJustified DEF Initial
    <3> QED  BY <3>1, IdleOk, Zenon DEF CallOk
  <2> HIDE DEF d, c
  <2> QED  BY <1>1, <2>1, <2>3, <2>4, IdleOk, LocalStep, Zenon
<1> QED  BY <1>2, <1>3, <1>4, Zenon

(* The steps that commit evidence, or the result derived from it.           *)
LEMMA CommitSteps ==
  ASSUME ManagerInv, NEW t \in Threads
  PROVE  /\ CommitResult(t) => ManagerInv'
         /\ CommitEvidence(t) => ManagerInv'
<1>1. /\ now \in Nat /\ runtime.generation \in Nat
      /\ CallOk(call[t], heartbeat_evidence, next_evidence_id)
  BY SMTT(30) DEF ManagerInv, CallInv
<1>2. ASSUME CommitResult(t)  PROVE ManagerInv'
  <2> DEFINE r == call[t].result
  <2>1. /\ Goto(t, Idle) /\ UNCHANGED <<runtime, now>> /\ call[t].pc = "commit"
        /\ CommitHealth(t, r) \/ UNCHANGED dataVars
    BY <1>2, Zenon DEF CommitResult, At
  <2>2. Justified(r, heartbeat_evidence, next_evidence_id)
    BY <1>1, <2>1, Zenon DEF CallOk
  <2> HIDE DEF r
  <2>3. /\ DataType' /\ EvidenceInv' /\ HealthInv'
        /\ Grows(heartbeat_evidence, next_evidence_id, heartbeat_evidence', next_evidence_id')
    BY <2>1, <2>2, HealthCommitted, DataSame, Zenon DEF ManagerInv
  <2>4. CallInv'
    BY <1>1, <2>1, <2>3, CallGoes, IdleOk DEF ManagerInv
  <2> QED  BY <2>3, <2>4, Zenon DEF ManagerInv
<1>3. ASSUME CommitEvidence(t)  PROVE ManagerInv'
  <2> DEFINE ev == call[t].evidence
             d == [pc |-> "snapshot", op |-> "evidence", id |-> next_evidence_id, request |-> None]
  <2>1. /\ UNCHANGED <<runtime, now>> /\ call[t].pc = "collected"
        /\ \/ CommitHeartbeatEvidence(ev) /\ Goto(t, d)
           \/ UNCHANGED dataVars /\ Goto(t, Idle)
    BY <1>3, Zenon DEF CommitEvidence, At
  <2>2. ev \in EvidenceRecord
    BY <1>1, <2>1, Zenon DEF CallOk
  <2>3. \A q, n : CallOk(d, q, n)
    BY Zenon DEF CallOk
  <2> HIDE DEF ev, d
  <2>4. /\ DataType' /\ EvidenceInv' /\ HealthInv'
        /\ Grows(heartbeat_evidence, next_evidence_id, heartbeat_evidence', next_evidence_id')
    BY <2>1, <2>2, EvidenceCommitted, HealthEvidence, DataSame, SMTT(30) DEF ManagerInv
  <2>5. CallInv'
    BY <1>1, <2>1, <2>3, <2>4, CallGoes, IdleOk, SMTT(30) DEF ManagerInv
  <2> QED  BY <2>4, <2>5, Zenon DEF ManagerInv
<1> QED  BY <1>2, <1>3, Zenon

(* The steps that collect evidence, read it back and evaluate it.           *)
LEMMA CollectSteps ==
  ASSUME ManagerInv, NEW t \in Threads
  PROVE  /\ \A c \in Catalogs : \A e \in c.entities, r \in Readings :
              Collect(t, c, e, r) => ManagerInv'
         /\ ReadEvidence(t) => ManagerInv'
         /\ EvaluateEvidence(t) => ManagerInv'
<1>1. /\ now \in Nat /\ runtime.generation \in Nat
      /\ CallOk(call[t], heartbeat_evidence, next_evidence_id)
  BY DEF ManagerInv, CallInv
<1>2. ASSUME NEW c \in Catalogs, NEW e \in c.entities, NEW r \in Readings, Collect(t, c, e, r)
      PROVE  ManagerInv'
  <2> DEFINE ev == [id |-> 0, entity |-> e, generation |-> c.generation,
                    time |-> now, class |-> r.class, status |-> r.status,
                    token |-> r.token, sample |-> r.sample,
                    failure |-> r.failure, mapped |-> r.mapped, bytes |-> r.bytes]
             d == [pc |-> "collected", evidence |-> ev]
  <2>1. Goto(t, d) /\ UNCHANGED <<dataVars, runtime, now>>
    BY <1>2, Zenon DEF Collect
  <2>2. ev \in EvidenceRecord
    <3>1. c.generation \in Nat /\ e \in Entity
      BY MetricsAssumption, Zenon DEF Catalog
    <3>2. r \in [class : DOMAIN NativeState \cup {"unknown_native"}, status : Statuses,
                 token : Nat, sample : Nat \cup {None}, mapped : BOOLEAN, bytes : Nat,
                 failure : {None, "timeout", "unavailable", "other"}]
      BY MetricsAssumption, Zenon
    <3> QED  BY <1>1, <3>1, <3>2, Zenon DEF EvidenceRecord
  <2> HIDE DEF ev
  <2>3. \A q, n : CallOk(d, q, n)
    BY <2>2, Zenon DEF CallOk
  <2> HIDE DEF d
  <2> QED  BY <1>1, <2>1, <2>3, LocalStep, Zenon
<1>3. ASSUME ReadEvidence(t)  PROVE ManagerInv'
  <2>1. UNCHANGED <<dataVars, runtime, now>>
    BY <1>3, Zenon DEF ReadEvidence
  <2>2. CASE Goto(t, Idle)
    BY <1>1, <2>1, <2>2, IdleOk, LocalStep
  <2>3. ASSUME NEW ev \in Range(heartbeat_evidence),
               Goto(t, [pc |-> "evaluate", runtime |-> call[t].runtime, evidence |-> ev])
        PROVE  ManagerInv'
    <3> DEFINE d == [pc |-> "evaluate", runtime |-> call[t].runtime, evidence |-> ev]
    <3>1. Known(ev, heartbeat_evidence, next_evidence_id)
      BY StoredKnown, Zenon DEF ManagerInv
    <3>2. CallOk(d, heartbeat_evidence, next_evidence_id)
      BY <3>1, Zenon DEF CallOk
    <3>3. Goto(t, d)
      BY <2>3, Zenon
    <3> HIDE DEF d
    <3> QED  BY <1>1, <2>1, <3>2, <3>3, LocalStep, Zenon
  <2> QED  BY <1>3, <2>2, <2>3, Zenon DEF ReadEvidence
<1>4. ASSUME EvaluateEvidence(t)  PROVE ManagerInv'
  <2> DEFINE r == Evaluate(call[t].runtime, call[t].evidence, now, Freshness)
             d == [pc |-> "commit", result |-> r]
  <2>1. Goto(t, d) /\ UNCHANGED <<dataVars, runtime, now>> /\ call[t].pc = "evaluate"
    BY <1>4, Zenon DEF EvaluateEvidence, At
  <2>2. Known(call[t].evidence, heartbeat_evidence, next_evidence_id)
    BY <1>1, <2>1, Zenon DEF CallOk
  <2>3. Justified(r, heartbeat_evidence, next_evidence_id)
    BY <1>1, <2>2, EvaluateJustified, Zenon
  <2> HIDE DEF r
  <2>4. CallOk(d, heartbeat_evidence, next_evidence_id)
    BY <2>3, Zenon DEF CallOk
  <2> HIDE DEF d
  <2> QED  BY <1>1, <2>1, <2>4, LocalStep, Zenon
<1> QED  BY <1>2, <1>3, <1>4, Zenon

(* The steps that start a call, take its snapshot and return.               *)
LEMMA SnapshotSteps ==
  ASSUME ManagerInv, NEW t \in Threads
  PROVE  /\ \A op \in {"provider", "freshness"} : Start(t, op, None) => ManagerInv'
         /\ \A q \in Requests : Start(t, "query", q) => ManagerInv'
         /\ TakeSnapshot(t) => ManagerInv'
         /\ QueryReturn(t) => ManagerInv'
<1>1. /\ now \in Nat /\ runtime.generation \in Nat
      /\ CallOk(call[t], heartbeat_evidence, next_evidence_id)
  BY DEF ManagerInv, CallInv
<1>2. ASSUME NEW op \in {"provider", "freshness", "query"}, NEW q, op = "query" => q \in Requests,
             Start(t, op, q)
      PROVE  ManagerInv'
  <2> DEFINE d == [pc |-> "snapshot", op |-> op, id |-> 0, request |-> q]
  <2>1. Goto(t, d) /\ UNCHANGED <<dataVars, runtime, now>>
    BY <1>2, Zenon DEF Start
  <2>2. CallOk(d, heartbeat_evidence, next_evidence_id)
    BY <1>2, Zenon DEF CallOk
  <2> HIDE DEF d
  <2> QED  BY <1>1, <2>1, <2>2, LocalStep, Zenon
<1>3. ASSUME TakeSnapshot(t)  PROVE ManagerInv'
  <2> DEFINE d == [pc |-> call[t].op, id |-> call[t].id, request |-> call[t].request,
                   runtime |-> runtime, time |-> now]
  <2>1. /\ Goto(t, Idle) \/ Goto(t, d)
        /\ UNCHANGED <<dataVars, runtime, now>> /\ call[t].pc = "snapshot"
    BY <1>3, Zenon DEF TakeSnapshot, At
  <2>2. CallOk(d, heartbeat_evidence, next_evidence_id)
    BY <1>1, <2>1, Zenon DEF CallOk
  <2> HIDE DEF d
  <2> QED  BY <1>1, <2>1, <2>2, IdleOk, LocalStep, Zenon
<1>4. ASSUME QueryReturn(t)  PROVE ManagerInv'
  BY <1>1, <1>4, IdleOk, LocalStep, Zenon DEF QueryReturn
<1> QED  BY <1>2, <1>3, <1>4, Zenon

(* The steps that evaluate provider changes and freshness.                  *)
LEMMA ReportSteps ==
  ASSUME ManagerInv, NEW t \in Threads
  PROVE  /\ ProviderLatest(t) => ManagerInv'
         /\ FreshnessHealth(t) => ManagerInv'
         /\ FreshnessLatest(t) => ManagerInv'
<1> DEFINE c == call[t]
<1>1. now \in Nat /\ runtime.generation \in Nat /\ CallOk(c, heartbeat_evidence, next_evidence_id)
  BY Zenon DEF ManagerInv, CallInv
<1>2. \A ev \in Latest(c.runtime) : Known(ev, heartbeat_evidence, next_evidence_id)
  BY StoredKnown, Zenon DEF ManagerInv
<1>3. ASSUME ProviderLatest(t)  PROVE ManagerInv'
  <2> DEFINE gone == Unknown(c.runtime, "provider_unavailable", "error", "provider_unavailable")
             usable == {ev \in Latest(c.runtime) : ev.time <= c.time}
             ev == CHOOSE ev \in usable : TRUE
             r == IF usable = {} THEN gone
                  ELSE [gone EXCEPT !.evidence = {EvidenceRef(ev)}, !.age = c.time - ev.time]
             d == [pc |-> "commit", result |-> r]
  <2>1. Goto(t, d) /\ UNCHANGED <<dataVars, runtime, now>>
    BY <1>3, Zenon DEF ProviderLatest
  <2>2. Justified(r, heartbeat_evidence, next_evidence_id)
    <3>1. CASE usable = {}
      BY <3>1, UnknownJustified, Zenon
    <3>2. CASE usable # {}
      <4>1. Known(ev, heartbeat_evidence, next_evidence_id)
        BY <1>2, <3>2, Zenon
      <4> HIDE DEF ev, usable
      <4>2. /\ r.evidence = {EvidenceRef(ev)} /\ r.state = "unknown"
            /\ r.code = "provider_unavailable"
        BY <3>2, Zenon DEF Unknown
      <4>3. EvidenceRef(ev).id = ev.id /\ ev.id \in Nat /\ ev.id < next_evidence_id
        BY <4>1, EvidenceNumbers, Zenon DEF EvidenceRef, Known
      <4> HIDE DEF r
      <4> QED  BY <4>2, <4>3, Zenon DEF Justified, Justifies, isDeterminateHealth
    <3> QED  BY <3>1, <3>2, Zenon
  <2> HIDE DEF r
  <2>3. CallOk(d, heartbeat_evidence, next_evidence_id)
    BY <2>2, Zenon DEF CallOk
  <2> HIDE DEF d
  <2> QED  BY <1>1, <2>1, <2>3, LocalStep, Zenon
<1>4. ASSUME FreshnessHealth(t)  PROVE ManagerInv'
  <2> DEFINE d == [call[t] EXCEPT !.pc = "age"]
  <2>1. /\ Goto(t, Idle) \/ Goto(t, d)
        /\ UNCHANGED <<dataVars, runtime, now>> /\ call[t].pc = "freshness"
    BY <1>4 DEF FreshnessHealth, At
  <2>2. CallOk(d, heartbeat_evidence, next_evidence_id)
    BY <1>1, <2>1 DEF CallOk
  <2> HIDE DEF d
  <2> QED  BY <1>1, <2>1, <2>2, IdleOk, LocalStep
<1>5. ASSUME FreshnessLatest(t)  PROVE ManagerInv'
  <2>1. UNCHANGED <<dataVars, runtime, now>> /\ c.time \in Nat
    BY <1>1, <1>5, Zenon DEF FreshnessLatest, At, CallOk
  <2>2. CASE Goto(t, Idle)
    BY <1>1, <2>1, <2>2, IdleOk, LocalStep, Zenon
  <2>3. ASSUME NEW ev \in Latest(c.runtime),
               Goto(t, [pc |-> "commit", result |-> Evaluate(c.runtime, ev, c.time, Freshness)])
        PROVE  ManagerInv'
    <3> DEFINE r == Evaluate(c.runtime, ev, c.time, Freshness)
               d == [pc |-> "commit", result |-> r]
    <3>1. Justified(r, heartbeat_evidence, next_evidence_id)
      BY <1>2, <2>1, EvaluateJustified, Zenon
    <3>2. Goto(t, d)
      BY <2>3, Zenon
    <3> HIDE DEF r
    <3>3. CallOk(d, heartbeat_evidence, next_evidence_id)
      BY <3>1, SMTT(30) DEF CallOk
    <3> HIDE DEF d
    <3> QED  BY <1>1, <2>1, <3>2, <3>3, LocalStep
  <2> QED  BY <1>5, <2>2, <2>3, Zenon DEF FreshnessLatest
<1> QED  BY <1>3, <1>4, <1>5, Zenon

(* A determinate result is of evidence no older than allowed.               *)
LEMMA EvaluateFresh ==
  ASSUME NEW rt, NEW ev \in EvidenceRecord, Classified(ev), NEW time, time \in Nat,
         NEW f \in Nat, NEW h, h = Evaluate(rt, ev, time, f), isDeterminateHealth(h.state)
  PROVE  h.age \in Int /\ h.age <= f
BY EvaluateFacts, Zenon

(* What a query answers: the age the caller asks for only tightens.         *)
LEMMA HeartbeatFresh ==
  ASSUME ManagerInv, NEW c, c.time \in Nat, c.request \in Requests,
         isDeterminateHealth(HeartbeatAt(c).state)
  PROVE  /\ HeartbeatAt(c).age <= Freshness
         /\ c.request.max_age \in 1..MaxTime => HeartbeatAt(c).age <= c.request.max_age
<1> DEFINE a == c.request.max_age
<1> PICK f : f = effectiveFreshness(a)
  BY Zenon
<1>1. a \in Nat /\ Freshness \in Nat
  BY MetricsAssumption, Zenon
<1>2. f \in Nat /\ f <= Freshness /\ (a # 0 => f <= a)
  <2>1. CASE a = 0
    BY <1>1, <2>1, SMTT(30) DEF effectiveFreshness
  <2>2. CASE a # 0
    <3> DEFINE T == {Freshness, a}
    <3>1. T \in SUBSET Nat /\ T # {} /\ Freshness \in T /\ a \in T /\ f = Min(T)
      BY <1>1, <2>2, Zenon DEF effectiveFreshness
    <3> HIDE DEF T
    <3>2. Min(T) \in T /\ \A j \in T : Min(T) <= j
      BY <3>1, MinNatural, Zenon
    <3> QED  BY <1>1, <3>1, <3>2, Zenon
  <2> QED  BY <2>1, <2>2, Zenon
<1>3. \A rt, code, status, limitation : Unknown(rt, code, status, limitation).state = "unknown"
  BY Zenon DEF Unknown
<1>4. PICK ev \in Latest(c.runtime) : HeartbeatAt(c) = Evaluate(c.runtime, ev, c.time, f)
  BY <1>3, Zenon DEF HeartbeatAt, isDeterminateHealth
<1>5. ev \in EvidenceRecord /\ Classified(ev)
  BY <1>4, StoredKnown DEF ManagerInv, Known
<1>6. HeartbeatAt(c).age <= f /\ HeartbeatAt(c).age \in Int
  <2>1. PICK h, time, rt : h = HeartbeatAt(c) /\ time = c.time /\ rt = c.runtime
    OBVIOUS
  <2>2. h = Evaluate(rt, ev, time, f) /\ isDeterminateHealth(h.state) /\ time \in Nat
    BY <1>4, <2>1
  <2>3. h.age <= f /\ h.age \in Int
    BY <1>2, <1>5, <2>2, EvaluateFresh, SMTT(30)
  <2> QED  BY <2>1, <2>3
<1> QED  BY <1>1, <1>2, <1>6

(* A health query keeps the invariant.                                      *)
LEMMA QueryStep ==
  ASSUME ManagerInv, NEW t \in Threads, Query(t)
  PROVE  ManagerInv'
<1> DEFINE c == call[t]
           h == HeartbeatAt(c)
           d == [pc |-> "answer", request |-> c.request, result |-> h,
                 item |-> IF c.request.heartbeat THEN h
                          ELSE Unknown(c.runtime, "unsupported", "unsupported", "catalog_gap")]
<1>1. now \in Nat /\ runtime.generation \in Nat /\ CallOk(c, heartbeat_evidence, next_evidence_id)
  BY Zenon DEF ManagerInv, CallInv
<1>2. /\ Goto(t, Idle) \/ Goto(t, d)
      /\ UNCHANGED <<dataVars, runtime, now>> /\ c.pc = "query"
  BY Zenon DEF Query, At
<1>3. c.time \in Nat /\ c.request \in Requests
  BY <1>1, <1>2, Zenon DEF CallOk
<1>4. Fresh(d)
  <2>1. isDeterminateHealth(h.state) =>
          /\ h.age <= Freshness
          /\ c.request.max_age \in 1..MaxTime => h.age <= c.request.max_age
    BY <1>3, HeartbeatFresh, Zenon
  <2>2. ~c.request.heartbeat => ~isDeterminateHealth(d.item.state)
    BY Zenon DEF Unknown, isDeterminateHealth
  <2> HIDE DEF h
  <2> QED  BY <2>1, <2>2, Zenon DEF Fresh
<1>5. CallOk(d, heartbeat_evidence, next_evidence_id)
  BY <1>4, Zenon DEF CallOk
<1> HIDE DEF d, h
<1> QED  BY <1>1, <1>2, <1>5, IdleOk, LocalStep, Zenon

(* Every step keeps the invariant.                                          *)
LEMMA ManagerStep == ManagerInv /\ [Next]_vars => ManagerInv'
<1> SUFFICES ASSUME ManagerInv, [Next]_vars  PROVE ManagerInv'
  BY SMTT(30)
<1>1. CASE UNCHANGED vars
  <2>1. UNCHANGED dataVars /\ UNCHANGED <<runtime, now, call, heartbeat_evidence, next_evidence_id>>
    BY <1>1, Zenon DEF vars, metricsVars, dataVars, evidenceVars
  <2> QED  BY <2>1, DataSame, Zenon DEF ManagerInv, CallInv
<1>2. CASE Tick
  <2>1. /\ UNCHANGED dataVars /\ now' = now + 1
        /\ UNCHANGED <<runtime, call, heartbeat_evidence, next_evidence_id>>
    BY <1>2, Zenon DEF Tick, dataVars, evidenceVars
  <2> QED  BY <2>1, DataSame DEF ManagerInv, CallInv
<1>3. ASSUME NEW t \in Threads, Step(t)  PROVE ManagerInv'
  <2>1. CASE PublishEvent(t)
    <3>1. /\ UNCHANGED <<catalog, commit_epoch, heartbeat_evidence, latest_heartbeat, health,
                         next_evidence_id, runtime, now, call>>
          /\ DOMAIN outbox' = DOMAIN outbox
      BY <2>1, Zenon DEF PublishEvent, PublishNext, evidenceVars, metricsVars
    <3>2. DataType' /\ EvidenceInv'
      BY <3>1, SMTT(30) DEF ManagerInv, DataType, EvidenceInv, EvidenceOrdered
    <3> QED  BY <3>1, <3>2, Zenon DEF ManagerInv, HealthInv, CallInv
  <2> QED  BY <1>3, <2>1, ActivateSteps, CommitSteps, CollectSteps, SnapshotSteps, ReportSteps,
              QueryStep, Zenon DEF Step
<1> QED  BY <1>1, <1>2, <1>3, Zenon DEF Next

(* The invariant holds always.                                              *)
LEMMA ManagerInvariant == Spec => []ManagerInv
<1> QED  BY ManagerInitial, ManagerStep, PTL DEF Spec

(* The store of heartbeat evidence is bounded and in order, and eviction    *)
(* never takes away what stored health refers to (commitHeartbeatEvidence). *)
THEOREM EvidenceKeptCorrect == Spec => []EvidenceKept
<1>1. ManagerInv => EvidenceKept
  BY SMTT(30) DEF ManagerInv, EvidenceInv, HealthInv, EvidenceKept
<1> QED  BY <1>1, ManagerInvariant, PTL

(* Stored health is of the active catalog and rests on evidence that says   *)
(* what it says and was fresh enough, and answers are fresh (commitHealth,  *)
(* queryHealth).                                                            *)
THEOREM HealthJustifiedCorrect == Spec => []HealthJustified
<1>1. ASSUME ManagerInv  PROVE HealthJustified
  <2>1. HealthOfCatalog
    BY <1>1, Zenon DEF ManagerInv, EvidenceInv, HealthInv, HealthOfCatalog
  <2>2. AnswerFresh
    BY <1>1, Zenon DEF ManagerInv, CallInv, CallOk, Fresh, AnswerFresh
  <2>3. \A e \in DOMAIN health : \A ev \in Range(heartbeat_evidence) :
          EvidenceRef(ev) \in health[e].evidence => Justifies(ev, health[e])
    BY <1>1 DEF ManagerInv, HealthInv, Justified
  <2> QED  BY <2>1, <2>2, <2>3, Zenon DEF HealthJustified, Justifies
<1> QED  BY <1>1, ManagerInvariant, PTL

(* However late a call of activateCatalog gets to the lock, runtime_ never  *)
(* goes back to the device of an older catalog.                             *)
THEOREM RuntimeNeverGoesBackCorrect == Spec => RuntimeNeverGoesBack
<1>1. ASSUME ManagerInv, [Next]_vars
      PROVE  [runtime'.generation < runtime.generation => runtime'.entity = None]_vars
  <2> SUFFICES ASSUME runtime'.generation < runtime.generation  PROVE runtime'.entity = None
    BY SMTT(30)
  <2>1. runtime.generation \in Nat /\ runtime' # runtime
    BY <1>1 DEF ManagerInv, CallInv
  <2>2. PICK t \in Threads : ActivateInstall(t)
    BY <1>1, <2>1, ZenonT(60)
       DEF Next, Step, vars, metricsVars, Tick, PublishEvent, ActivateData, ActivateCheck,
           CommitResult, Collect, CommitEvidence, ReadEvidence, EvaluateEvidence, Start,
           TakeSnapshot, ProviderLatest, FreshnessHealth, FreshnessLatest, Query, QueryReturn
  <2> DEFINE c == call[t].catalog
  <2>3. c \in Catalogs
    BY <1>1, <2>2, Zenon DEF ManagerInv, CallInv, CallOk, ActivateInstall, At
  <2>4. MayInstall(c) /\ runtime' = RuntimeOf(c)
    BY <2>1, <2>2, Zenon DEF ActivateInstall
  <2>5. c.generation \in Nat /\ runtime'.generation = c.generation
    BY <2>3, <2>4, MetricsAssumption, Zenon DEF RuntimeOf, Catalog
  <2>6. c.unsupported
    BY <2>1, <2>4, <2>5, SMTT(30) DEF MayInstall
  <2> QED  BY <2>4, <2>6, Zenon DEF RuntimeOf
<1> QED  BY <1>1, ManagerInvariant, PTL DEF Spec, RuntimeNeverGoesBack

-----------------------------------------------------------------------------
(* The changes of health that are published.                                *)

Events == Range(log) \cup UNION {Range(outbox[t]) : t \in Threads}

Changes == {ev \in Events : ev.type = "health" /\ ev.generation = catalog.generation}

(* The changes S follow one from the other, and the last ended in h.        *)
Chained(S, h) ==
  /\ \A a, b \in S : a.epoch = b.epoch => a = b
  /\ \A a, b \in S :
       a.epoch < b.epoch /\ (\A c \in S : ~(a.epoch < c.epoch /\ c.epoch < b.epoch))
         => a.to = b.from /\ a.to_code = b.from_code
  /\ \A a \in S : (\A c \in S : c.epoch <= a.epoch) =>
       \E e \in DOMAIN h : h[e].state = a.to /\ h[e].code = a.to_code
  /\ S = {} => \A e \in DOMAIN h : h[e].state = "unknown"

EventInv ==
  /\ log \in Seq(Range(log))
  /\ \A t \in Threads : outbox[t] = <<>> \/ \E ev : outbox[t] = <<ev>>
  /\ catalog.generation \in Nat
  /\ \A ev \in Events : ev.generation \in Nat /\ ev.generation <= catalog.generation
  /\ \A a \in Changes : a.epoch \in Nat /\ a.epoch <= commit_epoch
  /\ DOMAIN health = {} => Changes = {}
  /\ Chained(Changes, health)

(* A chain only depends on the state and code of the result it ends in.     *)
LEMMA ChainKept ==
  ASSUME NEW S, NEW h, NEW e, NEW g, Chained(S, h), DOMAIN h = {e}, DOMAIN g = {e},
         g[e].state = h[e].state, g[e].code = h[e].code
  PROVE  Chained(S, g)
BY DEF Chained

(* b is a change after those of S, up to epoch n, from h to g.              *)
NextChange(b, n, S, h, g) ==
  /\ n \in Nat /\ b.epoch = n + 1 /\ \A a \in S : a.epoch \in Nat /\ a.epoch <= n
  /\ \E e : /\ DOMAIN g = {e} /\ g[e].state = b.to /\ g[e].code = b.to_code
            /\ S = {} \/ (DOMAIN h = {e} /\ b.from = h[e].state /\ b.from_code = h[e].code)

(* A chain goes on with a change that starts where it ends.                 *)
LEMMA ChainGrows ==
  ASSUME NEW S, NEW h, NEW g, NEW b, NEW n, Chained(S, h), NextChange(b, n, S, h, g)
  PROVE  Chained(S \cup {b}, g)
<1> PICK e : /\ DOMAIN g = {e} /\ g[e].state = b.to /\ g[e].code = b.to_code
             /\ S = {} \/ (DOMAIN h = {e} /\ b.from = h[e].state /\ b.from_code = h[e].code)
  BY Zenon DEF NextChange
<1>1. \A a \in S : a.epoch < b.epoch /\ ~(b.epoch <= a.epoch) /\ ~(b.epoch < a.epoch)
         /\ a.epoch # b.epoch /\ a.epoch \in Nat
  BY SMTT(30) DEF NextChange
<1>2. ASSUME NEW x \in S \cup {b}, NEW y \in S \cup {b}, x.epoch = y.epoch  PROVE x = y
  BY <1>1, <1>2, Zenon DEF Chained
<1>3. ASSUME NEW x \in S \cup {b}, NEW y \in S \cup {b}, x.epoch < y.epoch,
             \A c \in S \cup {b} : ~(x.epoch < c.epoch /\ c.epoch < y.epoch)
      PROVE  x.to = y.from /\ x.to_code = y.from_code
  <2>1. x \in S
    BY <1>1, <1>3, Zenon
  <2>2. CASE y \in S
    BY <1>3, <2>1, <2>2, Zenon DEF Chained
  <2>3. CASE y = b
    <3>1. \A c \in S : c.epoch <= x.epoch
      BY <1>1, <1>3, <2>1, <2>3
    <3>2. \E d \in DOMAIN h : h[d].state = x.to /\ h[d].code = x.to_code
      BY <2>1, <3>1, Zenon DEF Chained
    <3> QED  BY <2>1, <2>3, <3>2, Zenon
  <2> QED  BY <2>2, <2>3, Zenon
<1>4. ASSUME NEW a \in S \cup {b}, \A c \in S \cup {b} : c.epoch <= a.epoch
      PROVE  \E d \in DOMAIN g : g[d].state = a.to /\ g[d].code = a.to_code
  BY <1>1, <1>4, Zenon
<1> QED  BY <1>2, <1>3, <1>4, Zenon DEF Chained

(* Nothing is published, and nothing changed, at the start.                 *)
LEMMA EventInitial == Init => EventInv
<1> SUFFICES ASSUME Init  PROVE EventInv
  BY Zenon
<1> USE DEF Init, DataInit
<1>1. <<>> \in Seq({}) /\ Range(<<>>) = {}
  <2>1. <<>> \in Seq({}) /\ DOMAIN <<>> = {}
    OBVIOUS
  <2> QED  BY <2>1, Zenon DEF Range
<1>2. Events = {} /\ Changes = {}
  BY <1>1, Zenon DEF Events, Changes
<1>3. \A t \in Threads : outbox[t] = <<>>
  BY Zenon
<1>4. Chained(Changes, health)
  BY <1>2 DEF Chained
<1> QED  BY <1>1, <1>2, <1>3, <1>4 DEF EventInv

(* A step that publishes nothing and leaves health alone keeps EventInv.    *)
LEMMA EventSame ==
  ASSUME DataType, EventInv, commit_epoch' \in {commit_epoch, commit_epoch + 1},
         UNCHANGED <<catalog, health, log, outbox>>
  PROVE  EventInv'
<1>1. Events' = Events /\ Changes' = Changes
  BY DEF Events, Changes
<1>2. Chained(Changes', health')
  BY <1>1, Zenon DEF EventInv
<1>3. \A a \in Changes : a.epoch <= commit_epoch'
  BY DEF EventInv, DataType
<1> QED  BY <1>1, <1>2, <1>3, Zenon DEF EventInv

(* What a thread puts into its empty outbox is all that is new.             *)
LEMMA EventAdded ==
  ASSUME DataType, EventInv, NEW t \in Threads, outbox[t] = <<>>, UNCHANGED log, NEW q,
         outbox' = [outbox EXCEPT ![t] = q]
  PROVE  Events' = Events \cup Range(q)
<1>1. Range(<<>>) = {}
  <2>1. DOMAIN <<>> = {}
    OBVIOUS
  <2> QED  BY <2>1, Zenon DEF Range
<1>2. outbox'[t] = q /\ \A u \in Threads \ {t} : outbox'[u] = outbox[u]
  BY SMTT(30) DEF DataType
<1>3. UNION {Range(outbox'[u]) : u \in Threads}
        = (UNION {Range(outbox[u]) : u \in Threads}) \cup Range(q)
  BY <1>1, <1>2, Zenon
<1> QED  BY <1>3, Zenon DEF Events


(* commitHealth adds the change it makes to the end of the chain.           *)
LEMMA EventHealth ==
  ASSUME ManagerInv, EventInv, NEW t \in Threads, outbox[t] = <<>>, NEW r, CommitHealth(t, r)
  PROVE  EventInv'
<1> PICK b : b = HealthChange(r)
  OBVIOUS
<1> PICK e : e = r.entity
  BY Zenon
<1> DEFINE q == IF StateChanged(r) THEN <<b>> ELSE <<>>
<1>1. /\ HealthStatus(r) = "ok" /\ health' = With(health, e, r) /\ commit_epoch' = commit_epoch + 1
      /\ outbox' = [outbox EXCEPT ![t] = q] /\ UNCHANGED <<catalog, log>>
      /\ DataType /\ commit_epoch \in Nat
  BY Zenon DEF CommitHealth, ManagerInv, DataType
<1>2. Events' = Events \cup Range(q)
  BY <1>1, EventAdded, Zenon
<1>3. /\ DOMAIN health \subseteq {e} /\ DOMAIN health' = {e} /\ health'[e] = r
      /\ r.generation = catalog.generation
  <2>1. OfCatalog(r)
    BY <1>1, HealthAccepted, Zenon
  <2>2. \A d \in DOMAIN health : d = e
    BY <1>1, <2>1, OneEntity DEF ManagerInv, HealthInv, OfCatalog
  <2> QED  BY <1>1, <2>1, <2>2, Zenon DEF With, OfCatalog
<1>4. DOMAIN health = {e} \/ (DOMAIN health = {} /\ Changes = {})
  BY <1>3, Zenon DEF EventInv
<1>5. \A u \in Threads : outbox'[u] = <<>> \/ \E ev : outbox'[u] = <<ev>>
  BY <1>1, Zenon DEF EventInv, DataType
<1>6. /\ \A a \in Changes : a.epoch \in Nat /\ a.epoch <= commit_epoch
      /\ \A ev \in Events : ev.generation \in Nat /\ ev.generation <= catalog.generation
  BY Zenon DEF EventInv
<1>7. catalog' = catalog /\ commit_epoch' = commit_epoch + 1 /\ commit_epoch \in Nat
      /\ catalog.generation \in Nat
  BY <1>1, Zenon DEF EventInv
<1>8. CASE ~StateChanged(r)
  <2>1. Events' = Events /\ Changes' = Changes
    <3>1. DOMAIN <<>> = {}
      OBVIOUS
    <3>2. Events' = Events
      BY <1>2, <1>8, <3>1, Zenon DEF Range
    <3> QED  BY <1>1, <3>2 DEF Changes
  <2>2. Chained(Changes, health')
    <3>1. CASE DOMAIN health = {e}
      <4>1. health[e].state = r.state /\ health[e].code = r.code
        BY <1>8, <3>1 DEF StateChanged
      <4> QED  BY <1>3, <3>1, <4>1, ChainKept, Zenon DEF EventInv
    <3>2. CASE DOMAIN health = {} /\ Changes = {}
      <4>1. r.state = "unknown"
        BY <1>8, <3>2, Zenon DEF StateChanged, isDeterminateHealth
      <4> QED  BY <1>3, <3>2, <4>1 DEF Chained
    <3> QED  BY <1>4, <3>1, <3>2, SMTT(30)
  <2>3. \A a \in Changes : a.epoch \in Nat /\ a.epoch <= commit_epoch'
    BY <1>6, <1>7, SMTT(30)
  <2> QED  BY <1>1, <1>3, <1>5, <2>1, <2>2, <2>3, Zenon DEF EventInv
<1>9. CASE StateChanged(r)
  <2>1. /\ b.type = "health" /\ b.generation = catalog.generation /\ b.epoch = commit_epoch + 1
        /\ b.to = r.state /\ b.to_code = r.code
        /\ DOMAIN health = {e} => b.from = health[e].state /\ b.from_code = health[e].code
    BY <1>3 DEF HealthChange
  <2>2. Events' = Events \cup {b} /\ Changes' = Changes \cup {b}
    <3>1. Range(<<b>>) = {b}
      <4>1. DOMAIN <<b>> = {1} /\ <<b>>[1] = b
        BY SMTT(30)
      <4> QED  BY <4>1, Zenon DEF Range
    <3>2. Events' = Events \cup {b}
      BY <1>2, <1>9, <3>1, SMTT(30)
    <3> QED  BY <1>1, <2>1, <3>2, Zenon DEF Changes
  <2>4. Chained(Changes \cup {b}, health')
    <3>1. Chained(Changes, health)
      BY Zenon DEF EventInv
    <3>2. DOMAIN health' = {e} /\ health'[e].state = b.to /\ health'[e].code = b.to_code
      BY <1>3, <2>1, Zenon
    <3>3. \/ Changes = {}
          \/ DOMAIN health = {e} /\ b.from = health[e].state /\ b.from_code = health[e].code
      BY <1>4, <2>1, Zenon
    <3>4. NextChange(b, commit_epoch, Changes, health, health')
      BY <1>6, <1>7, <2>1, <3>2, <3>3, Zenon DEF NextChange
    <3> QED  BY <3>1, <3>4, ChainGrows
  <2>5. \A a \in Changes' : a.epoch \in Nat /\ a.epoch <= commit_epoch'
    BY <1>6, <1>7, <2>1, <2>2, SMTT(30)
  <2>6. \A ev \in Events' : ev.generation \in Nat /\ ev.generation <= catalog'.generation
    <3>1. catalog.generation <= catalog.generation
      BY <1>7, SMTT(30)
    <3> QED  BY <1>6, <1>7, <2>1, <2>2, <3>1, Zenon
  <2> QED  BY <1>1, <1>3, <1>5, <2>2, <2>4, <2>5, <2>6, Zenon DEF EventInv
<1> QED  BY <1>8, <1>9, Zenon

(* activateCatalog starts a new chain.                                      *)
LEMMA EventActivate ==
  ASSUME DataType, EventInv, NEW t \in Threads, outbox[t] = <<>>, NEW c \in Catalogs,
         ActivateCatalog(t, c)
  PROVE  EventInv'
<1> PICK b : b = [type |-> "catalog", generation |-> c.generation]
  BY Zenon
<1>1. /\ c.generation > catalog.generation /\ catalog' = c /\ health' = <<>>
      /\ outbox' = [outbox EXCEPT ![t] = <<b>>] /\ UNCHANGED <<commit_epoch, log>>
  BY Zenon DEF ActivateCatalog, Newer
<1>2. c.generation \in Nat /\ b.type = "catalog" /\ b.generation = c.generation
  BY MetricsAssumption, SMTT(30) DEF Catalog
<1>3. Events' = Events \cup {b}
  <2>1. DOMAIN <<b>> = {1} /\ <<b>>[1] = b
    OBVIOUS
  <2>2. Range(<<b>>) = {b}
    BY <2>1, Zenon DEF Range
  <2> QED  BY <1>1, <2>2, EventAdded, Zenon
<1>4. \A ev \in Events : ev.generation \in Nat /\ ev.generation < c.generation
  BY <1>1, <1>2 DEF EventInv
<1>5. Changes' = {}
  BY <1>1, <1>2, <1>3, <1>4, SMTT(30) DEF Changes
<1>6. DOMAIN health' = {} /\ Chained(Changes', health')
  BY <1>1, <1>5, SMTT(30) DEF Chained
<1>7. \A u \in Threads : outbox'[u] = <<>> \/ \E ev : outbox'[u] = <<ev>>
  BY <1>1, Zenon DEF EventInv, DataType
<1> QED  BY <1>1, <1>2, <1>3, <1>4, <1>5, <1>6, <1>7, SMTT(30) DEF EventInv

(* Publishing moves an event from the outbox to the log.                    *)
LEMMA EventPublish ==
  ASSUME DataType, EventInv, NEW t \in Threads, PublishNext(t)
  PROVE  EventInv'
<1>1. PICK b : outbox[t] = <<b>>
  BY Zenon DEF EventInv, PublishNext
<1>2. /\ log' = Append(log, b) /\ outbox'[t] = <<>>
      /\ \A u \in Threads \ {t} : outbox'[u] = outbox[u]
      /\ UNCHANGED <<catalog, commit_epoch, health>>
  BY <1>1 DEF PublishNext, DataType, evidenceVars
<1>3. Range(log') = Range(log) \cup {b} /\ log' \in Seq(Range(log'))
  <2>1. Range(log') = Range(log) \cup {b}
    BY <1>2, RangeAppend, Zenon DEF EventInv
  <2>2. log \in Seq(Range(log) \cup {b})
    BY DEF EventInv
  <2> QED  BY <1>2, <2>1, <2>2
<1>4. Events' = Events
  <2>1. Range(outbox[t]) = {b} /\ Range(outbox'[t]) = {}
    <3>1. DOMAIN <<b>> = {1} /\ <<b>>[1] = b /\ DOMAIN <<>> = {}
      OBVIOUS
    <3> QED  BY <1>1, <1>2, <3>1, SMTT(30) DEF Range
  <2>2. {b} \cup (UNION {Range(outbox'[u]) : u \in Threads})
          = UNION {Range(outbox[u]) : u \in Threads}
    BY <1>2, <2>1, Zenon
  <2> QED  BY <1>3, <2>2, Zenon DEF Events
<1>5. Changes' = Changes /\ Chained(Changes', health')
  BY <1>2, <1>4, Zenon DEF Changes, EventInv
<1>6. \A u \in Threads : outbox'[u] = <<>> \/ \E ev : outbox'[u] = <<ev>>
  BY <1>2, Zenon DEF EventInv
<1> QED  BY <1>2, <1>3, <1>4, <1>5, <1>6, SMTT(30) DEF EventInv


(* Every step keeps the invariant of events.                                *)
LEMMA EventStep == ManagerInv /\ EventInv /\ [Next]_vars => EventInv'
<1> SUFFICES ASSUME ManagerInv, EventInv, [Next]_vars  PROVE EventInv'
  BY SMTT(30)
<1>1. DataType
  BY SMTT(30) DEF ManagerInv
<1>2. CASE UNCHANGED dataVars
  BY <1>1, <1>2, EventSame, Zenon DEF dataVars, evidenceVars, eventVars
<1>3. ASSUME NEW t \in Threads, Step(t), ~UNCHANGED dataVars  PROVE EventInv'
  <2>1. \/ PublishNext(t)
        \/ outbox[t] = <<>> /\ \E c \in Catalogs : ActivateCatalog(t, c)
        \/ outbox[t] = <<>> /\ CommitHealth(t, call[t].result)
        \/ CommitHeartbeatEvidence(call[t].evidence)
    BY <1>3, Zenon
       DEF Step, PublishEvent, ActivateData, ActivateCheck, ActivateInstall, CommitResult, Collect,
           CommitEvidence, ReadEvidence, EvaluateEvidence, Start, TakeSnapshot, ProviderLatest,
           FreshnessHealth, FreshnessLatest, Query, QueryReturn, At
  <2>2. CASE CommitHeartbeatEvidence(call[t].evidence)
    BY <1>1, <2>2, EventSame, Zenon DEF CommitHeartbeatEvidence, eventVars
  <2> QED  BY <1>1, <2>1, <2>2, EventPublish, EventActivate, EventHealth, SMTT(30)
<1> QED  BY <1>2, <1>3, Zenon DEF Next, Tick, vars

(* No change of health is lost or made up: what commitHealth publishes,     *)
(* with what the threads are about to, is a chain that ends in the stored   *)
(* health.                                                                  *)
THEOREM EveryChangePublishedCorrect == Spec => []EveryChangePublished
<1>1. ASSUME EventInv  PROVE EveryChangePublished
  <2> DEFINE Follows(a, b) ==
               a.epoch < b.epoch /\ \A c \in Changes : ~(a.epoch < c.epoch /\ c.epoch < b.epoch)
  <2>1. \A a, b \in Changes : Follows(a, b) => a.to = b.from /\ a.to_code = b.from_code
    BY <1>1, Zenon DEF EventInv, Chained
  <2>2. ASSUME NEW a \in Changes
        PROVE  \/ \E b \in Changes : Follows(a, b)
               \/ \E e \in DOMAIN health : health[e].state = a.to /\ health[e].code = a.to_code
    <3>1. CASE \A c \in Changes : c.epoch <= a.epoch
      BY <1>1, <3>1, Zenon DEF EventInv, Chained
    <3>2. CASE \E c \in Changes : ~(c.epoch <= a.epoch)
      <4> DEFINE T == {c.epoch : c \in {d \in Changes : ~(d.epoch <= a.epoch)}}
      <4>1. \A c \in Changes : c.epoch \in Nat
        BY <1>1, Zenon DEF EventInv
      <4>2. T \in SUBSET Nat /\ T # {}
        BY <3>2, <4>1, Zenon
      <4>3. PICK n \in T : \A m \in T : ~(m < n)
        <5> HIDE DEF T
        <5> QED  BY <4>2, LeastNatural, Zenon
      <4>4. PICK b \in Changes : n = b.epoch /\ ~(b.epoch <= a.epoch)
        BY <4>3, Zenon
      <4>5. \A c \in Changes : ~(c.epoch <= a.epoch) => ~(c.epoch < b.epoch)
        BY <4>3, <4>4, Zenon
      <4> HIDE DEF T
      <4> QED  BY <4>1, <4>4, <4>5, SMTT(30)
    <3> QED  BY <3>1, <3>2, Zenon
  <2>3. Changes = {} => \A e \in DOMAIN health : health[e].state = "unknown"
    BY <1>1 DEF EventInv, Chained
  <2> QED  BY <2>1, <2>2, <2>3, Zenon DEF EveryChangePublished, Changes, Events
<1> QED  BY <1>1, EventInitial, EventStep, ManagerInvariant, PTL DEF Spec

=============================================================================
