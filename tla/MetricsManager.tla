--------------------------- MODULE MetricsManager ---------------------------
(***************************************************************************)
(* MetricsManager (metrics_manager.cpp) on DataManager: threads that        *)
(* activate catalogs, collect heartbeat evidence (the heartbeat half of     *)
(* CollectionCoordinator::normalizeAndCommit), report a provider that went  *)
(* away, look for stale health and query health.                           *)
(*                                                                         *)
(* No lock is held between the calls to DataManager, so every one of them   *)
(* and every access to runtime_ is a step of its own.                       *)
(***************************************************************************)
EXTENDS HealthStore

NativeState == [normal |-> "healthy", warning |-> "warning", fault |-> "error"]
NativeCode == [normal |-> "ok", warning |-> "warning", fault |-> "fault"]

CONSTANTS
  Operations,     \* what the threads are used for
  Catalogs,       \* the catalogs discovery publishes: one device at most
  Readings,       \* what a provider reports of the heartbeat
  Requests,       \* the HealthRequests; max_age 0 is none, generation 0 any
  Freshness,      \* heartbeat.freshness_ns
  MaxTime         \* bound on the clock

ASSUME MetricsAssumption ==
  /\ Operations \subseteq {"activate", "collect", "provider", "freshness", "query"}
  /\ \A c \in Catalogs : /\ c \in Catalog /\ c.generation # 0
                         /\ \A d, e \in c.entities : d = e
                         /\ c.unsupported => c.entities = {}
  /\ \A c, d \in Catalogs : c.generation = d.generation => c = d
  /\ Readings \subseteq [class : DOMAIN NativeState \cup {"unknown_native"}, status : Statuses,
                         token : Nat, sample : Nat \cup {None}, mapped : BOOLEAN, bytes : Nat,
                         failure : {None, "timeout", "unavailable", "other"}]
  /\ Requests \subseteq [entity : Entity, generation : Nat, max_age : Nat, heartbeat : BOOLEAN]
  /\ Freshness \in Nat /\ MaxTime \in Nat

VARIABLES
  runtime,        \* runtime_
  now,            \* the monotonic clock
  call            \* what each thread is doing

metricsVars == <<runtime, now, call>>
vars == <<dataVars, metricsVars>>

Idle == [pc |-> "idle"]
Goto(t, c) == call' = [call EXCEPT ![t] = c]
At(t, pc) == call[t].pc = pc /\ outbox[t] = <<>>

Init ==
  /\ DataInit
  /\ runtime = [generation |-> 0, entity |-> None, supported |-> FALSE]
  /\ now = 0
  /\ call = [t \in Threads |-> Idle]

Tick ==
  /\ now < MaxTime
  /\ now' = now + 1
  /\ UNCHANGED <<dataVars, runtime, call>>

(* The event of the call's last commit is published before the call goes on. *)
PublishEvent(t) == PublishNext(t) /\ UNCHANGED metricsVars

-----------------------------------------------------------------------------
(* Health results *)

Unknown(rt, code, item_status, limitation) ==
  [entity |-> rt.entity, state |-> "unknown", item_status |-> item_status,
   generation |-> rt.generation, age |-> 0, evidence |-> {},
   limitation |-> limitation, code |-> code]

(* The code and the limitation of evidence that is not valid.               *)
FailureCode(ev) ==
  IF ev.status = "unsupported" THEN <<"unsupported", "mapping_pending">>
  ELSE IF ev.status = "not_available" THEN <<"missing", "evidence_missing">>
  ELSE IF ev.failure = "timeout" THEN <<"timeout", "read_failure">>
  ELSE IF ev.failure = "unavailable" THEN <<"provider_unavailable", "provider_unavailable">>
  ELSE <<"read_error", "read_failure">>

(* Mutant: the age is not looked at.                                        *)
IsStaleNever(age, freshness) == FALSE

IsStale(age, freshness) == age > freshness

Evaluate(rt, ev, time, freshness) ==
  LET age == time - ev.time
      Result(state, item_status, code, limitation) ==
        [entity |-> ev.entity, state |-> state, item_status |-> item_status,
         generation |-> rt.generation, age |-> age, evidence |-> {EvidenceRef(ev)},
         limitation |-> limitation, code |-> code]
  IN  IF ev.status # "valid"
      THEN Result("unknown", ev.status, FailureCode(ev)[1], FailureCode(ev)[2])
      ELSE IF IsStale(age, freshness) THEN Result("unknown", "stale", "stale", "evidence_stale")
      ELSE Result(NativeState[ev.class], "valid", NativeCode[ev.class], None)

-----------------------------------------------------------------------------
(* activateCatalog, of DataManager and then of MetricsManager *)

(* Once the events of DataManager's own activateCatalog are out, the catalog *)
(* is handed to MetricsManager, whatever DataManager answered.               *)
ActivateData(t, c) ==
  /\ At(t, "idle") /\ "activate" \in Operations
  /\ Goto(t, [pc |-> "activate", catalog |-> c])
  /\ \/ ActivateCatalog(t, c)
     \/ ~Newer(c) /\ UNCHANGED dataVars
  /\ UNCHANGED <<runtime, now>>

ActivateCheck(t) ==
  /\ At(t, "activate")
  /\ Goto(t, IF catalog.generation = call[t].catalog.generation
             THEN [call[t] EXCEPT !.pc = "install"] ELSE Idle)
  /\ UNCHANGED <<dataVars, runtime, now>>

RuntimeOf(c) ==
  [generation |-> c.generation, supported |-> c.supported /\ ~c.unsupported,
   entity |-> IF c.unsupported \/ c.entities = {} THEN None
              ELSE CHOOSE e \in c.entities : TRUE]

(* Mutant: a slower call installs an older catalog.                         *)
MayInstallAny(c) == TRUE

MayInstall(c) == c.unsupported \/ runtime.generation <= c.generation

Initial(rt) ==
  IF rt.supported THEN Unknown(rt, "missing", "not_available", "evidence_missing")
  ELSE Unknown(rt, "unsupported", "unsupported", "mapping_pending")

ActivateInstall(t) ==
  LET c == call[t].catalog
  IN  /\ At(t, "install")
      /\ \/ /\ MayInstall(c)
            /\ runtime' = RuntimeOf(c)
            /\ Goto(t, IF RuntimeOf(c).entity = None THEN Idle
                       ELSE [pc |-> "commit", result |-> Initial(RuntimeOf(c))])
         \/ ~MayInstall(c) /\ Goto(t, Idle) /\ UNCHANGED runtime
      /\ UNCHANGED <<dataVars, now>>

(* The last step of every call that has a result to store.                  *)
CommitResult(t) ==
  /\ At(t, "commit")
  /\ \/ CommitHealth(t, call[t].result)
     \/ HealthStatus(call[t].result) # "ok" /\ UNCHANGED dataVars
  /\ Goto(t, Idle)
  /\ UNCHANGED <<runtime, now>>

-----------------------------------------------------------------------------
(* Heartbeat collection and onHeartbeatEvidenceCommitted *)

(* The provider has answered for the entity of a plan's catalog.            *)
Collect(t, c, e, r) ==
  /\ At(t, "idle") /\ "collect" \in Operations
  /\ catalog.generation = c.generation
  /\ Goto(t, [pc |-> "collected",
              evidence |-> [id |-> 0, entity |-> e, generation |-> c.generation,
                            time |-> now, class |-> r.class, status |-> r.status,
                            token |-> r.token, sample |-> r.sample,
                            failure |-> r.failure, mapped |-> r.mapped, bytes |-> r.bytes]])
  /\ UNCHANGED <<dataVars, runtime, now>>

CommitEvidence(t) ==
  LET ev == call[t].evidence
  IN  /\ At(t, "collected")
      /\ \/ /\ CommitHeartbeatEvidence(ev)
            /\ Goto(t, [pc |-> "snapshot", op |-> "evidence", id |-> next_evidence_id, request |-> None])
         \/ /\ EvidenceStatus(ev) # "ok"
            /\ Goto(t, Idle)
            /\ UNCHANGED dataVars
      /\ UNCHANGED <<runtime, now>>

ReadEvidence(t) ==
  LET found == {ev \in Range(heartbeat_evidence) :
                  /\ ev.id = call[t].id /\ ev.generation = call[t].runtime.generation
                  /\ ev.entity = call[t].runtime.entity}
  IN  /\ At(t, "evidence")
      /\ \/ \E ev \in found : Goto(t, [pc |-> "evaluate", runtime |-> call[t].runtime,
                                       evidence |-> ev])
         \/ found = {} /\ Goto(t, Idle)
      /\ UNCHANGED <<dataVars, runtime, now>>

EvaluateEvidence(t) ==
  /\ At(t, "evaluate")
  /\ Goto(t, [pc |-> "commit",
              result |-> Evaluate(call[t].runtime, call[t].evidence, now, Freshness)])
  /\ UNCHANGED <<dataVars, runtime, now>>

-----------------------------------------------------------------------------
(* onProviderStateChanged, runFreshnessOnce and queryHealth *)

(* The time is read before or after runtime_; only its order with the reads *)
(* of DataManager matters.                                                  *)
Start(t, op, request) ==
  /\ At(t, "idle") /\ op \in Operations
  /\ Goto(t, [pc |-> "snapshot", op |-> op, id |-> 0, request |-> request])
  /\ UNCHANGED <<dataVars, runtime, now>>

TakeSnapshot(t) ==
  /\ At(t, "snapshot")
  /\ Goto(t, IF runtime.entity = None THEN Idle
             ELSE [pc |-> call[t].op, id |-> call[t].id, request |-> call[t].request,
                   runtime |-> runtime, time |-> now])
  /\ UNCHANGED <<dataVars, runtime, now>>

(* latestHeartbeatEvidence(entity, generation).                             *)
Latest(rt) ==
  IF catalog.generation = rt.generation /\ rt.entity \in catalog.entities
  THEN LatestEvidence(rt.entity) ELSE {}

ProviderLatest(t) ==
  LET c == call[t]
      gone == Unknown(c.runtime, "provider_unavailable", "error", "provider_unavailable")
      usable == {ev \in Latest(c.runtime) : ev.time <= c.time}
  IN  /\ At(t, "provider")
      /\ Goto(t, [pc |-> "commit",
                  result |-> IF usable = {} THEN gone
                             ELSE LET ev == CHOOSE ev \in usable : TRUE
                                  IN  [gone EXCEPT !.evidence = {EvidenceRef(ev)},
                                                   !.age = c.time - ev.time]])
      /\ UNCHANGED <<dataVars, runtime, now>>

(* readHealth: an unknown health needs no look at its age.                  *)
FreshnessHealth(t) ==
  LET rt == call[t].runtime
      known == /\ catalog.generation = rt.generation /\ rt.entity \in DOMAIN health
               /\ isDeterminateHealth(health[rt.entity].state)
  IN  /\ At(t, "freshness")
      /\ Goto(t, IF known THEN [call[t] EXCEPT !.pc = "age"] ELSE Idle)
      /\ UNCHANGED <<dataVars, runtime, now>>

FreshnessLatest(t) ==
  LET c == call[t]
      old == {ev \in Latest(c.runtime) : IsStale(c.time - ev.time, Freshness)}
  IN  /\ At(t, "age")
      /\ \/ \E ev \in old :
              Goto(t, [pc |-> "commit", result |-> Evaluate(c.runtime, ev, c.time, Freshness)])
         \/ old = {} /\ Goto(t, Idle)
      /\ UNCHANGED <<dataVars, runtime, now>>

effectiveFreshness(age) == IF age = 0 THEN Freshness ELSE Min({Freshness, age})

HeartbeatAt(c) ==
  IF ~c.runtime.supported THEN Unknown(c.runtime, "unsupported", "unsupported", "mapping_pending")
  ELSE IF Latest(c.runtime) = {}
       THEN Unknown(c.runtime, "missing", "not_available", "evidence_missing")
  ELSE LET ev == CHOOSE ev \in Latest(c.runtime) : TRUE
       IN  IF c.time < ev.time THEN Unknown(c.runtime, "read_error", "error", "read_failure")
           ELSE Evaluate(c.runtime, ev, c.time, effectiveFreshness(c.request.max_age))

(* The aggregate of the answer, unless the request is for another entity or *)
(* catalog.  The item is the aggregate or, for another subsystem than the   *)
(* heartbeat, unsupported.                                                  *)
Query(t) ==
  LET c == call[t]
  IN  /\ At(t, "query")
      /\ Goto(t, IF /\ c.request.generation \in {0, c.runtime.generation}
                    /\ c.request.entity = c.runtime.entity
                 THEN [pc |-> "answer", request |-> c.request, result |-> HeartbeatAt(c),
                       item |-> IF c.request.heartbeat THEN HeartbeatAt(c)
                                ELSE Unknown(c.runtime, "unsupported", "unsupported", "catalog_gap")]
                 ELSE Idle)
      /\ UNCHANGED <<dataVars, runtime, now>>

QueryReturn(t) ==
  /\ At(t, "answer")
  /\ Goto(t, Idle)
  /\ UNCHANGED <<dataVars, runtime, now>>

-----------------------------------------------------------------------------
Step(t) ==
  \/ PublishEvent(t)
  \/ \E c \in Catalogs : ActivateData(t, c)
  \/ ActivateCheck(t) \/ ActivateInstall(t) \/ CommitResult(t)
  \/ \E c \in Catalogs : \E e \in c.entities, r \in Readings : Collect(t, c, e, r)
  \/ CommitEvidence(t) \/ ReadEvidence(t) \/ EvaluateEvidence(t)
  \/ Start(t, "provider", None) \/ ProviderLatest(t)
  \/ Start(t, "freshness", None) \/ FreshnessHealth(t) \/ FreshnessLatest(t)
  \/ \E q \in Requests : Start(t, "query", q)
  \/ TakeSnapshot(t) \/ Query(t) \/ QueryReturn(t)

Next == Tick \/ \E t \in Threads : Step(t)

Spec == Init /\ [][Next]_vars

-----------------------------------------------------------------------------
(* The evidence is within its limits and in the order it was observed, its  *)
(* valid tokens go up, and latest_heartbeat_ names the last of it.          *)
EvidenceOrdered ==
  LET q == heartbeat_evidence
  IN  /\ Len(q) <= MaxEvidenceItems /\ Bytes(q) <= MaxEvidenceBytes
      /\ \A i, j \in 1..Len(q) : i < j =>
           /\ q[i].id < q[j].id /\ q[i].time < q[j].time
           /\ q[i].status = "valid" /\ q[j].status = "valid" => q[i].token < q[j].token
      /\ q # <<>> => latest_heartbeat = [e \in {q[Len(q)].entity} |-> q[Len(q)].id]
      /\ q = <<>> => latest_heartbeat = <<>>

(* Eviction keeps the order of the evidence and never takes away evidence   *)
(* that health refers to: every reference of a stored result is to stored   *)
(* evidence, unaltered (commitHeartbeatEvidence).                           *)
EvidenceKept ==
  /\ EvidenceOrdered
  /\ \A e \in DOMAIN health : \A ref \in health[e].evidence :
       \E ev \in Range(heartbeat_evidence) : ev.entity = e /\ EvidenceRef(ev) = ref

(* Results and evidence of an old catalog never show up under a new one,    *)
(* however late the threads that made them arrive (commitHealth,            *)
(* commitHeartbeatEvidence).                                                *)
HealthOfCatalog ==
  /\ \A e \in DOMAIN health : health[e].generation = catalog.generation /\ e \in catalog.entities
  /\ \A ev \in Range(heartbeat_evidence) :
       ev.generation = catalog.generation /\ ev.entity \in catalog.entities

(* A determinate answer is no older than the catalog's freshness, nor than  *)
(* the age the caller asks for: a caller may tighten the one but not relax  *)
(* it (queryHealth, effectiveFreshness).                                    *)
AnswerFresh ==
  \A t \in Threads : call[t].pc = "answer" /\ isDeterminateHealth(call[t].result.state) =>
    /\ call[t].result.age <= Freshness
    /\ call[t].request.max_age \in 1..MaxTime => call[t].result.age <= call[t].request.max_age
    /\ call[t].request.heartbeat \/ ~isDeterminateHealth(call[t].item.state)

(* Stored health is of the active catalog.  A determinate one rests on      *)
(* valid evidence of exactly that class, and that was fresh when it was     *)
(* evaluated; a stale one rests on evidence that was not.  What a query     *)
(* answers is as fresh as both catalog and caller ask for.                  *)
HealthJustified ==
  /\ HealthOfCatalog /\ AnswerFresh
  /\ \A e \in DOMAIN health : \A ev \in Range(heartbeat_evidence) :
       LET h == health[e]
       IN  EvidenceRef(ev) \in h.evidence =>
             /\ isDeterminateHealth(h.state) =>
                  ev.status = "valid" /\ NativeState[ev.class] = h.state /\ h.age <= Freshness
             /\ h.code = "stale" => ev.status = "valid" /\ h.age > Freshness

(* The changes of health that were published or are about to be, in the     *)
(* order of their commits, follow one from the other and end in the stored  *)
(* health: no transition is lost and none is made up (commitHealth).        *)
EveryChangePublished ==
  LET all == {ev \in Range(log) \cup UNION {Range(outbox[t]) : t \in Threads} :
                ev.type = "health" /\ ev.generation = catalog.generation}
      Follows(a, b) == a.epoch < b.epoch /\ \A c \in all : ~(a.epoch < c.epoch /\ c.epoch < b.epoch)
  IN  /\ \A a, b \in all : Follows(a, b) => a.to = b.from /\ a.to_code = b.from_code
      /\ \A a \in all : \/ \E b \in all : Follows(a, b)
                       \/ \E e \in DOMAIN health : health[e].state = a.to /\ health[e].code = a.to_code
      /\ all = {} => \A e \in DOMAIN health : health[e].state = "unknown"

(* When no call is in progress, the stored health is not about evidence     *)
(* that newer evidence has replaced, unless the epochs have run out.        *)
HealthFollowsLatest ==
  commit_epoch # MaxEpoch /\ (\A t \in Threads : call[t].pc \in {"idle", "answer"}) =>
    \A e \in DOMAIN health : health[e].evidence \subseteq {EvidenceRef(ev) : ev \in LatestEvidence(e)}

(* However late a call of activateCatalog gets to the lock, MetricsManager  *)
(* never goes back to the device of an older catalog.  (A catalog with too  *)
(* many devices is installed without a look at its generation, so it may    *)
(* replace a newer one; it has no device to report health for.)             *)
RuntimeNeverGoesBack ==
  [][runtime'.generation < runtime.generation => runtime'.entity = None]_vars

=============================================================================
