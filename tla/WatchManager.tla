---------------------------- MODULE WatchManager ----------------------------
(***************************************************************************)
(* WatchManager (watch_manager.cpp): the logical watches of the sessions,   *)
(* the firmware heartbeat baseline, the count of samples each watch has     *)
(* received, and the immutable snapshot that the collection coordinator     *)
(* compiles its plan from.                                                 *)
(*                                                                         *)
(* mutex_ is held for the whole of every operation, so each is one step.    *)
(* Every change goes through publish, which may refuse it; a refused        *)
(* operation changes nothing (activateCatalog excepted) and is not a step.  *)
(***************************************************************************)
EXTENDS Integers, FiniteSets

CONSTANTS
  Owners,               \* WatchOwners
  Metrics,              \* MetricIds
  Entities,             \* EntityRefs
  NoEntity,
  Requirements,         \* what callers ask for
  Catalogs,             \* what a catalog says of entity and capabilities
  Timings,              \* baseline periods and retentions callers ask for
  MinPeriod,            \* min_period_ns of a metric
  HeartbeatFreshness,   \* freshness_ns of the heartbeat's catalog entry
  MaxLogicalWatches, MaxEffectiveWatches, MaxMetricsPerWatch,  \* WatchLimits
  MaxDuration,          \* the largest Nanoseconds
  MaxVersion,           \* the last snapshot version
  MaxWatchId,           \* the last value of next_watch_id_, never issued
  MaxGeneration,        \* bound: catalog generations
  MaxTime,              \* bound: scheduled times
  MaxSamples            \* bound: periods one call accounts for

Priorities == 0..3

Nanoseconds == -MaxDuration..MaxDuration

Requirement == [metrics : SUBSET Metrics, period : Nanoseconds,
                freshness : Nanoseconds, retention : Nanoseconds,
                sample_limit : Nat, priority : Priorities,
                allow_partial : BOOLEAN]

(* heartbeat: the capability is supported and the catalog entry names a     *)
(* provider data id.  No entity: the topology is unsupported or does not    *)
(* have exactly one device.                                                *)
Capabilities == [entity : Entities \cup {NoEntity}, supported : SUBSET Metrics,
                 heartbeat : BOOLEAN]

ASSUME RequirementsAssumption == Requirements \subseteq Requirement

ASSUME CatalogsAssumption ==
  /\ NoEntity \notin Entities
  /\ Catalogs \subseteq Capabilities
  /\ \A c \in Catalogs : c.entity = NoEntity => c.supported = {} /\ ~c.heartbeat

ASSUME TimingsAssumption ==
  /\ Timings \subseteq [period : Nanoseconds, retention : Nanoseconds]
  /\ HeartbeatFreshness \in Nat
  /\ MinPeriod \in [Metrics -> Nat]

ASSUME WatchLimitsAssumption ==
  /\ MaxLogicalWatches \in Nat \ {0} /\ MaxEffectiveWatches \in Nat \ {0}
  /\ MaxMetricsPerWatch \in Nat \ {0}
  /\ MaxDuration \in Nat
  /\ MaxVersion \in Nat \ {0} /\ MaxWatchId \in Nat \ {0}
  /\ MaxGeneration \in Nat /\ MaxTime \in Nat /\ MaxSamples \in Nat

VARIABLES
  catalog,             \* catalog_: generation and capabilities
  heartbeat_baseline,  \* heartbeat_baseline_, at most one effective watch
  logical,             \* logical_: watch id -> watch
  snapshot,            \* snapshot_
  sample_counts,       \* sample_counts_
  last_sample_times,   \* last_sample_times_
  next_watch_id,       \* next_watch_id_
  counted              \* history: the scheduled times counted for a watch

vars == <<catalog, heartbeat_baseline, logical, snapshot, sample_counts,
          last_sample_times, next_watch_id, counted>>

sampleVars == <<sample_counts, last_sample_times, counted>>

Watch == [owner : Owners, requirement : Requirement, generation : Nat,
          entity : Entities]

-----------------------------------------------------------------------------
(* buildSnapshot *)

Least(S) == CHOOSE x \in S : \A y \in S : x <= y
Greatest(S) == CHOOSE x \in S : \A y \in S : y <= x

MetricKey(e, m) == [kind |-> "metric", entity |-> e, data |-> m]

(* Mutant: the slowest period wins.                                         *)
MergedSlowest(lg, key, ids) ==
  [key |-> key,
   period |-> Greatest({lg[w].requirement.period : w \in ids}),
   freshness |-> Least({lg[w].requirement.freshness : w \in ids}),
   retention |-> Greatest({lg[w].requirement.retention : w \in ids}),
   priority |-> Greatest({lg[w].requirement.priority : w \in ids}),
   logical_watches |-> ids]

(* The watches of one key share the shortest period and freshness and the   *)
(* longest retention and highest priority.                                 *)
Merged(lg, key, ids) ==
  [key |-> key,
   period |-> Least({lg[w].requirement.period : w \in ids}),
   freshness |-> Least({lg[w].requirement.freshness : w \in ids}),
   retention |-> Greatest({lg[w].requirement.retention : w \in ids}),
   priority |-> Greatest({lg[w].requirement.priority : w \in ids}),
   logical_watches |-> ids]

KeysOf(w) == {MetricKey(w.entity, m) : m \in w.requirement.metrics}

WatchersOf(lg, key) == {w \in DOMAIN lg : key \in KeysOf(lg[w])}

Effective(lg, baseline) ==
  baseline \cup {Merged(lg, key, WatchersOf(lg, key)) :
                   key \in UNION {KeysOf(lg[w]) : w \in DOMAIN lg}}

BuildSnapshot(lg, baseline, generation, version) ==
  [version |-> version, generation |-> generation, logical_watches |-> lg,
   effective_watches |-> Effective(lg, baseline)]

Kept(f, ids) == [w \in (DOMAIN f) \cap ids |-> f[w]]

-----------------------------------------------------------------------------
(* publish *)

PublishAccepts(lg, baseline) ==
  /\ Cardinality(DOMAIN lg) <= MaxLogicalWatches
  /\ snapshot.version # MaxVersion
  /\ Cardinality(Effective(lg, baseline)) <= MaxEffectiveWatches

Swap(lg, baseline, generation) ==
  /\ logical' = lg
  /\ snapshot' = BuildSnapshot(lg, baseline, generation, snapshot.version + 1)

ForgetSamples(ids) ==
  /\ sample_counts' = Kept(sample_counts, ids)
  /\ last_sample_times' = Kept(last_sample_times, ids)
  /\ counted' = Kept(counted, ids)

(* What publish does once it has accepted: the watches and the snapshot     *)
(* change together and the samples of the watches that are gone go.         *)
Publish(lg, baseline, generation) ==
  /\ Swap(lg, baseline, generation)
  /\ ForgetSamples(DOMAIN lg)

-----------------------------------------------------------------------------
Init ==
  /\ catalog = [generation |-> 0, entity |-> NoEntity, supported |-> {},
                heartbeat |-> FALSE]
  /\ heartbeat_baseline = {}
  /\ logical = [w \in {} |-> 0]
  /\ snapshot = BuildSnapshot(logical, {}, 0, 0)
  /\ sample_counts = [w \in {} |-> 0]
  /\ last_sample_times = [w \in {} |-> 0]
  /\ next_watch_id = 1
  /\ counted = [w \in {} |-> {}]

(* Mutant: the watches of the old catalog are carried over.                 *)
RetainedAll(generation, entity) == logical

(* The watches activateCatalog carries over.                                *)
Retained(generation, entity) ==
  Kept(logical, {w \in DOMAIN logical : /\ logical[w].generation = generation
                                        /\ logical[w].entity = entity})

(* activateCatalog with a newer generation: the catalog and the baseline    *)
(* have changed already when publish refuses.                               *)
ActivateCatalog(generation, c) ==
  LET retained == Retained(generation, c.entity)
  IN  /\ generation > catalog.generation
      /\ catalog' = [generation |-> generation, entity |-> c.entity,
                     supported |-> c.supported, heartbeat |-> c.heartbeat]
      /\ heartbeat_baseline' = {}
      /\ \/ /\ PublishAccepts(retained, {})
            /\ Publish(retained, {}, generation)
         \/ /\ ~PublishAccepts(retained, {})
            /\ UNCHANGED <<logical, snapshot, sampleVars>>
      /\ UNCHANGED next_watch_id

Baseline(t) ==
  [key |-> [kind |-> "heartbeat", entity |-> catalog.entity, data |-> "heartbeat"],
   period |-> t.period, freshness |-> HeartbeatFreshness,
   retention |-> t.retention, priority |-> 3, logical_watches |-> {}]

(* setFirmwareHeartbeatBaseline and clearFirmwareHeartbeatBaseline.         *)
SetFirmwareHeartbeatBaseline(t) ==
  /\ catalog.generation # 0 /\ catalog.entity # NoEntity /\ catalog.heartbeat
  /\ t.period > 0 /\ t.period <= HeartbeatFreshness
  /\ t.retention >= HeartbeatFreshness
  /\ PublishAccepts(logical, {Baseline(t)})
  /\ heartbeat_baseline' = {Baseline(t)}
  /\ Publish(logical, {Baseline(t)}, catalog.generation)
  /\ UNCHANGED <<catalog, next_watch_id>>

(* Mutant: the baseline is dropped without a new snapshot.                  *)
ClearUnpublished ==
  /\ heartbeat_baseline # {}
  /\ heartbeat_baseline' = {}
  /\ UNCHANGED <<catalog, logical, snapshot, sampleVars, next_watch_id>>

ClearFirmwareHeartbeatBaseline ==
  /\ heartbeat_baseline # {}
  /\ PublishAccepts(logical, {})
  /\ heartbeat_baseline' = {}
  /\ Publish(logical, {}, catalog.generation)
  /\ UNCHANGED <<catalog, next_watch_id>>

ValidateRequirement(r, generation, entity) ==
  /\ catalog.generation # 0 /\ catalog.entity # NoEntity
  /\ generation = catalog.generation /\ entity = catalog.entity
  /\ r.metrics # {} /\ Cardinality(r.metrics) <= MaxMetricsPerWatch
  /\ r.period > 0 /\ r.freshness >= r.period /\ r.retention >= r.freshness
  /\ \A m \in r.metrics \cap catalog.supported : r.period >= MinPeriod[m]

NextWatchId == next_watch_id + 1

WithWatch(o, r, generation, entity) ==
  [w \in DOMAIN logical \cup {next_watch_id} |->
     IF w = next_watch_id
     THEN [owner |-> o, generation |-> generation, entity |-> entity,
           requirement |-> [r EXCEPT !.metrics = @ \cap catalog.supported]]
     ELSE logical[w]]

Create(o, r, generation, entity) ==
  LET next == WithWatch(o, r, generation, entity)
  IN  /\ next_watch_id # MaxWatchId
      /\ ValidateRequirement(r, generation, entity)
      /\ r.metrics \subseteq catalog.supported \/ r.allow_partial
      /\ r.metrics \cap catalog.supported # {}
      /\ PublishAccepts(next, heartbeat_baseline)
      /\ Publish(next, heartbeat_baseline, catalog.generation)
      /\ next_watch_id' = NextWatchId
      /\ UNCHANGED <<catalog, heartbeat_baseline>>

(* destroy and removeOwner, which take watches of one owner away.           *)
Remove(ids) ==
  LET next == Kept(logical, DOMAIN logical \ ids)
  IN  /\ PublishAccepts(next, heartbeat_baseline)
      /\ Publish(next, heartbeat_baseline, catalog.generation)
      /\ UNCHANGED <<catalog, heartbeat_baseline, next_watch_id>>

Destroy(o, w) ==
  /\ w \in DOMAIN logical
  /\ logical[w].owner = o
  /\ Remove({w})

RemoveOwner(o) ==
  LET ids == {w \in DOMAIN logical : logical[w].owner = o}
  IN  ids # {} /\ Remove(ids)

-----------------------------------------------------------------------------
(* recordSamples *)

(* The periods of the token that the watch has had already.                 *)
Skipped(w, first, period) ==
  IF w \in DOMAIN last_sample_times /\ last_sample_times[w] >= first
  THEN (last_sample_times[w] - first) \div period + 1
  ELSE 0

SampleCount(w) == IF w \in DOMAIN sample_counts THEN sample_counts[w] ELSE 0
Counted(w) == IF w \in DOMAIN counted THEN counted[w] ELSE {}

Updated(w, first, period, count) ==
  SampleCount(w) + count - Skipped(w, first, period)

(* The live watches of the token that get at least one sample.              *)
Hit(ids, first, period, count) ==
  {w \in ids \cap DOMAIN logical : Skipped(w, first, period) < count}

(* Mutant: the limit is noticed one sample late.                            *)
FinishedLate(ids, first, period, count) ==
  {w \in Hit(ids, first, period, count) :
     /\ logical[w].requirement.sample_limit # 0
     /\ Updated(w, first, period, count) > logical[w].requirement.sample_limit}

(* Those that reach their limit and are removed.                            *)
Finished(ids, first, period, count) ==
  {w \in Hit(ids, first, period, count) :
     /\ logical[w].requirement.sample_limit # 0
     /\ Updated(w, first, period, count) >= logical[w].requirement.sample_limit}

Slots(w, first, period, count) ==
  {first + k * period : k \in Skipped(w, first, period)..(count - 1)}

LastScheduled(first, period, count) == first + period * (count - 1)

RecordSamples(ids, first, period, count) ==
  LET hit == Hit(ids, first, period, count)
      gone == Finished(ids, first, period, count)
      live == DOMAIN sample_counts \cup hit
      next == Kept(logical, DOMAIN logical \ gone)
  IN  /\ hit # {}
      /\ \/ /\ gone = {}
            /\ UNCHANGED <<logical, snapshot>>
         \/ /\ gone # {}
            /\ PublishAccepts(next, heartbeat_baseline)
            /\ Swap(next, heartbeat_baseline, catalog.generation)
      /\ sample_counts' = [w \in live \ gone |->
           IF w \in hit THEN Updated(w, first, period, count) ELSE sample_counts[w]]
      /\ last_sample_times' = [w \in live \ gone |->
           IF w \in hit THEN LastScheduled(first, period, count)
                        ELSE last_sample_times[w]]
      /\ counted' = [w \in live \ gone |->
           IF w \in hit THEN Counted(w) \cup Slots(w, first, period, count)
                        ELSE counted[w]]
      /\ UNCHANGED <<catalog, heartbeat_baseline, next_watch_id>>

Periods == {r.period : r \in Requirements} \cap (Nat \ {0})

Next ==
  \/ \E g \in 1..MaxGeneration, c \in Catalogs : ActivateCatalog(g, c)
  \/ \E t \in Timings : SetFirmwareHeartbeatBaseline(t)
  \/ ClearFirmwareHeartbeatBaseline
  \/ \E o \in Owners, r \in Requirements, g \in 1..MaxGeneration, e \in Entities :
       Create(o, r, g, e)
  \/ \E o \in Owners, w \in 1..MaxWatchId : Destroy(o, w)
  \/ \E o \in Owners : RemoveOwner(o)
  \/ \E ids \in SUBSET (1..MaxWatchId), first \in 0..MaxTime, period \in Periods,
        count \in 1..MaxSamples : RecordSamples(ids, first, period, count)

Spec == Init /\ [][Next]_vars

-----------------------------------------------------------------------------
(* Properties *)

TypeOK ==
  /\ catalog \in [generation : Nat, entity : Entities \cup {NoEntity},
                  supported : SUBSET Metrics, heartbeat : BOOLEAN]
  /\ logical \in [DOMAIN logical -> Watch]
  /\ DOMAIN logical \subseteq 1..(next_watch_id - 1)
  /\ next_watch_id \in 1..MaxWatchId
  /\ snapshot.version \in 0..MaxVersion
  /\ DOMAIN sample_counts = DOMAIN last_sample_times
  /\ DOMAIN sample_counts = DOMAIN counted
  /\ sample_counts \in [DOMAIN sample_counts -> Nat]
  /\ last_sample_times \in [DOMAIN sample_counts -> Nat]
  /\ counted \in [DOMAIN sample_counts -> SUBSET Nat]

(* activateCatalog has been refused by publish: only possible once the      *)
(* snapshot version has run out, and nothing can be published any more.     *)
Stuck == snapshot.version = MaxVersion /\ snapshot.generation < catalog.generation

(* What readers of snapshot() see is what the manager holds: after every    *)
(* operation, refused ones and rolled-back baselines included, the          *)
(* published snapshot is the one buildSnapshot makes of logical_,           *)
(* heartbeat_baseline_ and catalog_.                                        *)
SnapshotCurrent ==
  ~Stuck => snapshot = BuildSnapshot(logical, heartbeat_baseline,
                                     catalog.generation, snapshot.version)

(* No watch outlives the catalog it was created under: every live watch     *)
(* names the active generation and entity, asks only for supported metrics, *)
(* and the baseline is only there while the entity supports it.             *)
WatchesCurrent ==
  ~Stuck =>
    /\ \A w \in DOMAIN logical :
         /\ logical[w].generation = catalog.generation
         /\ logical[w].entity = catalog.entity
         /\ logical[w].requirement.metrics # {}
         /\ logical[w].requirement.metrics \subseteq catalog.supported
    /\ \A b \in heartbeat_baseline : catalog.heartbeat /\ b.key.entity = catalog.entity

(* Merging serves everybody: each metric of each watch has exactly one      *)
(* effective watch, which names the watch and is read at least as often, is *)
(* at least as fresh, kept at least as long and at least as urgent as the   *)
(* watch asks (buildSnapshot).                                              *)
Serves(e, w, r) ==
  /\ w \in e.logical_watches
  /\ e.period <= r.period /\ e.freshness <= r.freshness
  /\ e.retention >= r.retention /\ e.priority >= r.priority

AllServed(s) ==
  \A w \in DOMAIN s.logical_watches :
    LET watch == s.logical_watches[w]
    IN  \A m \in watch.requirement.metrics :
          \E e \in s.effective_watches :
            /\ e.key = MetricKey(watch.entity, m)
            /\ \A f \in s.effective_watches : f.key = e.key => f = e
            /\ Serves(e, w, watch.requirement)

EveryWatchServed == AllServed(snapshot)

(* Merging keeps timings consistent: an effective watch is read within its  *)
(* freshness, and its values are kept at least as long as they are fresh,   *)
(* although period, freshness and retention may come from three watches.    *)
TimingConsistent(e) ==
  e.period > 0 /\ e.period <= e.freshness /\ e.freshness <= e.retention

EffectiveTimingConsistent ==
  \A e \in snapshot.effective_watches : TimingConsistent(e)

(* The inductive part: what create and setFirmwareHeartbeatBaseline have    *)
(* validated stays valid, the snapshot lists the watches there are, and its *)
(* catalog is never newer than the active one.                              *)
ManagerInv ==
  /\ \A w \in DOMAIN logical : TimingConsistent(logical[w].requirement)
  /\ \A b \in heartbeat_baseline : TimingConsistent(b) /\ b.key.kind = "heartbeat"
  /\ snapshot.logical_watches = logical
  /\ snapshot.generation \in 0..catalog.generation
  /\ DOMAIN sample_counts \subseteq DOMAIN logical

(* WatchLimits bound what is published.                                     *)
LimitsRespected ==
  /\ Cardinality(DOMAIN snapshot.logical_watches) <= MaxLogicalWatches
  /\ Cardinality(snapshot.effective_watches) <= MaxEffectiveWatches

(* A watch's count is the number of different scheduled times it has been   *)
(* given, whatever the order, overlap and periods of the tokens; the last   *)
(* of them is remembered; and a watch with a sample limit is still below it *)
(* (recordSamples, publish).                                                *)
SamplesExact ==
  /\ DOMAIN sample_counts \subseteq DOMAIN logical
  /\ \A w \in DOMAIN sample_counts :
       /\ sample_counts[w] = Cardinality(counted[w])
       /\ last_sample_times[w] \in counted[w]
       /\ \A t \in counted[w] : t <= last_sample_times[w]
       /\ logical[w].requirement.sample_limit # 0 =>
            sample_counts[w] < logical[w].requirement.sample_limit

(* A reader that compares versions misses no change: the version goes up by *)
(* one exactly when a snapshot is published.                                *)
VersionAdvances ==
  [][snapshot' # snapshot => snapshot'.version = snapshot.version + 1]_vars

(* A watch id names one watch for ever: an id that has been issued and is   *)
(* gone does not come back, and a live id keeps its watch (create, destroy, *)
(* removeOwner, recordSamples).                                             *)
WatchIdsNeverReused ==
  [][/\ next_watch_id' >= next_watch_id
     /\ \A w \in DOMAIN logical' :
          /\ w \in DOMAIN logical => logical'[w] = logical[w]
          /\ w \notin DOMAIN logical => w >= next_watch_id]_vars

(* The time of the last sample of a live watch never moves back, so a late  *)
(* token cannot make periods count twice.                                   *)
LastSampleNeverMovesBack ==
  [][\A w \in DOMAIN last_sample_times \cap DOMAIN last_sample_times' :
       last_sample_times'[w] >= last_sample_times[w]]_vars

=============================================================================
