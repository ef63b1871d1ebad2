---------------------------- MODULE MetricStore ----------------------------
(***************************************************************************)
(* The metrics of DataManager (data_manager.cpp): commit and readLatest.    *)
(***************************************************************************)
EXTENDS DataManager, SequencesExt

CONSTANTS
  Metrics,             \* the metrics of the target catalog
  MaxKeys, MaxHistory, MaxHistoryDuration, MaxTotalBytes,
  EntryBytes           \* sizeof(Entry)

ASSUME MetricStoreAssumption ==
  /\ Metrics \subseteq Nat /\ IsFiniteSet(Metrics)
  /\ {MaxKeys, MaxHistory, MaxHistoryDuration, MaxTotalBytes, EntryBytes} \subseteq Nat \ {0}

-----------------------------------------------------------------------------
(* commit *)

Key(o) == [entity |-> o.entity, metric |-> o.metric]

(* "sound" is validateObservation together with the metric's type, version *)
(* and value size.                                                          *)
OfActiveCatalog(o) ==
  /\ o.generation = catalog.generation /\ o.status # "stale"
  /\ o.entity \in catalog.entities
  /\ o.sound

(* The checks of an observation against the catalog.                        *)
MatchesCatalog(o) == OfActiveCatalog(o) /\ o.metric \in Metrics

Acceptable(batch) ==
  /\ batch # {}
  /\ catalog.generation # 0 /\ ~catalog.unsupported
  /\ commit_epoch # MaxEpoch
  /\ \A o, p \in batch : Key(o) = Key(p) => o = p
  /\ \A o \in batch : MatchesCatalog(o)

Stored(o, epoch) ==
  [status |-> o.status, time |-> o.time, bytes |-> o.bytes,
   generation |-> o.generation, epoch |-> epoch]

Trim(history, time) ==
  SelectSeq(Last_n(history, MaxHistory), LAMBDA o : time - o.time <= MaxHistoryDuration)

(* Mutant: a failure clears the last valid value.                           *)
UpdatedLosesValid(es, k, o) ==
  [latest |-> o,
   last_valid |-> IF o.status = "valid" THEN o ELSE None,
   history |-> LET old == IF k \in DOMAIN es THEN es[k].history ELSE <<>>
               IN  IF o.status = "valid" THEN Trim(Append(old, o), o.time) ELSE old]

(* An entry after an observation; k need not have one yet.                  *)
Updated(es, k, o) ==
  LET old == IF k \in DOMAIN es THEN es[k]
             ELSE [latest |-> None, last_valid |-> None, history |-> <<>>]
  IN  IF o.status = "valid"
      THEN [latest |-> o, last_valid |-> o, history |-> Trim(Append(old.history, o), o.time)]
      ELSE [old EXCEPT !.latest = o]

Staged(batch, epoch) ==
  LET new(k) == CHOOSE o \in batch : Key(o) = k
      keys == {Key(o) : o \in batch}
  IN  [k \in DOMAIN entries \cup keys |->
         IF k \in keys THEN Updated(entries, k, Stored(new(k), epoch)) ELSE entries[k]]

InOrder(batch) ==
  \A o \in batch : Key(o) \in DOMAIN entries => o.time >= entries[Key(o)].latest.time

entryBytes(e) ==
  EntryBytes + e.latest.bytes + Bytes(e.history)
  + IF e.last_valid = None THEN 0 ELSE e.last_valid.bytes

TotalBytes(es) == MapThenSumSet(LAMBDA k : entryBytes(es[k]), DOMAIN es)

(* The keys whose history starts with the oldest sample of all.             *)
OldestKeys(es) ==
  LET has == {k \in DOMAIN es : es[k].history # <<>>}
  IN  {k \in has : \A j \in has : es[k].history[1].time <= es[j].history[1].time}

(* The oldest samples are dropped, one at a time, while the bytes exceed the *)
(* limit and there are samples to drop.                                      *)
Shrunk(es) ==
  LET samples == MapThenSumSet(LAMBDA k : Len(es[k].history), DOMAIN es)
      after[n \in 0..samples] ==
        IF n = 0 THEN es
        ELSE [after[n - 1] EXCEPT ![CHOOSE k \in OldestKeys(after[n - 1]) : TRUE].history = Tail(@)]
      fits == {n \in 0..samples : TotalBytes(after[n]) <= MaxTotalBytes}
  IN  after[IF fits = {} THEN samples ELSE Min(fits)]

CommitStatus(batch) ==
  LET es == Staged(batch, commit_epoch + 1)
  IN  IF ~Acceptable(batch) \/ ~InOrder(batch) THEN "rejected"
      ELSE IF Cardinality(DOMAIN es) > MaxKeys \/ TotalBytes(Shrunk(es)) > MaxTotalBytes
           THEN "resource_exhausted"
      ELSE IF \E o \in batch : o.status # "valid" THEN "partial" ELSE "ok"

CommitOk(status) == status \in {"ok", "partial"}

(* A batch is stored as a whole or not at all.                              *)
Commit(t, batch) ==
  LET epoch == commit_epoch + 1
  IN  /\ CommitOk(CommitStatus(batch))
      /\ entries' = Shrunk(Staged(batch, epoch))
      /\ commit_epoch' = epoch
      /\ committed' = committed \o SetToSeq({[key |-> Key(o), o |-> Stored(o, epoch)] : o \in batch})
      /\ outbox' = [outbox EXCEPT ![t] =
           SetToSeq({[type |-> "metric", key |-> Key(o), generation |-> o.generation,
                      epoch |-> epoch] : o \in batch})]
      /\ UNCHANGED <<catalog, tombstones, evidenceVars, log, retired>>

-----------------------------------------------------------------------------
(* readLatest *)

Unavailable(k, status, now) ==
  [key |-> k, status |-> status, time |-> now, bytes |-> 1, epoch |-> commit_epoch,
   sample |-> 0]

(* Mutant: a stale value carries the epoch it was committed in.             *)
StaleOwnEpoch(k, e) ==
  [key |-> k, status |-> "stale", time |-> e.last_valid.time,
   bytes |-> e.last_valid.bytes, epoch |-> e.last_valid.epoch,
   sample |-> e.last_valid.epoch]

(* The last valid value, under the epoch of the failure that came after it. *)
Stale(k, e) ==
  [key |-> k, status |-> "stale", time |-> e.last_valid.time,
   bytes |-> e.last_valid.bytes, epoch |-> e.latest.epoch,
   sample |-> e.last_valid.epoch]

Item(k, allow_stale, now) ==
  LET e == entries[k]
  IN  IF k.metric \notin Metrics THEN Unavailable(k, "unsupported", now)
      ELSE IF k \notin DOMAIN entries THEN Unavailable(k, "not_available", now)
      ELSE IF e.latest.status # "valid" /\ allow_stale /\ e.last_valid # None
           THEN Stale(k, e)
      ELSE [key |-> k, status |-> e.latest.status, time |-> e.latest.time,
            bytes |-> e.latest.bytes, epoch |-> e.latest.epoch,
            sample |-> e.latest.epoch]

KeyLess(a, b) ==
  \/ a.entity.id < b.entity.id
  \/ /\ a.entity.id = b.entity.id
     /\ \/ a.entity.generation < b.entity.generation
        \/ a.entity.generation = b.entity.generation /\ a.metric < b.metric

(* What is wrong with one key; a stale value may not be from the future.    *)
KeyStatus(k, allow_stale, now) ==
  IF k.entity \notin catalog.entities
  THEN IF \E e \in catalog.entities : sameLogicalEntity(e, k.entity)
       THEN "stale_generation" ELSE "not_found"
  ELSE IF Item(k, allow_stale, now).status = "stale" /\ now < entries[k].last_valid.time
       THEN "invalid_argument" ELSE "ok"

(* The first bad key, in order, decides.                                    *)
KeysStatus(keys, allow_stale, now) ==
  LET bad == {k \in keys : KeyStatus(k, allow_stale, now) # "ok"}
      first == CHOOSE k \in bad : \A j \in bad : k = j \/ KeyLess(k, j)
  IN  IF bad = {} THEN "ok" ELSE KeyStatus(first, allow_stale, now)

ReadStatus(keys, allow_stale, now, generation) ==
  IF catalog.generation = 0 THEN "not_initialized"
  ELSE IF generation \notin {0, catalog.generation} THEN "stale_generation"
  ELSE IF catalog.unsupported THEN "unsupported"
  ELSE IF KeysStatus(keys, allow_stale, now) # "ok" THEN KeysStatus(keys, allow_stale, now)
  ELSE IF \A k \in keys : Item(k, allow_stale, now).status = "valid" THEN "ok"
  ELSE "partial"

readLatest(keys, allow_stale, now, generation) ==
  LET status == ReadStatus(keys, allow_stale, now, generation)
  IN  [status |-> status, generation |-> catalog.generation, epoch |-> commit_epoch,
       items |-> IF CommitOk(status)
                 THEN SetToSortSeq({Item(k, allow_stale, now) : k \in keys},
                                   LAMBDA a, b : KeyLess(a.key, b.key))
                 ELSE <<>>]

=============================================================================
