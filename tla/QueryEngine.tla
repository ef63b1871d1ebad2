---------------------------- MODULE QueryEngine ----------------------------
(***************************************************************************)
(* QueryEngine::execute (query_engine.cpp) on DataManager's metric store:   *)
(* threads that commit batches and activate catalogs, and threads that run  *)
(* queries, which read the store, may ask for a fresh read, and may wait    *)
(* for an epoch, holding no lock in between.                                *)
(***************************************************************************)
EXTENDS MetricStore

CONSTANTS
  Loads,           \* what the surroundings may do, see below
  QueryMaxItems,   \* QueryLimits::max_items
  Freshness        \* freshness_ns of every metric

(* A load: the catalogs discovery publishes, the sets of readings a          *)
(* collection commits, the QueryRequests, which threads commit and which     *)
(* query, and bounds on the clock and on the commits.                        *)
ASSUME QueryAssumption ==
  /\ \A l \in Loads : /\ l.catalogs \subseteq Catalog
                       /\ l.writers \subseteq Threads /\ l.readers \subseteq Threads
                       /\ l.max_time \in Nat /\ l.max_commits \in Nat
  /\ QueryMaxItems \in Nat \ {0} /\ Freshness \in Nat

VARIABLES
  load,            \* the load, which stays the same
  now,             \* the monotonic clock
  call             \* what each thread is doing

queryVars == <<load, now, call>>
vars == <<dataVars, queryVars>>

Idle == [pc |-> "idle"]
At(t, pc) == call[t].pc = pc /\ outbox[t] = <<>>
Goto(t, c) == call' = [call EXCEPT ![t] = c]

Init ==
  /\ DataInit
  /\ now = 0
  /\ load \in Loads
  /\ call = [t \in Threads |-> Idle]

Tick ==
  /\ now < load.max_time
  /\ now' = now + 1
  /\ UNCHANGED <<dataVars, load, call>>

-----------------------------------------------------------------------------
(* The writers *)

PublishEvent(t) == PublishNext(t) /\ UNCHANGED <<load, now, call>>

ActivateNext(t, c) ==
  /\ At(t, "idle")
  /\ ActivateCatalog(t, c)
  /\ UNCHANGED <<load, now, call>>

(* A collection observes at one time and commits later, under the catalog   *)
(* of its plan.                                                             *)
Collect(t, c, s) ==
  /\ At(t, "idle")
  /\ commit_epoch < load.max_commits
  /\ Goto(t, [pc |-> "collected",
              batch |-> {[entity |-> o.entity, metric |-> o.metric, status |-> o.status,
                          bytes |-> o.bytes, sound |-> o.sound, time |-> now,
                          generation |-> c.generation] : o \in s}])
  /\ UNCHANGED <<dataVars, load, now>>

CommitBatch(t) ==
  /\ At(t, "collected")
  /\ \/ Commit(t, call[t].batch)
     \/ ~CommitOk(CommitStatus(call[t].batch)) /\ UNCHANGED dataVars
  /\ Goto(t, Idle)
  /\ UNCHANGED <<load, now>>

-----------------------------------------------------------------------------
(* execute *)

ValidRequest(r) ==
  /\ r.keys # {} /\ Cardinality(r.keys) <= QueryMaxItems
  /\ r.max_items \in 1..QueryMaxItems /\ r.max_bytes # 0
  /\ (r.consistency = "at_least_epoch") <=> (r.required_epoch # 0)

Start(t, r) ==
  /\ At(t, "idle")
  /\ ValidRequest(r)
  /\ Goto(t, [pc |-> IF r.consistency = "at_least_epoch" THEN "wait_first" ELSE "read",
              request |-> r, begun |-> [epoch |-> commit_epoch, time |-> now], since |-> now])
  /\ UNCHANGED <<dataVars, load, now>>

(* A result, with the epoch and the catalog it was read at.                 *)
Done(t, status, items, snapshot) ==
  Goto(t, [pc |-> "done", request |-> call[t].request, begun |-> call[t].begun,
           status |-> status, items |-> items, epoch |-> snapshot.epoch,
           generation |-> snapshot.generation])

(* waitForEpoch: the epoch is looked at before the deadline.                *)
Expired(t, epoch) == commit_epoch < epoch /\ now >= call[t].request.deadline

WaitFirst(t) ==
  LET epoch == call[t].request.required_epoch
  IN  /\ At(t, "wait_first")
      /\ \/ /\ commit_epoch >= epoch
            /\ Goto(t, [call[t] EXCEPT !.pc = "read", !.since = now])
         \/ Expired(t, epoch) /\ Done(t, "timeout", <<>>, [epoch |-> 0, generation |-> 0])
      /\ UNCHANGED <<dataVars, load, now>>

(* The clock is read before the store is locked: at any time since the last *)
(* step.                                                                    *)
Clock(t) == call[t].since..now

Read(r, time) == readLatest(r.keys, r.allow_stale, time, r.generation)

TooOld(r, item, time) ==
  LET age == IF r.max_age # 0 /\ (Freshness = 0 \/ r.max_age < Freshness)
             THEN r.max_age ELSE Freshness
  IN  age # 0 /\ (time < item.time \/ time - item.time > age)

(* Mutant: a valid value that is young enough is never read again.          *)
keysNeedingIfOld(r, snapshot, time) ==
  {i.key : i \in {i \in ToSet(snapshot.items) :
     r.policy # "cache_only" /\ i.status # "unsupported" /\ (i.status # "valid" \/ TooOld(r, i, time))}}

keysNeedingFreshRead(r, snapshot, time) ==
  {i.key : i \in {i \in ToSet(snapshot.items) :
     /\ r.policy # "cache_only" /\ i.status # "unsupported"
     /\ r.policy = "fresh_required" \/ i.status # "valid" \/ TooOld(r, i, time)}}

(* allItemsAtEpoch does not hold.                                           *)
Short(items, epoch) == \E i \in ToSet(items) : i.epoch < epoch

(* What comes after a read: the epoch loop, or the end.                     *)
Settled(t, c, snapshot, fresh) ==
  LET r == c.request
      short == Short(snapshot.items, r.required_epoch)
  IN  Goto(t, [pc |-> IF CommitOk(snapshot.status) /\ short THEN "next_epoch" ELSE "finalize",
               request |-> r, begun |-> c.begun, snapshot |-> snapshot, fresh |-> fresh])

FirstRead(t) ==
  /\ At(t, "read")
  /\ \E time \in Clock(t) :
       LET r == call[t].request
           snapshot == Read(r, time)
           keys == keysNeedingFreshRead(r, snapshot, time)
       IN  IF keys = {} THEN Settled(t, call[t], snapshot, "ok")
           ELSE Goto(t, [pc |-> "fresh", request |-> r, begun |-> call[t].begun,
                         keys |-> keys, generation |-> snapshot.generation])
  /\ UNCHANGED <<dataVars, load, now>>

(* On to the next read.                                                     *)
Reread(t, fresh) ==
  Goto(t, [pc |-> "reread", request |-> call[t].request, begun |-> call[t].begun,
           fresh |-> fresh, since |-> now])

(* FreshReadCoordinator::freshRead, external to QueryEngine: it commits the *)
(* keys, or fails; past the deadline it is not called.                      *)
FreshRead(t) ==
  LET c == call[t]
      batch(status) ==
        {[entity |-> k.entity, metric |-> k.metric, status |-> status, bytes |-> 1,
          sound |-> TRUE, time |-> now, generation |-> c.generation] : k \in c.keys}
  IN  /\ At(t, "fresh")
      /\ \/ /\ now < c.request.deadline
            /\ \E status \in {"valid", "error"} :
                 Commit(t, batch(status)) /\ Reread(t, CommitStatus(batch(status)))
         \/ Reread(t, "unavailable") /\ UNCHANGED dataVars
         \/ now >= c.request.deadline /\ Reread(t, "timeout") /\ UNCHANGED dataVars
      /\ UNCHANGED <<load, now>>

SecondRead(t) ==
  /\ At(t, "reread")
  /\ \E time \in Clock(t) :
       Settled(t, call[t], Read(call[t].request, time), call[t].fresh)
  /\ UNCHANGED <<dataVars, load, now>>

(* commitEpoch() + 1, read after the snapshot.                              *)
NextEpoch(t) ==
  LET c == call[t]
  IN  /\ At(t, "next_epoch")
      /\ Goto(t, [pc |-> "wait", request |-> c.request, begun |-> c.begun, fresh |-> c.fresh,
                  at |-> [epoch |-> c.snapshot.epoch, generation |-> c.snapshot.generation],
                  epoch |-> commit_epoch + 1])
      /\ UNCHANGED <<dataVars, load, now>>

Wait(t) ==
  /\ At(t, "wait")
  /\ \/ commit_epoch >= call[t].epoch /\ Reread(t, call[t].fresh)
     \/ Expired(t, call[t].epoch) /\ Done(t, "timeout", <<>>, call[t].at)
  /\ UNCHANGED <<dataVars, load, now>>

(* How many of the items fit into the limits of the request.                *)
Returned(items, r) ==
  Max({n \in 0..Len(items) : n <= r.max_items /\ Bytes(SubSeq(items, 1, n)) <= r.max_bytes})

SameBatch(items) == \A i, j \in ToSet(items) : i.epoch = j.epoch

Finalize(t) ==
  LET c == call[t]
      items == c.snapshot.items
      n == Returned(items, c.request)
  IN  /\ At(t, "finalize")
      /\ \/ ~CommitOk(c.snapshot.status) /\ Done(t, c.snapshot.status, <<>>, c.snapshot)
         \/ /\ CommitOk(c.snapshot.status)
            /\ IF c.request.consistency = "same_batch" /\ ~SameBatch(items)
               THEN Done(t, "unavailable", <<>>, c.snapshot)
               ELSE Done(t, IF n < Len(items) THEN "buffer_too_small"
                            ELSE IF ~CommitOk(c.fresh) THEN c.fresh ELSE c.snapshot.status,
                         SubSeq(items, 1, n), c.snapshot)
      /\ UNCHANGED <<dataVars, load, now>>

QueryReturn(t) ==
  /\ At(t, "done")
  /\ Goto(t, Idle)
  /\ UNCHANGED <<dataVars, load, now>>

-----------------------------------------------------------------------------
Step(t) ==
  \/ PublishEvent(t)
  \/ t \in load.writers /\ \E c \in load.catalogs : ActivateNext(t, c)
  \/ t \in load.writers /\ \E c \in load.catalogs, s \in load.samples : Collect(t, c, s)
  \/ CommitBatch(t)
  \/ t \in load.readers /\ \E r \in load.requests : Start(t, r)
  \/ WaitFirst(t) \/ FirstRead(t) \/ FreshRead(t) \/ SecondRead(t) \/ NextEpoch(t)
  \/ Wait(t) \/ Finalize(t) \/ QueryReturn(t)

Next == Tick \/ \E t \in Threads : Step(t)

Spec == Init /\ [][Next]_vars

-----------------------------------------------------------------------------
(* What was committed for a key since the catalog was activated.            *)
CommittedFor(k) == SelectSeq(committed, LAMBDA c : c.key = k)
ValidFor(k) == SelectSeq(CommittedFor(k), LAMBDA c : c.o.status = "valid")
Observations(q) == [i \in 1..Len(q) |-> q[i].o]

(* The store stays within its limits on keys, samples, age and bytes.       *)
StoreBounded ==
  /\ Cardinality(DOMAIN entries) <= MaxKeys /\ TotalBytes(entries) <= MaxTotalBytes
  /\ \A k \in DOMAIN entries :
       LET h == entries[k].history
       IN  /\ Len(h) <= MaxHistory
           /\ h # <<>> => h[Len(h)].time - h[1].time <= MaxHistoryDuration

(* Results of an old catalog never show up under a new one, however late    *)
(* the thread that collected them commits (commit, activateCatalog).        *)
StoreOfCatalog ==
  \A k \in DOMAIN entries :
    /\ k.entity \in catalog.entities
    /\ entries[k].latest.generation = catalog.generation
    /\ \A i \in 1..Len(entries[k].history) : entries[k].history[i].generation = catalog.generation

(* The store is what its commits make it: the latest result of a key is its *)
(* last one, failures included, the last valid value survives them, and the *)
(* history is the newest part of the valid results, cut down to the limits  *)
(* on samples, age and bytes; all of it is of the active catalog (commit).  *)
StoreExact ==
  /\ StoreBounded /\ StoreOfCatalog
  /\ DOMAIN entries = {committed[i].key : i \in 1..Len(committed)}
  /\ \A k \in DOMAIN entries :
       LET e == entries[k]
           all == Observations(CommittedFor(k))
           valid == Observations(ValidFor(k))
       IN  /\ e.latest = all[Len(all)]
           /\ e.last_valid = IF valid = <<>> THEN None ELSE valid[Len(valid)]
           /\ e.history = Last_n(valid, Len(e.history))

(* Whoever hears of a commit finds it: after a metric update is published,  *)
(* a read under the same catalog returns that commit or a later one.        *)
UpdateReadable ==
  \A i \in 1..Len(log) :
    log[i].type = "metric" /\ log[i].generation = catalog.generation =>
      log[i].key \in DOMAIN entries /\ entries[log[i].key].latest.epoch >= log[i].epoch

Answered(t) == call[t].pc = "done" /\ call[t].items # <<>>

(* A query that asked for an epoch gets no older item, however often the    *)
(* store changed while it was waiting.                                      *)
AnswerAtEpoch ==
  \A t \in Threads : Answered(t) =>
    \A i \in ToSet(call[t].items) : i.epoch >= call[t].request.required_epoch

(* All items of an answer are as of one commit, which is as late as the     *)
(* query asked for: each is the last result of its key up to the epoch of   *)
(* the answer or, if marked stale, the last valid value before a failure.   *)
AnswerIsSnapshot ==
  /\ AnswerAtEpoch
  /\ \A t \in Threads : Answered(t) /\ call[t].generation = catalog.generation =>
       \A i \in ToSet(call[t].items) :
         LET past == SelectSeq(CommittedFor(i.key), LAMBDA c : c.o.epoch <= call[t].epoch)
             valid == SelectSeq(past, LAMBDA c : c.o.status = "valid")
         IN  IF past = <<>> THEN i.sample = 0 /\ i.status # "valid"
             ELSE /\ i.epoch = past[Len(past)].o.epoch
                  /\ i.status = "stale" =>
                       valid # <<>> /\ i.sample = valid[Len(valid)].o.epoch /\ i.sample < i.epoch
                  /\ i.status # "stale" =>
                       i.sample = i.epoch /\ i.status = past[Len(past)].o.status

(* A successful answer is as fresh as its policy asks for: read after the   *)
(* query began, or, where the cache may answer, young enough.               *)
AnswerFreshEnough ==
  \A t \in Threads : Answered(t) /\ call[t].status = "ok" =>
    LET r == call[t].request
        age == IF r.max_age = 0 THEN Freshness ELSE Min({r.max_age, Freshness})
    IN  \A i \in ToSet(call[t].items) :
          \/ r.policy = "cache_only"
          \/ i.epoch > call[t].begun.epoch
          \/ r.policy = "cache_or_fresh" /\ i.time + age >= call[t].begun.time

=============================================================================
