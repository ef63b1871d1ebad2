----------------------------- MODULE Derivation -----------------------------
(***************************************************************************)
(* From discovery to derived metrics: SemanticCatalog, the reads of the     *)
(* CollectionCoordinator (collectJob, normalizeAndCommit), what DataManager *)
(* keeps of one counter and of what is derived from it, ProcessorGraph and  *)
(* ProcessorExecutor.  The catalog changes while a read or a task is under  *)
(* way.                                                                    *)
(*                                                                         *)
(* The device is external: its counter grows by at most MaxRate in a unit   *)
(* of time and wraps at Modulus, and a restart sets it to 0.                *)
(***************************************************************************)
EXTENDS SemanticCatalog, ProcessorExecutor, ProcessorGraph

CONSTANTS
  MaxRate,       \* of the counter
  MaxDelay,      \* bound: between a read of the device and its time stamp
  MaxEpoch,      \* bound: commits
  MaxHistory,    \* max_history_samples_per_key
  Loads          \* bounds of a behaviour: what discovery finds and how often, the time,
                 \* restarts of the device, answers of the provider and sets of processors

(* What a provider makes of the item that it is asked for.                  *)
Answers == {"good", "item_failed", "omitted", "call_failed", "oversized", "malformed", "mistyped",
            "duplicated"}

ASSUME DerivationAssumption ==
  /\ MaxRate \in Nat /\ MaxDelay \in Nat
  /\ MaxRate * (MaximumGap + MaxDelay) < Modulus
  /\ Loads \subseteq [descriptors : SUBSET Descriptors, generations : Nat, time : Nat,
                      restarts : Nat, answers : SUBSET Answers, tasks : Nat,
                      processors : SUBSET ProcessorSets]

VARIABLES
  load,        \* the bounds of this behaviour
  now,
  device,      \* its counter; history: its growth and restarts
  data,        \* catalog_ of the DataManager
  epoch,       \* commit_epoch_
  counter,     \* entries of the counter, and of what is derived from it
  derived,
  plan,        \* what collectJob reads
  collector,   \* where collectJob is
  scheduled    \* the number of tasks that were scheduled

dataVars == <<data, epoch, counter, derived>>
collectVars == <<plan, collector>>
taskVars == <<executorVars, scheduled>>
allVars == <<load, now, device, dataVars, collectVars, catalogVars, taskVars,
             graphVars>>

None == [generation |-> 0]
NoEntry == [time |-> 0, history |-> <<>>]

Init ==
  /\ load \in Loads /\ now = 0
  /\ device = [value |-> Modulus - 1, grown |-> 0, restarts |-> 0]
  /\ data = [generation |-> 0, entities |-> {}]
  /\ epoch = 0 /\ counter = NoEntry /\ derived = NoEntry
  /\ plan = None /\ collector = Resting /\ scheduled = 0
  /\ CatalogInit /\ ExecutorInit /\ GraphInit

-----------------------------------------------------------------------------
(* The device and time *)

Tick(growth) ==
  /\ now < load.time /\ growth <= MaxRate
  /\ collector.pc = "normalize" => now - collector.read < MaxDelay
  /\ now' = now + 1
  /\ device' = [device EXCEPT !.value = (@ + growth) % Modulus, !.grown = @ + growth]
  /\ UNCHANGED <<load, dataVars, collectVars, catalogVars, taskVars, graphVars>>

Restart ==
  /\ device.restarts < load.restarts
  /\ device' = [device EXCEPT !.value = 0, !.restarts = @ + 1]
  /\ UNCHANGED <<load, now, dataVars, collectVars, catalogVars, taskVars,
                 graphVars>>

-----------------------------------------------------------------------------
(* Discovery, and DataManager::activateCatalog *)

Discover(d) ==
  /\ view.generation < load.generations
  /\ Commit(d)
  /\ UNCHANGED <<load, now, device, dataVars, collectVars, taskVars, graphVars>>

ActivateCatalog ==
  /\ view.generation > data.generation
  /\ data' = [generation |-> view.generation, entities |-> {e.ref : e \in view.entities}]
  /\ counter' = NoEntry /\ derived' = NoEntry
  /\ UNCHANGED <<load, now, device, epoch, collectVars, catalogVars, taskVars,
                 graphVars>>

(* DataManager::commit of one observation, and what it leaves in its entry. *)
Accepts(entry, o) ==
  /\ o.generation = data.generation /\ o.entity \in data.entities
  /\ o.time >= entry.time
  /\ epoch < MaxEpoch

Stored(entry, o) ==
  LET longer == Append(entry.history, [o EXCEPT !.epoch = epoch + 1])
  IN  [time |-> o.time,
       history |-> IF o.status # "valid" THEN entry.history
                   ELSE IF Len(longer) > MaxHistory THEN Tail(longer) ELSE longer]

-----------------------------------------------------------------------------
(* applyWatchSnapshot, for the catalog of the DataManager, and collectJob.  *)

ApplyWatchSnapshot ==
  /\ \E ref \in data.entities :
       /\ plan # [generation |-> data.generation, entity |-> ref]
       /\ plan' = [generation |-> data.generation, entity |-> ref]
  /\ UNCHANGED <<load, now, device, dataVars, collector, catalogVars, taskVars,
                 graphVars>>

BatchRead(answer) ==
  /\ collector.pc = "idle" /\ plan # None
  /\ collector' = [pc |-> "normalize", plan |-> plan, answer |-> answer, read |-> now,
                   device |-> device]
  /\ UNCHANGED <<load, now, device, dataVars, plan, catalogVars, taskVars,
                 graphVars>>

(* What normalizeAndCommit makes of an answer: a good item is stored, one   *)
(* that failed, was omitted or belongs to a failed call as an error, and    *)
(* nothing of an answer that is too large, or if the item is malformed or   *)
(* came twice.                                                              *)
Normalized(answer) ==
  CASE answer = "good" -> "valid"
    [] answer \in {"item_failed", "omitted", "call_failed"} -> "error"
    [] answer \in {"oversized", "malformed", "mistyped", "duplicated"} -> "dropped"

Normalize ==
  /\ collector.pc = "normalize"
  /\ LET status == Normalized(collector.answer)
     IN  collector' = IF data.generation # collector.plan.generation \/ status = "dropped"
                      THEN Resting
                      ELSE [pc |-> "commit",
                            observation |->
                              [entity |-> collector.plan.entity,
                               generation |-> collector.plan.generation,
                               status |-> status, value |-> collector.device.value,
                               time |-> now, counter_epoch |-> 0, epoch |-> 0,
                               device |-> collector.device]]
  /\ UNCHANGED <<load, now, device, dataVars, plan, catalogVars, taskVars,
                 graphVars>>

CollectCommit ==
  /\ collector.pc = "commit"
  /\ collector' = Resting
  /\ LET o == collector.observation
     IN  \/ /\ Accepts(counter, o)
            /\ counter' = Stored(counter, o) /\ epoch' = epoch + 1
         \/ /\ ~Accepts(counter, o)
            /\ UNCHANGED <<counter, epoch>>
  /\ UNCHANGED <<load, now, device, data, derived, plan, catalogVars, taskVars,
                 graphVars>>

-----------------------------------------------------------------------------
(* A caller takes the last samples, at a time since then, and schedules     *)
(* their evaluation, perhaps once more.                                     *)
ScheduleLast(n, time) ==
  /\ n <= Len(counter.history) /\ scheduled < load.tasks
  /\ LET items == SubSeq(counter.history, Len(counter.history) - n + 1, Len(counter.history))
     IN  /\ items[n].time <= time
         /\ Schedule([entity |-> items[n].entity, generation |-> data.generation,
                      time |-> time], items)
  /\ scheduled' = scheduled + 1
  /\ UNCHANGED <<load, now, device, dataVars, collectVars, catalogVars, graphVars>>

RunNext ==
  /\ \/ RunTake \/ RunEvaluate(data.generation) \/ RunCheckAgain(data.generation) \/ RunRemember
  /\ UNCHANGED <<load, now, device, dataVars, collectVars, catalogVars, graphVars, scheduled>>

RunCommit ==
  /\ RunCommitted
  /\ LET o == [entity |-> runner.task.context.entity,
               generation |-> runner.task.context.generation,
               status |-> runner.output.status, value |-> runner.output.value,
               time |-> runner.task.context.time, epoch |-> 0, inputs |-> runner.task.items]
     IN  \/ /\ Accepts(derived, o)
            /\ derived' = Stored(derived, o) /\ epoch' = epoch + 1
         \/ /\ ~Accepts(derived, o)
            /\ UNCHANGED <<derived, epoch>>
  /\ UNCHANGED <<load, now, device, data, counter, collectVars, catalogVars, graphVars, scheduled>>

-----------------------------------------------------------------------------
Rebuild(t) ==
  /\ \/ \E set \in load.processors, generation \in 1..view.generation :
          RebuildSort(t, set, generation)
     \/ RebuildStore(t) \/ RebuildRefused(t)
  /\ UNCHANGED <<load, now, device, dataVars, collectVars, catalogVars, taskVars>>

Next ==
  \/ \E growth \in 0..MaxRate : Tick(growth)
  \/ Restart
  \/ \E d \in load.descriptors : Discover(d)
  \/ ActivateCatalog \/ ApplyWatchSnapshot
  \/ \E answer \in load.answers : BatchRead(answer)
  \/ Normalize \/ CollectCommit
  \/ \E n \in 1..2, time \in 0..now : ScheduleLast(n, time)
  \/ RunNext \/ RunCommit
  \/ \E t \in Rebuilders : Rebuild(t)

Spec == Init /\ [][Next]_allVars

-----------------------------------------------------------------------------
(* What the DataManager holds of a counter is of its catalog, and a growth  *)
(* that is derived is the growth of the device between the two reads, if    *)
(* it has not restarted in between: although the catalog changes while a    *)
(* read or a task is under way, tasks run late and twice, the counter wraps *)
(* and samples are stamped after they are read (normalizeAndCommit,         *)
(* evaluate, runNext).                                                      *)
DerivedExact ==
  /\ \A o \in Range(counter.history) \cup Range(derived.history) :
       o.generation = data.generation /\ o.entity \in data.entities
  /\ \A o \in Range(derived.history) :
       LET old == o.inputs[1]
           new == o.inputs[2]
       IN  /\ Len(o.inputs) = 2
           /\ \A i \in {old, new} : i.generation = o.generation /\ i.entity = o.entity
           /\ old.device.restarts = new.device.restarts =>
                o.value = new.device.grown - old.device.grown

=============================================================================
