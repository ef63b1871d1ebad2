------------------------- MODULE ProcessorExecutor -------------------------
(***************************************************************************)
(* ProcessorExecutor (processor.cpp) with CounterDeltaRateProcessor         *)
(* (counter_processor.cpp): tasks to derive how much a counter has grown    *)
(* between two samples are queued, each once, and run one at a time.        *)
(*                                                                         *)
(* schedule is one critical section of mutex_.  runNext holds run_mutex_    *)
(* throughout and mutex_ in parts: it takes a task, asks the DataManager    *)
(* for its catalog, evaluates, asks again, commits and remembers the key.   *)
(* What the DataManager does is the parameter of these steps.               *)
(***************************************************************************)
EXTENDS Integers, Sequences, Functions, Sizes

CONSTANTS
  Modulus, MinimumPrevious, MaximumCurrent,    \* CounterWrapRule
  MinimumInterval, MaximumGap,                 \* CounterProcessorConfig
  MaxQueuedTasks, MaxQueueBytes, MaxRecentKeys \* ProcessorExecutorLimits

ASSUME ProcessorAssumption ==
  /\ Modulus \in Nat \ {0, 1}
  /\ MinimumPrevious \in 0..(Modulus - 1) /\ MaximumCurrent \in 0..(MinimumPrevious - 1)
  /\ MinimumInterval \in Nat \ {0} /\ MaximumGap \in Nat /\ MaximumGap >= MinimumInterval
  /\ MaxQueuedTasks \in Nat \ {0} /\ MaxQueueBytes \in Nat \ {0} /\ MaxRecentKeys \in Nat \ {0}

VARIABLES
  queue,          \* queue_
  queued_bytes,   \* queued_bytes_
  queued_keys,    \* queued_keys_
  recent,         \* recent_order_, whose members are recent_keys_
  runner          \* where runNext is

executorVars == <<queue, queued_bytes, queued_keys, recent, runner>>

Resting == [pc |-> "idle"]

ExecutorInit ==
  queue = <<>> /\ queued_bytes = 0 /\ queued_keys = {} /\ recent = <<>> /\ runner = Resting

-----------------------------------------------------------------------------
(* evaluate *)

(* Mutant: the gap between two samples is not limited.                      *)
IntervalFitsAny(interval) == interval >= MinimumInterval

IntervalFits(interval) == interval >= MinimumInterval /\ interval <= MaximumGap

Comparable(context, oldest, newest) ==
  /\ \A o \in {oldest, newest} :
       /\ o.entity = context.entity /\ o.generation = context.generation
       /\ o.status = "valid"
  /\ oldest.counter_epoch = newest.counter_epoch
  /\ newest.time > oldest.time /\ context.time >= newest.time
  /\ IntervalFits(newest.time - oldest.time)

Wraps(old, new) == old >= MinimumPrevious /\ old < Modulus /\ new <= MaximumCurrent

Unavailable == [status |-> "not_available", value |-> 0]

(* The samples are sorted by time; the delta is exact or there is none.     *)
Evaluate(context, items) ==
  LET oldest == CHOOSE o \in Range(items) : \A p \in Range(items) :
                  o.time < p.time \/ (o.time = p.time /\ o.epoch <= p.epoch)
      newest == CHOOSE o \in Range(items) : \A p \in Range(items) :
                  o.time > p.time \/ (o.time = p.time /\ o.epoch >= p.epoch)
  IN  IF Len(items) # 2 \/ ~Comparable(context, oldest, newest) THEN Unavailable
      ELSE IF newest.value >= oldest.value
           THEN [status |-> "valid", value |-> newest.value - oldest.value]
      ELSE IF Wraps(oldest.value, newest.value)
           THEN [status |-> "valid", value |-> (Modulus - oldest.value) + newest.value]
      ELSE Unavailable

-----------------------------------------------------------------------------
(* schedule *)

(* A task and its samples are of one unit each.                             *)
taskBytes(items) == 1 + Len(items)

DedupKey(context, items) ==
  [entity |-> context.entity, generation |-> context.generation,
   inputs |-> {o.epoch : o \in Range(items)}]

Consistent(context, items) ==
  /\ items # <<>>
  /\ \A o \in Range(items) :
       o.entity = context.entity /\ o.generation = context.generation /\ o.epoch # 0

(* Mutant: only the number of tasks is limited.                             *)
HasRoomAny(items) == Len(queue) < MaxQueuedTasks

HasRoom(items) ==
  Len(queue) < MaxQueuedTasks /\ taskBytes(items) <= MaxQueueBytes - queued_bytes

Schedule(context, items) ==
  LET key == DedupKey(context, items)
  IN  /\ Consistent(context, items)
      /\ taskBytes(items) <= MaxQueueBytes
      /\ key \notin queued_keys /\ key \notin Range(recent)
      /\ HasRoom(items)
      /\ queue' = Append(queue, [context |-> context, items |-> items, key |-> key,
                                 bytes |-> taskBytes(items)])
      /\ queued_bytes' = queued_bytes + taskBytes(items)
      /\ queued_keys' = queued_keys \cup {key}
      /\ UNCHANGED <<recent, runner>>

-----------------------------------------------------------------------------
(* runNext *)

RunTake ==
  /\ runner.pc = "idle" /\ queue # <<>>
  /\ queue' = Tail(queue)
  /\ queued_bytes' = queued_bytes - Head(queue).bytes
  /\ queued_keys' = queued_keys \ {Head(queue).key}
  /\ runner' = [pc |-> "check", task |-> Head(queue)]
  /\ UNCHANGED recent

(* The catalog is asked before the evaluation and after it.                 *)
RunEvaluate(generation) ==
  /\ runner.pc = "check"
  /\ runner' = IF generation # runner.task.context.generation
               THEN [runner EXCEPT !.pc = "remember"]
               ELSE [pc |-> "evaluated", task |-> runner.task,
                     output |-> Evaluate(runner.task.context, runner.task.items)]
  /\ UNCHANGED <<queue, queued_bytes, queued_keys, recent>>

RunCheckAgain(generation) ==
  /\ runner.pc = "evaluated"
  /\ runner' = [runner EXCEPT !.pc = IF generation # runner.task.context.generation
                                     THEN "remember" ELSE "commit"]
  /\ UNCHANGED <<queue, queued_bytes, queued_keys, recent>>

RunCommitted ==
  /\ runner.pc = "commit"
  /\ runner' = [runner EXCEPT !.pc = "remember"]
  /\ UNCHANGED <<queue, queued_bytes, queued_keys, recent>>

(* remember *)
Remembered(key) ==
  LET longer == Append(recent, key)
  IN  IF key \in Range(recent) THEN recent
      ELSE IF Len(longer) > MaxRecentKeys THEN Tail(longer) ELSE longer

RunRemember ==
  /\ runner.pc = "remember"
  /\ recent' = Remembered(runner.task.key)
  /\ runner' = Resting
  /\ UNCHANGED <<queue, queued_bytes, queued_keys>>

-----------------------------------------------------------------------------
(* The queue keeps its limits and its books: every key of queued_keys_ is   *)
(* that of one task, queued_bytes_ is what the tasks take, and the keys     *)
(* that are remembered are different and not too many.  Keys, bytes and     *)
(* tasks are changed by callers and by runNext in separate critical         *)
(* sections (schedule, runNext, remember).                                  *)
QueueExact ==
  LET keys == [i \in DOMAIN queue |-> queue[i].key]
  IN  /\ Range(keys) = queued_keys /\ IsInjective(keys)
      /\ queued_bytes = Bytes(queue)
      /\ queued_bytes <= MaxQueueBytes
      /\ Len(queue) <= MaxQueuedTasks
      /\ IsInjective(recent) /\ Len(recent) <= MaxRecentKeys

=============================================================================
