------------------------- MODULE CollectionRuntime -------------------------
(***************************************************************************)
(* CollectionCoordinator::Runtime (collection_coordinator.cpp): the bounded *)
(* priority queue of provider reads, the scheduler thread that feeds it     *)
(* from the collection plan, the callers of freshRead that feed it and wait *)
(* for it, the single worker thread that drains it, and the shutdown that   *)
(* cancels what is left.                                                   *)
(*                                                                         *)
(* Runtime::mutex guards the queue, busy_keys, fresh_tasks, next_due and    *)
(* the flags.  Every critical section is one step, except runDue's: it      *)
(* visits the jobs of its plan one step at a time and holds the mutex       *)
(* meanwhile (MutexFree is false).  Everything the code does without the    *)
(* mutex (loading the plan, the provider read, recording samples, setting a *)
(* completion, waking a waiter) is a step of its own.                       *)
(***************************************************************************)
EXTENDS Integers, Sequences, FiniteSets

CONSTANTS
  Keys,               \* DataKeys a read can name
  Clients,            \* threads that call freshRead
  PlanJobs,           \* the job lists applyWatchSnapshot can compile
  RouteChoices,       \* the key sets a catalog can make routable
  MaxProviderQueue,   \* CollectionLimits::max_provider_queue
  MaxFreshWaiters,    \* CollectionLimits::max_fresh_waiters
  MaxRequestId,       \* the last value of the request id counter, never issued
  MaxPlanVersion,     \* bound: plans applied
  MaxGeneration,      \* bound: catalog generations activated
  MaxTime             \* bound: the clock

Priorities == 0..3    \* WatchPriority: kLow, kNormal, kHigh, kHeartbeat
KNormal == 1

Job == [keys : SUBSET Keys, priority : Priorities, period : Nat \ {0},
        freshness : Nat \ {0}]

ASSUME PlanJobsAssumption ==
  /\ PlanJobs \subseteq Seq(Job)
  /\ \A jobs \in PlanJobs : \A j \in 1..Len(jobs) : jobs[j].keys # {}

ASSUME ClientsAssumption == IsFiniteSet(Clients)

ASSUME RouteAssumption == RouteChoices \subseteq SUBSET Keys

ASSUME LimitAssumption ==
  /\ MaxProviderQueue \in Nat \ {0}
  /\ MaxFreshWaiters \in Nat \ {0}
  /\ MaxRequestId \in Nat \ {0}
  /\ MaxPlanVersion \in Nat
  /\ MaxGeneration \in Nat
  /\ MaxTime \in Nat

(* What normalizeAndCommit reports for the provider's answer is RESULT; a    *)
(* task that expired in the queue is reported as TIMEOUT.                    *)
RunStatuses == {"RESULT", "TIMEOUT"}
DoneStatuses == RunStatuses \cup {"RESOURCE_EXHAUSTED", "NOT_INITIALIZED"}

(* Task.  A scheduled task carries its plan version, its job and the        *)
(* scheduled time it stands for; a fresh one its catalog generation, which  *)
(* with the keys is its FreshSignature, and a Completion.                   *)
Task == [id : Nat, keys : SUBSET Keys, priority : Priorities, deadline : Nat,
         fresh : BOOLEAN, generation : Nat, version : Nat, job : Nat,
         scheduled : Nat]

NoTask == [id |-> 0, keys |-> {}, priority |-> 0, deadline |-> 0,
           fresh |-> FALSE, generation |-> 0, version |-> 0, job |-> 0,
           scheduled |-> 0]

Plan == [version : Nat, created_at : Nat, jobs : PlanJobs \cup {<<>>}]

NoPlan == [version |-> 0, created_at |-> 0, jobs |-> <<>>]

Slot == [version : Nat, job : Nat, scheduled : Nat]

VARIABLES
  now,                    \* clock_->monotonicNow()
  plan,                   \* plan_
  installing,             \* plan_writer_mutex_ held between 768 and 769
  scheduled_plan_version,
  next_due,
  route,                  \* route_generation and the routable keys
  queue,
  busy_keys,
  fresh_tasks,            \* the tasks registered, one per signature
  fresh_waiters,
  next_request_id,
  completion,             \* Completion of the fresh task with that id
  worker_pc,
  worker_task,
  worker_status,
  sched,                  \* the scheduler thread: pc and runDue's locals
  client,                 \* the freshRead callers
  scheduler_stop,
  scheduler_running,
  shutdown,
  control_pc,             \* the thread in stopScheduler or shutdownAll
  cancelled,              \* shutdownAll's local list
  noted,                  \* history: slots given to noteLogicalResults
  dropped                 \* history: slots whose task left the queue unread

planVars == <<plan, installing>>
dueVars == <<scheduled_plan_version, next_due>>
queueVars == <<queue, busy_keys, fresh_tasks>>
workerVars == <<worker_pc, worker_task, worker_status>>
controlVars == <<scheduler_stop, scheduler_running, shutdown, control_pc, cancelled>>
history == <<noted, dropped>>
vars == <<now, planVars, dueVars, route, queueVars, fresh_waiters,
          next_request_id, completion, workerVars, sched, client,
          controlVars, history>>

-----------------------------------------------------------------------------
(* Helpers *)

Elements(s) == {s[i] : i \in DOMAIN s}

InFlight == IF worker_pc \in {"read", "note", "release"} THEN {worker_task} ELSE {}

(* The tasks that own their keys: queued, or taken by the worker and not    *)
(* yet released.                                                           *)
Live == Elements(queue) \cup InFlight

MutexFree == sched.pc # "jobs"

SlotOf(t) == [version |-> t.version, job |-> t.job, scheduled |-> t.scheduled]
SlotsOf(tasks) == {SlotOf(t) : t \in {u \in tasks : ~u.fresh}}

DueTimes(p) == [j \in 1..Len(p.jobs) |-> p.created_at + p.jobs[j].period]

(* allocateRequestId: 0 once the counter has reached its last value.        *)
AllocatedId == IF next_request_id = MaxRequestId THEN 0 ELSE next_request_id
NextRequestId == IF next_request_id = MaxRequestId THEN MaxRequestId
                                                   ELSE next_request_id + 1

(* The deque insert: before the first queued task of lower priority.        *)
InsertPosition(q, t) ==
  CHOOSE i \in 1..(Len(q) + 1) :
    /\ \A j \in 1..(i - 1) : q[j].priority >= t.priority
    /\ i <= Len(q) => q[i].priority < t.priority

InsertTask(q, t) ==
  LET p == InsertPosition(q, t)
  IN  [i \in 1..(Len(q) + 1) |->
         IF i < p THEN q[i] ELSE IF i = p THEN t ELSE q[i - 1]]

WithoutLast(q) == SubSeq(q, 1, Len(q) - 1)

(* A scheduler thread outside runDue keeps none of its locals.              *)
SchedulerAt(pc) ==
  [pc |-> pc, plan |-> NoPlan, now |-> 0, job |-> 0, results |-> <<>>]

-----------------------------------------------------------------------------
Init ==
  /\ now = 0
  /\ plan = NoPlan
  /\ installing = FALSE
  /\ scheduled_plan_version = 0
  /\ next_due = <<>>
  /\ route = [generation |-> 0, keys |-> {}]
  /\ queue = <<>>
  /\ busy_keys = {}
  /\ fresh_tasks = {}
  /\ fresh_waiters = 0
  /\ next_request_id = 1
  /\ completion = [id \in 1..MaxRequestId |-> "none"]
  /\ worker_pc = "wait"
  /\ worker_task = NoTask
  /\ worker_status = "RESULT"
  /\ sched = SchedulerAt("off")
  /\ client = [c \in Clients |-> [pc |-> "idle", task |-> 0, deadline |-> 0]]
  /\ scheduler_stop = FALSE
  /\ scheduler_running = FALSE
  /\ shutdown = FALSE
  /\ control_pc = "idle"
  /\ cancelled = {}
  /\ noted = {}
  /\ dropped = {}

Tick ==
  /\ now < MaxTime
  /\ now' = now + 1
  /\ UNCHANGED <<planVars, dueVars, route, queueVars, fresh_waiters,
                 next_request_id, completion, workerVars, sched, client,
                 controlVars, history>>

-----------------------------------------------------------------------------
(* The queue *)

(* setCompletion on a set of tasks; a scheduled task has no Completion.     *)
Complete(tasks, status) ==
  [id \in 1..MaxRequestId |->
     IF \E t \in tasks : t.fresh /\ t.id = id THEN status ELSE completion[id]]

(* releaseTaskLocked: the keys of the task stop being busy and its          *)
(* signature is unregistered if it is the task registered.                  *)
ReleaseTaskLocked(t) ==
  /\ busy_keys' = busy_keys \ t.keys
  /\ fresh_tasks' = fresh_tasks \ {t}

EnqueueBusy(t) == t.keys \cap busy_keys # {}

EnqueueFull(t) ==
  /\ Len(queue) = MaxProviderQueue
  /\ t.priority <= queue[Len(queue)].priority

EnqueueAccepts(t) == ~shutdown /\ ~EnqueueBusy(t) /\ ~EnqueueFull(t)

(* The task enqueueLocked evicts to make room, if the queue is full.        *)
Evicted == IF Len(queue) = MaxProviderQueue THEN {queue[Len(queue)]} ELSE {}

(* Mutant: the evicted task is not released.                                *)
EvictedKeysStayBusy == {}

EvictedKeys == UNION {v.keys : v \in Evicted}

(* enqueueLocked on its kAccepted path, eviction included.  A fresh task    *)
(* comes with a new Completion.                                            *)
EnqueueLocked(t) ==
  /\ queue' = InsertTask(IF Evicted = {} THEN queue ELSE WithoutLast(queue), t)
  /\ busy_keys' = (busy_keys \ EvictedKeys) \cup t.keys
  /\ fresh_tasks' = (fresh_tasks \ Evicted) \cup (IF t.fresh THEN {t} ELSE {})
  /\ completion' = [id \in 1..MaxRequestId |->
                      IF t.fresh /\ id = t.id THEN "pending"
                      ELSE Complete(Evicted, "RESOURCE_EXHAUSTED")[id]]
  /\ dropped' = dropped \cup SlotsOf(Evicted)

-----------------------------------------------------------------------------
(* Plans and routes *)

(* applyWatchSnapshot up to the store of plan_; plan_writer_mutex_ stays    *)
(* held until InstallPlan.                                                 *)
StorePlan(jobs) ==
  /\ ~installing
  /\ plan.version < MaxPlanVersion
  /\ plan' = [version |-> plan.version + 1, created_at |-> now, jobs |-> jobs]
  /\ installing' = TRUE
  /\ UNCHANGED <<now, dueVars, route, queueVars, fresh_waiters,
                 next_request_id, completion, workerVars, sched, client,
                 controlVars, history>>

InstallPlan ==
  /\ installing
  /\ MutexFree
  /\ scheduled_plan_version' = plan.version
  /\ next_due' = DueTimes(plan)
  /\ installing' = FALSE
  /\ UNCHANGED <<now, plan, route, queueVars, fresh_waiters,
                 next_request_id, completion, workerVars, sched, client,
                 controlVars, history>>

(* activateCatalog: a catalog without exactly one supported device leaves   *)
(* no key routable.                                                        *)
ActivateCatalog(keys) ==
  /\ MutexFree
  /\ route.generation < MaxGeneration
  /\ route' = [generation |-> route.generation + 1, keys |-> keys]
  /\ UNCHANGED <<now, planVars, dueVars, queueVars, fresh_waiters,
                 next_request_id, completion, workerVars, sched, client,
                 controlVars, history>>

-----------------------------------------------------------------------------
(* The scheduler thread: schedulerLoop and runDue *)

(* The top of the loop: the flags are checked, then the clock and plan()    *)
(* are read, all before runDue takes the mutex.                             *)
SchedulerCheck ==
  /\ sched.pc = "check"
  /\ sched' = IF scheduler_stop \/ shutdown THEN SchedulerAt("exited")
              ELSE [SchedulerAt("lock") EXCEPT !.plan = plan, !.now = now]
  /\ UNCHANGED <<now, planVars, dueVars, route, queueVars, fresh_waiters,
                 next_request_id, completion, workerVars, client,
                 controlVars, history>>

RunDueStopped ==
  /\ sched.pc = "lock"
  /\ shutdown
  /\ sched' = SchedulerAt("sleep")
  /\ UNCHANGED <<now, planVars, dueVars, route, queueVars, fresh_waiters,
                 next_request_id, completion, workerVars, client,
                 controlVars, history>>

(* runDue takes the mutex; a plan other than the scheduled one restarts the *)
(* due times.                                                              *)
RunDueBegin ==
  /\ sched.pc = "lock"
  /\ ~shutdown
  /\ scheduled_plan_version' = sched.plan.version
  /\ next_due' = IF scheduled_plan_version # sched.plan.version
                    THEN DueTimes(sched.plan) ELSE next_due
  /\ sched' = [sched EXCEPT !.pc = "jobs", !.job = 1]
  /\ UNCHANGED <<now, planVars, route, queueVars, fresh_waiters,
                 next_request_id, completion, workerVars, client,
                 controlVars, history>>

CurrentJob == sched.plan.jobs[sched.job]
FirstDue == next_due[sched.job]
JobIsDue == sched.job \in DOMAIN next_due /\ sched.now >= FirstDue
Steps == (sched.now - FirstDue) \div CurrentJob.period + 1

(* The last of the periods that have come due is the one that is read.      *)
ScheduledTask ==
  [id |-> AllocatedId, keys |-> CurrentJob.keys,
   priority |-> CurrentJob.priority,
   deadline |-> FirstDue + CurrentJob.period * (Steps - 1) + CurrentJob.freshness,
   fresh |-> FALSE, generation |-> 0, version |-> sched.plan.version,
   job |-> sched.job,
   scheduled |-> FirstDue + CurrentJob.period * (Steps - 1)]

(* Mutant: one period too few.                                              *)
LogicalResultShort(n) ==
  {[version |-> sched.plan.version, job |-> sched.job,
    scheduled |-> FirstDue + k * CurrentJob.period] : k \in 0..(n - 2)}

(* The first n periods from FirstDue on, as one LogicalResult.              *)
LogicalResult(n) ==
  {[version |-> sched.plan.version, job |-> sched.job,
    scheduled |-> FirstDue + k * CurrentJob.period] : k \in 0..(n - 1)}

AdvanceDue ==
  /\ next_due' = [next_due EXCEPT ![sched.job] = @ + CurrentJob.period * Steps]
  /\ next_request_id' = NextRequestId

InJobs == sched.pc = "jobs" /\ sched.job \in DOMAIN sched.plan.jobs

JobNotDue ==
  /\ InJobs
  /\ ~JobIsDue
  /\ sched' = [sched EXCEPT !.job = @ + 1]
  /\ UNCHANGED <<now, planVars, dueVars, route, queueVars, fresh_waiters,
                 next_request_id, completion, workerVars, client,
                 controlVars, history>>

JobEnqueued ==
  /\ InJobs
  /\ JobIsDue
  /\ AllocatedId # 0
  /\ EnqueueAccepts(ScheduledTask)
  /\ EnqueueLocked(ScheduledTask)
  /\ AdvanceDue
  /\ sched' = [sched EXCEPT !.job = @ + 1,
                  !.results = IF Steps > 1 THEN Append(@, LogicalResult(Steps - 1)) ELSE @]
  /\ UNCHANGED <<now, planVars, scheduled_plan_version, route, fresh_waiters,
                 workerVars, client, controlVars, noted>>

JobRejected ==
  /\ InJobs
  /\ JobIsDue
  /\ AllocatedId = 0 \/ ~EnqueueAccepts(ScheduledTask)
  /\ AdvanceDue
  /\ sched' = [sched EXCEPT !.job = @ + 1,
                  !.results = Append(@, LogicalResult(Steps))]
  /\ UNCHANGED <<now, planVars, scheduled_plan_version, route, queueVars,
                 fresh_waiters, completion, workerVars, client, controlVars,
                 history>>

RunDueUnlock ==
  /\ sched.pc = "jobs"
  /\ sched.job \notin DOMAIN sched.plan.jobs
  /\ sched' = IF sched.results = <<>> THEN SchedulerAt("sleep")
              ELSE [SchedulerAt("results") EXCEPT !.results = sched.results]
  /\ UNCHANGED <<now, planVars, dueVars, route, queueVars, fresh_waiters,
                 next_request_id, completion, workerVars, client,
                 controlVars, history>>

(* noteLogicalResults for what could not be queued, after the unlock.       *)
NoteResult ==
  /\ sched.pc = "results"
  /\ sched.results # <<>>
  /\ noted' = noted \cup Head(sched.results)
  /\ sched' = IF Len(sched.results) = 1 THEN SchedulerAt("sleep")
              ELSE [sched EXCEPT !.results = Tail(@)]
  /\ UNCHANGED <<now, planVars, dueVars, route, queueVars, fresh_waiters,
                 next_request_id, completion, workerVars, client,
                 controlVars, dropped>>

(* wait_for ends on its timeout or on the stop flags.                       *)
SchedulerWake ==
  /\ sched.pc = "sleep"
  /\ sched' = SchedulerAt(IF scheduler_stop \/ shutdown THEN "exited" ELSE "check")
  /\ UNCHANGED <<now, planVars, dueVars, route, queueVars, fresh_waiters,
                 next_request_id, completion, workerVars, client,
                 controlVars, history>>

-----------------------------------------------------------------------------
(* freshRead.  A call refused before it allocates a request id changes      *)
(* nothing: the guards below are the conditions under which it goes on.     *)
(* The deadline was checked against the clock before the mutex was taken,   *)
(* so it may have passed by now.                                           *)

FreshReadAdmitted(c, keys) ==
  /\ client[c].pc = "idle"
  /\ MutexFree
  /\ ~shutdown
  /\ keys # {}
  /\ keys \subseteq route.keys
  /\ fresh_waiters < MaxFreshWaiters

Registered(keys) ==
  {t \in fresh_tasks : t.generation = route.generation /\ t.keys = keys}

FreshTask(keys, deadline) ==
  [id |-> AllocatedId, keys |-> keys, priority |-> KNormal,
   deadline |-> deadline, fresh |-> TRUE, generation |-> route.generation,
   version |-> 0, job |-> 0, scheduled |-> 0]

Wait(c, id, deadline) ==
  /\ fresh_waiters' = fresh_waiters + 1
  /\ client' = [client EXCEPT ![c] = [pc |-> "waiting", task |-> id, deadline |-> deadline]]

(* Mutant: the deadline of the task joined is not looked at.                *)
FreshReadJoinAny(c, keys, deadline) ==
  /\ FreshReadAdmitted(c, keys)
  /\ \E t \in Registered(keys) : Wait(c, t.id, deadline)
  /\ UNCHANGED <<now, planVars, dueVars, route, queueVars, next_request_id,
                 completion, workerVars, sched, controlVars, history>>

(* The same keys are already being read, and for long enough.               *)
FreshReadJoin(c, keys, deadline) ==
  /\ FreshReadAdmitted(c, keys)
  /\ \E t \in Registered(keys) :
       /\ t.deadline >= deadline
       /\ Wait(c, t.id, deadline)
  /\ UNCHANGED <<now, planVars, dueVars, route, queueVars, next_request_id,
                 completion, workerVars, sched, controlVars, history>>

FreshReadEnqueue(c, keys, deadline) ==
  /\ FreshReadAdmitted(c, keys)
  /\ Registered(keys) = {}
  /\ AllocatedId # 0
  /\ EnqueueAccepts(FreshTask(keys, deadline))
  /\ EnqueueLocked(FreshTask(keys, deadline))
  /\ next_request_id' = NextRequestId
  /\ Wait(c, AllocatedId, deadline)
  /\ UNCHANGED <<now, planVars, dueVars, route, workerVars, sched,
                 controlVars, noted>>

(* Busy or full: the request id is spent all the same.                      *)
FreshReadRefused(c, keys, deadline) ==
  /\ FreshReadAdmitted(c, keys)
  /\ Registered(keys) = {}
  /\ AllocatedId # 0
  /\ ~EnqueueAccepts(FreshTask(keys, deadline))
  /\ next_request_id' = NextRequestId
  /\ UNCHANGED <<now, planVars, dueVars, route, queueVars, fresh_waiters,
                 completion, workerVars, sched, client, controlVars, history>>

(* wait_until returns: the completion is done, or the deadline has come.    *)
WaiterWakes(c) ==
  /\ client[c].pc = "waiting"
  /\ completion[client[c].task] \in DoneStatuses \/ now >= client[c].deadline
  /\ client' = [client EXCEPT ![c].pc = "leaving"]
  /\ UNCHANGED <<now, planVars, dueVars, route, queueVars, fresh_waiters,
                 next_request_id, completion, workerVars, sched,
                 controlVars, history>>

WaiterLeaves(c) ==
  /\ client[c].pc = "leaving"
  /\ MutexFree
  /\ fresh_waiters' = fresh_waiters - 1
  /\ client' = [client EXCEPT ![c] = [pc |-> "idle", task |-> 0, deadline |-> 0]]
  /\ UNCHANGED <<now, planVars, dueVars, route, queueVars, next_request_id,
                 completion, workerVars, sched, controlVars, history>>

-----------------------------------------------------------------------------
(* The worker thread: workerLoop *)

WorkerPop ==
  /\ worker_pc = "wait"
  /\ MutexFree
  /\ queue # <<>>
  /\ worker_task' = Head(queue)
  /\ queue' = Tail(queue)
  /\ worker_pc' = "read"
  /\ UNCHANGED <<now, planVars, dueVars, route, busy_keys, fresh_tasks,
                 fresh_waiters, next_request_id, completion, worker_status,
                 sched, client, controlVars, history>>

WorkerExit ==
  /\ worker_pc = "wait"
  /\ MutexFree
  /\ shutdown
  /\ queue = <<>>
  /\ worker_pc' = "exited"
  /\ UNCHANGED <<now, planVars, dueVars, route, queueVars, fresh_waiters,
                 next_request_id, completion, worker_task, worker_status,
                 sched, client, controlVars, history>>

(* batchRead, unless the task has expired, and normalizeAndCommit.          *)
WorkerRead ==
  /\ worker_pc = "read"
  /\ worker_status' = IF now > worker_task.deadline THEN "TIMEOUT" ELSE "RESULT"
  /\ worker_pc' = IF worker_task.fresh THEN "release" ELSE "note"
  /\ UNCHANGED <<now, planVars, dueVars, route, queueVars, fresh_waiters,
                 next_request_id, completion, worker_task, sched, client,
                 controlVars, history>>

WorkerNote ==
  /\ worker_pc = "note"
  /\ noted' = noted \cup {SlotOf(worker_task)}
  /\ worker_pc' = "release"
  /\ UNCHANGED <<now, planVars, dueVars, route, queueVars, fresh_waiters,
                 next_request_id, completion, worker_task, worker_status,
                 sched, client, controlVars, dropped>>

(* A scheduled task has no Completion: nothing is left to do for it.        *)
WorkerRelease ==
  /\ worker_pc = "release"
  /\ MutexFree
  /\ ReleaseTaskLocked(worker_task)
  /\ IF worker_task.fresh
       THEN worker_pc' = "complete" /\ UNCHANGED <<worker_task, worker_status>>
       ELSE worker_pc' = "wait" /\ worker_task' = NoTask /\ worker_status' = "RESULT"
  /\ UNCHANGED <<now, planVars, dueVars, route, queue, fresh_waiters,
                 next_request_id, completion, sched, client, controlVars, history>>

(* Mutant: the worker forgets the completion.                               *)
WorkerCompletesNothing ==
  /\ worker_pc = "complete"
  /\ worker_task' = NoTask
  /\ worker_status' = "RESULT"
  /\ worker_pc' = "wait"
  /\ UNCHANGED <<now, planVars, dueVars, route, queueVars, fresh_waiters,
                 next_request_id, completion, sched, client, controlVars, history>>

WorkerComplete ==
  /\ worker_pc = "complete"
  /\ completion' = Complete({worker_task}, worker_status)
  /\ worker_task' = NoTask
  /\ worker_status' = "RESULT"
  /\ worker_pc' = "wait"
  /\ UNCHANGED <<now, planVars, dueVars, route, queueVars, fresh_waiters,
                 next_request_id, sched, client, controlVars, history>>

-----------------------------------------------------------------------------
(* startScheduler, stopScheduler and shutdownAll.  One thread stops and     *)
(* shuts down; any thread may start.                                       *)

StartScheduler ==
  /\ MutexFree
  /\ ~shutdown
  /\ ~scheduler_running
  /\ scheduler_stop' = FALSE
  /\ scheduler_running' = TRUE
  /\ sched' = SchedulerAt("check")
  /\ UNCHANGED <<now, planVars, dueVars, route, queueVars, fresh_waiters,
                 next_request_id, completion, workerVars, client, shutdown,
                 control_pc, cancelled, history>>

(* Mutant: the scheduler is joined without being told to stop.              *)
RequestStopUnflagged(joining, otherwise) ==
  /\ control_pc = "idle"
  /\ MutexFree
  /\ control_pc' = IF scheduler_running THEN joining ELSE otherwise
  /\ UNCHANGED <<now, planVars, dueVars, route, queueVars, fresh_waiters,
                 next_request_id, completion, workerVars, sched, client,
                 scheduler_stop, scheduler_running, shutdown, cancelled, history>>

(* The first critical section of stopScheduler, called on its own or by     *)
(* shutdownAll; it returns at once if no scheduler runs.                    *)
RequestStop(joining, otherwise) ==
  /\ control_pc = "idle"
  /\ MutexFree
  /\ scheduler_stop' = (scheduler_stop \/ scheduler_running)
  /\ control_pc' = IF scheduler_running THEN joining ELSE otherwise
  /\ UNCHANGED <<now, planVars, dueVars, route, queueVars, fresh_waiters,
                 next_request_id, completion, workerVars, sched, client,
                 scheduler_running, shutdown, cancelled, history>>

StopScheduler == scheduler_running /\ RequestStop("joining", "idle")

ShutdownAll == RequestStop("shutdown_joining", "shutdown_lock")

(* join() returns and scheduler_running is cleared under the mutex.         *)
SchedulerJoined ==
  /\ control_pc \in {"joining", "shutdown_joining"}
  /\ sched.pc = "exited"
  /\ scheduler_running' = FALSE
  /\ control_pc' = IF control_pc = "joining" THEN "idle" ELSE "shutdown_lock"
  /\ UNCHANGED <<now, planVars, dueVars, route, queueVars, fresh_waiters,
                 next_request_id, completion, workerVars, sched, client,
                 scheduler_stop, shutdown, cancelled, history>>

(* Mutants: the queue is cleared without releasing the tasks; the task in   *)
(* flight is cancelled as well.                                            *)
CancelQueuedUnreleased ==
  /\ control_pc = "shutdown_lock"
  /\ MutexFree
  /\ shutdown' = TRUE
  /\ cancelled' = Elements(queue)
  /\ queue' = <<>>
  /\ dropped' = dropped \cup SlotsOf(Elements(queue))
  /\ control_pc' = "cancelling"
  /\ UNCHANGED <<now, planVars, dueVars, route, busy_keys, fresh_tasks,
                 fresh_waiters, next_request_id, completion, workerVars, sched,
                 client, scheduler_stop, scheduler_running, noted>>

CancelAllTasks ==
  /\ control_pc = "shutdown_lock"
  /\ MutexFree
  /\ shutdown' = TRUE
  /\ cancelled' = Live
  /\ queue' = <<>>
  /\ busy_keys' = {}
  /\ fresh_tasks' = {}
  /\ dropped' = dropped \cup SlotsOf(Elements(queue))
  /\ control_pc' = "cancelling"
  /\ UNCHANGED <<now, planVars, dueVars, route, fresh_waiters,
                 next_request_id, completion, workerVars, sched, client,
                 scheduler_stop, scheduler_running, noted>>

CancelQueued ==
  /\ control_pc = "shutdown_lock"
  /\ MutexFree
  /\ shutdown' = TRUE
  /\ cancelled' = Elements(queue)
  /\ queue' = <<>>
  /\ busy_keys' = busy_keys \ UNION {t.keys : t \in Elements(queue)}
  /\ fresh_tasks' = fresh_tasks \ Elements(queue)
  /\ dropped' = dropped \cup SlotsOf(Elements(queue))
  /\ control_pc' = "cancelling"
  /\ UNCHANGED <<now, planVars, dueVars, route, fresh_waiters,
                 next_request_id, completion, workerVars, sched, client,
                 scheduler_stop, scheduler_running, noted>>

(* Mutant: a cancelled task is never completed.                             *)
ForgetCancelled(t) ==
  /\ control_pc = "cancelling"
  /\ t \in cancelled
  /\ cancelled' = cancelled \ {t}
  /\ UNCHANGED <<now, planVars, dueVars, route, queueVars, fresh_waiters,
                 next_request_id, completion, workerVars, sched, client,
                 scheduler_stop, scheduler_running, shutdown, control_pc, history>>

CompleteCancelled(t) ==
  /\ control_pc = "cancelling"
  /\ t \in cancelled
  /\ completion' = Complete({t}, "NOT_INITIALIZED")
  /\ cancelled' = cancelled \ {t}
  /\ UNCHANGED <<now, planVars, dueVars, route, queueVars, fresh_waiters,
                 next_request_id, workerVars, sched, client, scheduler_stop,
                 scheduler_running, shutdown, control_pc, history>>

WorkerJoined ==
  /\ control_pc = "cancelling"
  /\ cancelled = {}
  /\ worker_pc = "exited"
  /\ control_pc' = "down"
  /\ UNCHANGED <<now, planVars, dueVars, route, queueVars, fresh_waiters,
                 next_request_id, completion, workerVars, sched, client,
                 scheduler_stop, scheduler_running, shutdown, cancelled, history>>

-----------------------------------------------------------------------------
RunDue ==
  \/ RunDueStopped \/ RunDueBegin
  \/ JobNotDue \/ JobEnqueued \/ JobRejected
  \/ RunDueUnlock \/ NoteResult

Scheduler == SchedulerCheck \/ RunDue \/ SchedulerWake

Worker ==
  \/ WorkerPop \/ WorkerExit \/ WorkerRead
  \/ WorkerNote \/ WorkerRelease \/ WorkerComplete

FreshRead(c) ==
  \E keys \in SUBSET Keys, deadline \in 1..(MaxTime + 1) :
    \/ FreshReadJoin(c, keys, deadline)
    \/ FreshReadEnqueue(c, keys, deadline)
    \/ FreshReadRefused(c, keys, deadline)

Client(c) == FreshRead(c) \/ WaiterWakes(c) \/ WaiterLeaves(c)

Shutdown ==
  \/ SchedulerJoined \/ CancelQueued \/ WorkerJoined
  \/ \E t \in cancelled : CompleteCancelled(t)

Next ==
  \/ Tick
  \/ \E jobs \in PlanJobs : StorePlan(jobs)
  \/ InstallPlan
  \/ \E keys \in RouteChoices : ActivateCatalog(keys)
  \/ Scheduler
  \/ Worker
  \/ \E c \in Clients : Client(c)
  \/ StartScheduler \/ StopScheduler \/ ShutdownAll
  \/ Shutdown

Spec == Init /\ [][Next]_vars

-----------------------------------------------------------------------------
(* Properties *)

SchedulerPcs == {"off", "check", "lock", "jobs", "results", "sleep", "exited"}
Results == Seq(SUBSET Slot)
SchedulerState ==
  [pc : SchedulerPcs, plan : Plan, now : Nat, job : Nat, results : Results]

(* The types of the runtime's state.                                       *)
TypeOK ==
  /\ now \in Nat
  /\ plan \in Plan
  /\ installing \in BOOLEAN
  /\ scheduled_plan_version \in Nat
  /\ next_due \in Seq(Nat)
  /\ route \in [generation : Nat, keys : SUBSET Keys]
  /\ queue \in Seq(Task)
  /\ busy_keys \subseteq Keys
  /\ fresh_tasks \subseteq Task
  /\ fresh_waiters \in Nat
  /\ next_request_id \in 1..MaxRequestId
  /\ completion \in [1..MaxRequestId -> {"none", "pending"} \cup DoneStatuses]
  /\ worker_pc \in {"wait", "read", "note", "release", "complete", "exited"}
  /\ worker_task \in Task
  /\ worker_status \in RunStatuses
  /\ sched \in SchedulerState
  /\ client \in [Clients -> [pc : {"idle", "waiting", "leaving"}, task : Nat, deadline : Nat]]
  /\ scheduler_stop \in BOOLEAN
  /\ scheduler_running \in BOOLEAN
  /\ shutdown \in BOOLEAN
  /\ control_pc \in {"idle", "joining", "shutdown_joining", "shutdown_lock",
                     "cancelling", "down"}
  /\ cancelled \subseteq Task
  /\ noted \subseteq Slot
  /\ dropped \subseteq Slot

(* "The same key is never read concurrently": two tasks that are queued or  *)
(* in flight share no key, and busy_keys holds exactly the keys of those    *)
(* tasks, so no key is blocked by a task that is gone.                      *)
BusyKeysExact ==
  /\ busy_keys = UNION {t.keys : t \in Live}
  /\ \A t, u \in Live : t # u => t.keys \cap u.keys = {}

Before(t, u) ==
  \/ t.priority > u.priority
  \/ t.priority = u.priority /\ t.id < u.id

Ordered(q) == \A i, j \in 1..Len(q) : i < j => Before(q[i], q[j])

(* The deque insert and the eviction of the back keep the queue within      *)
(* max_provider_queue, by falling priority and, in one priority, oldest     *)
(* request first: the worker always takes the oldest most urgent task.      *)
QueueInOrder == Len(queue) <= MaxProviderQueue /\ Ordered(queue)

(* fresh_tasks registers exactly the fresh tasks that are queued or in      *)
(* flight, at most one per signature: a caller never joins a task that is   *)
(* finished, evicted or cancelled, and never misses one it could join.      *)
FreshRegistryExact ==
  /\ fresh_tasks = {t \in Live : t.fresh}
  /\ \A t, u \in fresh_tasks :
       t.generation = u.generation /\ t.keys = u.keys => t = u

(* Whoever still has to set the completion of the fresh task with this id.  *)
Completable(id) ==
  \/ \E t \in Live \cup cancelled : t.fresh /\ t.id = id
  \/ worker_pc = "complete" /\ worker_task.id = id

(* fresh_waiters counts the callers inside freshRead and respects           *)
(* max_fresh_waiters, whichever way each of them returns.                   *)
WaitersCounted ==
  /\ fresh_waiters = Cardinality({c \in Clients : client[c].pc # "idle"})
  /\ fresh_waiters <= MaxFreshWaiters

(* No freshRead caller waits on a completion that nobody is left to set:    *)
(* eviction, shutdown and the worker between them complete every task; and  *)
(* no caller that has left is still counted.                                *)
NoOrphanWaiter ==
  /\ \A c \in Clients : client[c].pc = "waiting" =>
       \/ completion[client[c].task] \in DoneStatuses
       \/ completion[client[c].task] = "pending" /\ Completable(client[c].task)
  /\ WaitersCounted

(* A caller joins a task only if the task's deadline is no earlier than its *)
(* own; so a task given up as expired has no waiter that still had time.    *)
ExpiredTaskHasNoPatientWaiter ==
  worker_status = "TIMEOUT" =>
     \A c \in Clients :
       client[c].pc = "waiting" /\ client[c].task = worker_task.id
         => client[c].deadline < now

(* A completion is set once: worker, eviction and shutdown never complete   *)
(* the same task twice.                                                    *)
CompletionFinal ==
  [][\A id \in 1..MaxRequestId :
       completion[id] \in DoneStatuses => completion'[id] = completion[id]]_vars

(* When shutdownAll returns, no task is left and every caller still inside  *)
(* freshRead has its answer.                                                *)
ShutdownLeavesNothing ==
  control_pc = "down" =>
     /\ queue = <<>> /\ busy_keys = {} /\ fresh_tasks = {}
     /\ \A c \in Clients : client[c].pc = "waiting" =>
          completion[client[c].task] \in DoneStatuses

(* The inductive invariant behind the properties above.  An outstanding     *)
(* task is one whose completion, if it has one, is still to be set.         *)
Finishing == IF worker_pc = "complete" THEN {worker_task} ELSE {}
Outstanding == Live \cup cancelled \cup Finishing

(* Request ids are spent once, so ids tell outstanding tasks apart.         *)
IdsInv ==
  /\ \A t \in Outstanding : t.id \in 1..(next_request_id - 1) /\ t.keys # {}
  /\ \A t, u \in Outstanding : t.id = u.id => t = u

(* A task is in one place: queued, with the worker, or cancelled.           *)
PlaceInv ==
  /\ worker_pc \notin {"wait", "exited"} => worker_task \notin Elements(queue) \cup cancelled
  /\ worker_pc = "complete" => worker_task.fresh
  /\ worker_pc = "exited" => shutdown
  /\ shutdown => queue = <<>>
  /\ shutdown <=> control_pc \in {"cancelling", "down"}
  /\ cancelled # {} => control_pc = "cancelling"
  /\ control_pc = "down" => worker_pc = "exited"

(* A completion is pending exactly while its task is outstanding.           *)
CompletionInv ==
  /\ \A id \in 1..MaxRequestId :
       completion[id] = "pending" <=> \E t \in Outstanding : t.fresh /\ t.id = id
  /\ \A id \in next_request_id..MaxRequestId : completion[id] = "none"

(* What a waiter w knows of the task it joined.                             *)
Attached(w) ==
  /\ w.task \in 1..(next_request_id - 1)
  /\ completion[w.task] # "none"
  /\ \A t \in Outstanding : t.id = w.task => t.deadline >= w.deadline

WaiterInv == \A c \in Clients : client[c].pc = "waiting" => Attached(client[c])

ExpiryInv ==
  worker_status = "TIMEOUT" =>
    /\ worker_pc \in {"note", "release", "complete"}
    /\ now > worker_task.deadline

(* Taken together, the queue's state is consistent: the strengthening that  *)
(* makes BusyKeysExact, QueueInOrder, FreshRegistryExact and                *)
(* NoOrphanWaiter hold after every step of every thread.                    *)
RuntimeInv ==
  /\ BusyKeysExact
  /\ QueueInOrder
  /\ fresh_tasks = {t \in Live : t.fresh}
  /\ IdsInv
  /\ PlaceInv
  /\ CompletionInv
  /\ WaiterInv
  /\ ExpiryInv

(* The periods of job j that runDue has passed since the due times were     *)
(* last set.                                                               *)
PassedSlots ==
  {s \in [version : {scheduled_plan_version}, job : DOMAIN next_due,
          scheduled : 0..MaxTime] :
     \E p \in {plan, sched.plan} :
       /\ p.version = scheduled_plan_version
       /\ s.job \in DOMAIN p.jobs
       /\ s.scheduled < next_due[s.job]
       /\ s.scheduled > p.created_at
       /\ (s.scheduled - p.created_at) % p.jobs[s.job].period = 0}

Pending == SlotsOf(Live) \cup UNION Elements(sched.results)

(* Each period that came due is either going to be recorded as a logical    *)
(* sample, or recorded, or was lost with a task that eviction or shutdown   *)
(* removed from the queue: no other path of runDue or of the worker forgets *)
(* one.                                                                    *)
EveryPeriodAccounted == PassedSlots \subseteq noted \cup Pending \cup dropped

-----------------------------------------------------------------------------
(* Liveness.  The threads are scheduled fairly.  A thread that needs        *)
(* Runtime::mutex gets it if it is free again and again (strong fairness):  *)
(* the scheduler holds it for one pass over the plan and then sleeps.       *)
Fairness ==
  /\ WF_vars(Scheduler)
  /\ SF_vars(Worker)
  /\ \A c \in Clients : WF_vars(WaiterWakes(c)) /\ SF_vars(WaiterLeaves(c))
  /\ SF_vars(Shutdown)

FairSpec == Spec /\ Fairness

(* Every freshRead returns, even if its deadline never comes: the task it   *)
(* waits for is read, evicted or cancelled.                                 *)
FreshReadReturns ==
  \A c \in Clients : client[c].pc = "waiting" ~> client[c].pc = "idle"

(* shutdownAll returns: the scheduler and the worker both end.              *)
ShutdownReturns == control_pc = "shutdown_joining" ~> control_pc = "down"

=============================================================================
