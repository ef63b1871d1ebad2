------------------------ MODULE MCCollectionRuntime ------------------------
(***************************************************************************)
(* CollectionRuntime for TLC.  The four kinds of trouble are explored one   *)
(* at a time: Bounds keeps a state only if it lies within one of them.      *)
(***************************************************************************)
EXTENDS CollectionRuntime, TLC

CONSTANTS k1, k2

MCKeys == {k1, k2}

(* Jobs on either side of kNormal, the priority of a fresh read.            *)
LowJob == [keys |-> {k1}, priority |-> 0, period |-> 1, freshness |-> 1]
HighJob == [keys |-> {k2}, priority |-> 3, period |-> 1, freshness |-> 1]
SlowJob == [keys |-> {k2}, priority |-> 3, period |-> 2, freshness |-> 2]

ContendedJobs == {<<LowJob, HighJob>>}
PeriodicJobs == {<<LowJob, SlowJob>>}
AllJobs == ContendedJobs \cup PeriodicJobs
OneKeyRoutes == {{k1}}
AllRoutes == {{k1}, {k1, k2}}

DeadlinesUpTo(d) == \A c \in Clients : client[c].deadline <= d

(* The scheduler's jobs against the fresh reads of two callers.             *)
Contention ==
  /\ now <= 1 /\ DeadlinesUpTo(2)
  /\ route.keys \subseteq {k1} /\ route.generation <= 1
  /\ plan.version <= 1 /\ plan.jobs \in {<<>>} \cup ContendedJobs

(* Two callers with overlapping keys, across catalog generations.           *)
Overlap ==
  /\ now = 0 /\ DeadlinesUpTo(1)
  /\ plan = NoPlan /\ route.keys # {k1}

(* Two callers of one read while the clock passes their deadlines.          *)
Expiry ==
  /\ plan = NoPlan
  /\ route.keys \subseteq {k1} /\ route.generation <= 1
  /\ DeadlinesUpTo(3) /\ now <= 2

(* Two plans of a fast and a slow job, and a clock that skips periods.      *)
Periods ==
  /\ route.generation = 0
  /\ plan.jobs \in {<<>>} \cup PeriodicJobs

Bounds == Contention \/ Overlap \/ Expiry \/ Periods

(* The history variables are read by no action; they tell states apart only *)
(* where they are looked at.                                               *)
View == <<now, planVars, dueVars, route, queueVars, fresh_waiters,
          next_request_id, completion, workerVars, sched, client, controlVars,
          IF Periods THEN history ELSE <<>> >>

ClientSymmetry == Permutations(Clients)

=============================================================================
