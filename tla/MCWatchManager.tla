--------------------------- MODULE MCWatchManager ---------------------------
EXTENDS WatchManager, TLC

CONSTANTS o1, o2, m1, m2, e1, e2

R(ms, p, f, rt, limit, prio, partial) ==
  [metrics |-> ms, period |-> p, freshness |-> f, retention |-> rt,
   sample_limit |-> limit, priority |-> prio, allow_partial |-> partial]

(* Two that overlap on a metric and merge crosswise, of which one is only  *)
(* partly supported under a catalog without m2; one with invalid timing.   *)
MCMergeRequirements ==
  {R({m1}, 1, 3, 3, 0, 2, FALSE), R({m1, m2}, 2, 2, 4, 2, 0, TRUE),
   R({m2}, 2, 1, 3, 0, 1, FALSE)}

MCCatalogs ==
  {[entity |-> e1, supported |-> {m1, m2}, heartbeat |-> TRUE],
   [entity |-> e2, supported |-> {m1}, heartbeat |-> FALSE],
   [entity |-> NoEntity, supported |-> {}, heartbeat |-> FALSE]}

MCTimings == {[period |-> 1, retention |-> 2], [period |-> 3, retention |-> 2]}

MCMinPeriod == [m \in Metrics |-> IF m = m1 THEN 1 ELSE 2]

MCSymmetry == Permutations({o1, o2})

=============================================================================
