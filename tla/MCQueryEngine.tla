--------------------------- MODULE MCQueryEngine ---------------------------
(***************************************************************************)
(* QueryEngine and DataManager's store for TLC.                             *)
(***************************************************************************)
EXTENDS QueryEngine

CONSTANTS t1, t2

MCDevice == [id |-> 1, generation |-> 1]
MCReborn == [id |-> 1, generation |-> 2]
MCCat(generation, entities, unsupported) ==
  [generation |-> generation, entities |-> entities, unsupported |-> unsupported,
   supported |-> FALSE]

MCOneCatalog == {MCCat(1, {MCDevice}, FALSE)}
MCTwoCatalogs == MCOneCatalog \cup {MCCat(2, {MCDevice}, FALSE)}
(* The device stays, comes back as new, then there are two.                 *)
MCChangingCatalogs ==
  MCTwoCatalogs \cup {MCCat(3, {MCReborn}, FALSE), MCCat(4, {MCReborn, [id |-> 2, generation |-> 1]}, TRUE)}

O(metric, status, bytes) ==
  [entity |-> MCDevice, metric |-> metric, status |-> status, bytes |-> bytes, sound |-> TRUE]

MCSamples == {{O(1, "valid", 1)}, {O(1, "error", 1), O(2, "valid", 1)}, {O(2, "valid", 2)}}
(* Also a batch with a malformed member, one with a repeated key, one with  *)
(* an unknown metric, and an empty one.                                     *)
MCOddSamples ==
  {{O(1, "valid", 1)}, {O(1, "valid", 1), [O(2, "valid", 1) EXCEPT !.sound = FALSE]},
   {O(1, "valid", 1), O(1, "error", 1)}, {O(3, "valid", 1)}, {}, {O(1, "stale", 1)},
   {[O(1, "valid", 1) EXCEPT !.entity = MCReborn]}}
MCOneSample == {{O(1, "valid", 1)}}
MCQuerySamples == {{O(1, "valid", 1)}, {O(1, "error", 1)}, {O(2, "valid", 1)}}

K(metric) == [entity |-> MCDevice, metric |-> metric]
R(keys, policy, consistency, epoch, max_age, allow_stale, deadline) ==
  [keys |-> keys, policy |-> policy, consistency |-> consistency, required_epoch |-> epoch,
   max_age |-> max_age, allow_stale |-> allow_stale, deadline |-> deadline, generation |-> 0,
   max_items |-> 2, max_bytes |-> 3]

MCEpochRequests == {R({K(1)}, "cache_only", "at_least_epoch", 2, 0, TRUE, 1),
                    R({K(1), K(2)}, "cache_only", "at_least_epoch", 2, 0, FALSE, 1),
                    R({K(1), K(2)}, "cache_only", "same_batch", 0, 0, TRUE, 1)}
MCFreshRequests == {R({K(1)}, "fresh_required", "best_effort", 0, 0, FALSE, 1),
                    R({K(1), K(2)}, "cache_or_fresh", "best_effort", 0, 1, TRUE, 2),
                    [R({K(1), K(3)}, "cache_or_fresh", "best_effort", 0, 0, FALSE, 2)
                       EXCEPT !.max_items = 1, !.generation = 1]}

Load(catalogs, samples, requests, writers, readers, time, commits) ==
  [catalogs |-> catalogs, samples |-> samples, requests |-> requests, writers |-> writers,
   readers |-> readers, max_time |-> time, max_commits |-> commits]

(* One writer against the limits of the store; two writers and changing     *)
(* catalogs; a query that waits for an epoch while another thread commits;  *)
(* queries that may ask for a fresh read.                                   *)
MCLoads ==
  {Load(MCOneCatalog, MCSamples, {}, {t1}, {}, 2, 4),
   Load(MCChangingCatalogs, MCOddSamples, {}, {t1, t2}, {}, 0, 2),
   Load(MCTwoCatalogs, MCQuerySamples, MCEpochRequests, {t1}, {t2}, 1, 3),
   Load(MCOneCatalog, MCOneSample, MCFreshRequests, {t1}, {t2}, 2, 1)}

=============================================================================
