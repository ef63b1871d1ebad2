---------------------------- MODULE MCDerivation ----------------------------
(***************************************************************************)
(* Derivation for TLC, under these loads: rediscovery of two devices in two *)
(* incarnations; reads of a counter that restarts; tasks while the catalog  *)
(* changes; tasks at the limits of the queue; every answer of a provider;   *)
(* two threads that install graphs; and each graph of five processors.      *)
(***************************************************************************)
EXTENDS Derivation, TLC

CONSTANTS k1, k2

Found(n, devices) ==
  [matches |-> TRUE, detected |-> n, devices |-> devices, offered |-> Offers]

Device(k, i) == [key |-> k, incarnation |-> i, ready |-> i = 1]

MCDescriptors ==
  {Found(0, <<>>), Found(2, <<Device(k1, 1), Device(k2, 1)>>), Found(1, <<>>)}
  \cup {Found(1, <<Device(k, i)>>) : k \in Keys \cup {NoKey}, i \in Incarnations}
  \cup {[Found(1, <<Device(k1, 1)>>) EXCEPT !.matches = FALSE]}

(* Processors 1 to 4 read one other or none, the fifth up to two.           *)
MCLargeSets ==
  {[described |-> TRUE, reads |-> [p \in 1..5 |-> IF p = 5 THEN last ELSE {f[p]} \ {0}]] :
     f \in [1..4 -> 0..5], last \in {{}, {2}, {1, 2}, {3, 4}, {5}}}

MCSmallSets ==
  {[described |-> TRUE, reads |-> <<{}, r>>] : r \in SUBSET {1}}
  \cup {[described |-> FALSE, reads |-> <<{}>>]}

MCProcessorSets == MCLargeSets \cup MCSmallSets

Load(descriptors, generations, time, restarts, answers, tasks, processors) ==
  [descriptors |-> descriptors, generations |-> generations, time |-> time,
   restarts |-> restarts, answers |-> answers, tasks |-> tasks, processors |-> processors]

One(i) == Found(1, <<Device(k1, i)>>)

MCLoads ==
  {Load(MCDescriptors, 5, 0, 0, {}, 0, {}),
   Load({One(1)}, 1, 3, 1, {"good"}, 1, {}),
   Load({One(1), One(2)}, 2, 1, 0, {"good"}, 2, {}),
   Load({One(1)}, 1, 1, 0, {"good"}, 3, {}),
   Load({One(1)}, 1, 1, 0, Answers, 1, {}),
   Load({Found(0, <<>>)}, 2, 0, 0, {}, 0, MCSmallSets)}
  \cup {Load({Found(0, <<>>)}, 1, 0, 0, {}, 0, {set}) : set \in MCLargeSets}

=============================================================================
