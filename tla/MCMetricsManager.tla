-------------------------- MODULE MCMetricsManager --------------------------
(***************************************************************************)
(* MetricsManager for TLC.  Bounds keeps a state only if it lies within one *)
(* of five scenarios.                                                       *)
(***************************************************************************)
EXTENDS MetricsManager, TLC

CONSTANTS t1, t2

MCDevice == [id |-> 1, generation |-> 1]
MCOther == [id |-> 2, generation |-> 1]
MCCat(generation, entities, unsupported, supported) ==
  [generation |-> generation, entities |-> entities, unsupported |-> unsupported,
   supported |-> supported]

MCOneCatalog == {MCCat(1, {MCDevice}, FALSE, TRUE)}
(* The device stays; then there is no heartbeat, no device, two devices,    *)
(* and one again.                                                           *)
MCCatalogs ==
  {MCCat(g, {MCDevice}, FALSE, TRUE) : g \in 1..5}
  \cup {MCCat(6, {MCDevice}, FALSE, FALSE), MCCat(7, {}, FALSE, FALSE),
        MCCat(8, {}, TRUE, FALSE),
        MCCat(9, {}, TRUE, FALSE), MCCat(10, {MCDevice}, FALSE, TRUE)}

Valid(class, token) ==
  [class |-> class, status |-> "valid", token |-> token, sample |-> token,
   failure |-> None, mapped |-> TRUE, bytes |-> 1]
Failed(status, failure, bytes) ==
  [class |-> "unknown_native", status |-> status, token |-> 0, sample |-> None,
   failure |-> failure, mapped |-> TRUE, bytes |-> bytes]

MCReadings == {Valid("normal", 1), Valid("normal", 2), Valid("fault", 2), Failed("error", "timeout", 2)}
MCFewReadings == {Valid("normal", 1), Valid("fault", 2)}
MCOddReadings ==
  {Valid("warning", 1), Failed("not_available", "other", 1), Failed("unsupported", "other", 1),
   Failed("error", "unavailable", 1), Failed("error", "other", 1),
   [Valid("normal", 1) EXCEPT !.mapped = FALSE], [Valid("normal", 1) EXCEPT !.sample = None]}
MCAllReadings == MCReadings \cup MCOddReadings

MCRequest(entity, generation, max_age, heartbeat) ==
  [entity |-> entity, generation |-> generation, max_age |-> max_age, heartbeat |-> heartbeat]
MCNoRequests == {}
MCRequests == {MCRequest(MCDevice, 0, 0, TRUE)}
MCOddRequests ==
  {MCRequest(MCDevice, 1, 1, TRUE), MCRequest(MCDevice, 0, 3, TRUE), MCRequest(MCOther, 0, 0, TRUE), MCRequest(MCDevice, 0, 0, FALSE)}
MCAllRequests == MCRequests \cup MCOddRequests

AllEvidence ==
  Range(heartbeat_evidence) \cup {call[t].evidence : t \in {u \in Threads : call[u].pc = "collected"}}
Reads(readings) ==
  \A ev \in AllEvidence : \E r \in readings :
    /\ ev.class = r.class /\ ev.status = r.status /\ ev.token = r.token
    /\ ev.failure = r.failure /\ ev.mapped = r.mapped /\ ev.sample = r.sample
Asks(requests) ==
  \A t \in Threads :
    call[t].pc \in {"snapshot", "query", "answer"} => call[t].request \in requests \cup {None}
Doing(ops) == \A t \in Threads : call[t].pc = "snapshot" => call[t].op \in ops
Sees(generations) ==
  /\ catalog.generation \in generations \cup {0}
  /\ \A ev \in Range(log) : ev.generation \in generations
  /\ \A t \in Threads : call[t].pc = "activate" => call[t].catalog.generation \in generations

OneThread == Cardinality({t \in Threads : call[t] # Idle}) <= 1

(* Calls one after the other, with eviction, repeats and failures.          *)
Sequential ==
  /\ OneThread /\ Sees({1}) /\ Reads(MCReadings) /\ Asks(MCRequests)
  /\ commit_epoch <= 5

(* Two threads that activate catalogs and collect.                          *)
Activations ==
  /\ Sees({2, 3}) /\ Reads(MCFewReadings) /\ Doing({"evidence"})
  /\ now <= 1 /\ commit_epoch <= 4 /\ next_evidence_id <= 3

(* Two threads that collect, age and lose the provider.                     *)
Changes ==
  /\ Sees({4}) /\ Reads(MCFewReadings) /\ Doing({"evidence", "provider", "freshness"})
  /\ now <= 2 /\ commit_epoch <= 3 /\ next_evidence_id <= 3

(* Malformed and failed readings, catalogs without a device or heartbeat.   *)
Oddities ==
  /\ OneThread /\ Sees(5..8) /\ Reads(MCOddReadings) /\ Asks(MCOddRequests)
  /\ commit_epoch <= 3 /\ now <= 2

(* Two threads, one of which activates a catalog of two devices.            *)
Crowded == Sees({9, 10}) /\ AllEvidence = {} /\ Doing({}) /\ now = 0

Bounds == Sequential \/ Activations \/ Changes \/ Oddities \/ Crowded

ThreadSymmetry == Permutations(Threads)

=============================================================================
