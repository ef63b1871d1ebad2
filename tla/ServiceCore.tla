---------------------------- MODULE ServiceCore ----------------------------
(***************************************************************************)
(* PdcmServiceCore and ProviderManager (service_core.cpp,                   *)
(* provider_manager.cpp): how the core starts and stops.  Each step is one  *)
(* critical section of start or stop; both have a program counter, so that  *)
(* the threads of a program that uses the core run in between.              *)
(*                                                                         *)
(* What the configuration, the provider and its topology make of start is   *)
(* fixed for a behaviour: fault is the first step that fails.               *)
(***************************************************************************)
EXTENDS Integers

Faults == {"none", "config", "initialize", "discover", "commit", "unsupported", "activate"}

VARIABLES
  fault,
  core,       \* snapshot_
  manager,    \* ProviderManager::state_
  provider,   \* what was last asked of the provider, external
  catalog,    \* the generation that semantic_catalog_ has committed
  active,     \* the generation that data_manager_ and metrics_manager_ serve
  start,      \* where start is
  halt        \* where stop is

coreVars == <<fault, core, manager, provider, catalog, active, start, halt>>

CoreInit ==
  /\ fault \in Faults
  /\ core = [state |-> "created", provider |-> "uninitialized", reason |-> "none",
             generation |-> 0]
  /\ manager = "uninitialized" /\ provider = "none"
  /\ catalog = 0 /\ active = 0
  /\ start = "begin" /\ halt = "begin"

Publish(state, manager_state, reason, generation) ==
  core' = [state |-> state, provider |-> manager_state, reason |-> reason,
           generation |-> generation]

-----------------------------------------------------------------------------
(* start *)

StartBegin ==
  /\ start = "begin" /\ core.state = "created"
  /\ core' = [core EXCEPT !.state = "starting"]
  /\ start' = "validate"
  /\ UNCHANGED <<fault, manager, provider, catalog, active, halt>>

StartValidate ==
  /\ start = "validate"
  /\ \/ /\ fault = "config"
        /\ Publish("failed", "uninitialized", "none", 0)
        /\ start' = "failed"
     \/ /\ fault # "config"
        /\ start' = "initialize"
        /\ UNCHANGED core
  /\ UNCHANGED <<fault, manager, provider, catalog, active, halt>>

(* ProviderManager::initialize, and what start makes of it.                 *)
StartInitialize ==
  /\ start = "initialize"
  /\ IF manager = "shutdown" THEN UNCHANGED <<manager, provider>>
     ELSE /\ provider' = "called"
          /\ manager' = IF fault = "initialize" THEN "unavailable" ELSE "ready"
  /\ \/ /\ manager = "shutdown" \/ fault = "initialize"
        /\ Publish("degraded", manager', "provider_unavailable", 0)
        /\ start' = "done"
     \/ /\ manager # "shutdown" /\ fault # "initialize"
        /\ start' = "discover"
        /\ UNCHANGED core
  /\ UNCHANGED <<fault, catalog, active, halt>>

(* ProviderManager::discover.  A provider that fails may no longer be ready.*)
StartDiscover ==
  /\ start = "discover"
  /\ IF manager # "ready" THEN UNCHANGED <<manager, provider>>
     ELSE /\ provider' = "called"
          /\ manager' \in IF fault = "discover" THEN {"ready", "unavailable"} ELSE {"ready"}
  /\ \/ /\ manager # "ready" \/ fault = "discover"
        /\ Publish("degraded", manager', "discovery_failed", 0)
        /\ start' = "done"
     \/ /\ manager = "ready" /\ fault # "discover"
        /\ start' = "commit"
        /\ UNCHANGED core
  /\ UNCHANGED <<fault, catalog, active, halt>>

(* SemanticCatalog::commit; an unsupported topology is committed too.       *)
StartCommit ==
  /\ start = "commit"
  /\ catalog' = IF fault = "commit" THEN catalog ELSE catalog + 1
  /\ \/ /\ fault = "commit"
        /\ Publish("degraded", manager, "discovery_failed", catalog)
        /\ start' = "done"
     \/ /\ fault = "unsupported"
        /\ Publish("degraded", manager, "topology_unsupported", catalog')
        /\ start' = "done"
     \/ /\ fault \notin {"commit", "unsupported"}
        /\ start' = "activate"
        /\ UNCHANGED core
  /\ UNCHANGED <<fault, manager, provider, active, halt>>

StartActivate ==
  /\ start = "activate"
  /\ \/ /\ fault = "activate"
        /\ Publish("failed", manager, "discovery_failed", catalog)
        /\ start' = "failed"
        /\ UNCHANGED active
     \/ /\ fault # "activate"
        /\ active' = catalog
        /\ start' = "publish"
        /\ UNCHANGED core
  /\ UNCHANGED <<fault, manager, provider, catalog, halt>>

StartPublish ==
  /\ start = "publish"
  /\ Publish("ready", manager, "none", catalog)
  /\ start' = "done"
  /\ UNCHANGED <<fault, manager, provider, catalog, active, halt>>

CoreStart ==
  \/ StartBegin \/ StartValidate \/ StartInitialize \/ StartDiscover
  \/ StartCommit \/ StartActivate \/ StartPublish

-----------------------------------------------------------------------------
(* stop *)

(* Mutant: only a core that is ready is stopped.                            *)
HaltBeginReady ==
  /\ halt = "begin"
  /\ core' = IF core.state # "ready" THEN core ELSE [core EXCEPT !.state = "stopping"]
  /\ halt' = IF core.state # "ready" THEN "done" ELSE "shutdown"
  /\ UNCHANGED <<fault, manager, provider, catalog, active, start>>

HaltBegin ==
  /\ halt = "begin"
  /\ core' = IF core.state = "stopped" THEN core ELSE [core EXCEPT !.state = "stopping"]
  /\ halt' = IF core.state = "stopped" THEN "done" ELSE "shutdown"
  /\ UNCHANGED <<fault, manager, provider, catalog, active, start>>

(* ProviderManager::shutdown *)
HaltShutdown ==
  /\ halt = "shutdown"
  /\ provider' = IF manager = "shutdown" THEN provider ELSE "shutdown"
  /\ manager' = "shutdown"
  /\ halt' = "publish"
  /\ UNCHANGED <<fault, core, catalog, active, start>>

HaltPublish ==
  /\ halt = "publish"
  /\ Publish("stopped", "shutdown", "none", 0)
  /\ halt' = "done"
  /\ UNCHANGED <<fault, manager, provider, catalog, active, start>>

CoreStop == HaltBegin \/ HaltShutdown \/ HaltPublish

-----------------------------------------------------------------------------
(* entities, capabilities and health refuse to answer in any other state.   *)
Serving == core.state \notin {"created", "starting", "failed", "stopping", "stopped"}

(* A core that says it is ready has a provider that is, and serves health   *)
(* from the catalog it reports (start, publish).                            *)
ReadyIsTrue ==
  core.state = "ready" =>
    /\ manager = "ready" /\ provider = "called"
    /\ core.generation = catalog /\ active = catalog /\ catalog # 0

=============================================================================
