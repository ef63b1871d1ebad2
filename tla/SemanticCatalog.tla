-------------------------- MODULE SemanticCatalog --------------------------
(***************************************************************************)
(* SemanticCatalog (semantic_catalog.cpp): what discovery finds becomes the *)
(* next CatalogView.  A device keeps its id as long as the process lives;   *)
(* its generation tells its incarnations, and its absences, apart.          *)
(*                                                                         *)
(* commit holds writer_mutex_ throughout and publishes with one store, so   *)
(* it is one step; a descriptor that it refuses changes nothing.            *)
(***************************************************************************)
EXTENDS Integers, Sequences

CONSTANTS
  Keys,           \* what identityKey makes of a device
  NoKey,          \* of a device without native id or address
  Incarnations,
  Data,           \* the metrics and the heartbeat of the target catalog
  Offers,         \* the data that providers may offer
  Descriptors,    \* what discovery may find
  MaxCount        \* the largest uint64_t

(* matches: the target is the catalog's and the provider is ready.          *)
Descriptor ==
  [matches : BOOLEAN, detected : Nat,
   devices : Seq([key : Keys \cup {NoKey}, incarnation : Incarnations, ready : BOOLEAN]),
   offered : SUBSET Offers]

ASSUME CatalogAssumption ==
  /\ NoKey \notin Keys /\ Descriptors \subseteq Descriptor
  /\ MaxCount \in Nat \ {0}

VARIABLES
  view,               \* snapshot_
  identity_history,   \* identity_history_
  next_entity_id,     \* next_entity_id_
  published           \* history: the device of each generation of the catalog

catalogVars == <<view, identity_history, next_entity_id, published>>

CatalogInit ==
  /\ view = [generation |-> 0, detected |-> 0, unsupported |-> FALSE, entities |-> {},
             supported |-> {}]
  /\ identity_history = <<>> /\ next_entity_id = 0
  /\ published = <<>>

-----------------------------------------------------------------------------
(* commit *)

Acceptable(d) ==
  /\ d.matches
  /\ Len(d.devices) = d.detected
  /\ d.detected = 1 => d.devices[1].key # NoKey
  /\ view.generation # MaxCount

(* Mutant: a device that was away and comes back is the same.               *)
SameIncarnationAway(device) ==
  /\ device.key \in DOMAIN identity_history
  /\ identity_history[device.key].incarnation = device.incarnation

(* The device is there since the last view.                                 *)
SameIncarnation(device) ==
  /\ device.key \in DOMAIN identity_history
  /\ identity_history[device.key].present
  /\ identity_history[device.key].incarnation = device.incarnation

(* The next entry of its history: a new id, or a new generation if needed.  *)
Identity(device) ==
  IF device.key \notin DOMAIN identity_history
  THEN [id |-> next_entity_id, generation |-> 1, incarnation |-> device.incarnation,
        present |-> TRUE]
  ELSE [identity_history[device.key] EXCEPT
          !.generation = IF SameIncarnation(device) THEN @ ELSE @ + 1,
          !.incarnation = device.incarnation,
          !.present = TRUE]

Overflows(device) ==
  IF device.key \notin DOMAIN identity_history
  THEN next_entity_id = MaxCount
  ELSE identity_history[device.key].generation = MaxCount /\ ~SameIncarnation(device)

Absent == [k \in DOMAIN identity_history |-> [identity_history[k] EXCEPT !.present = FALSE]]

Ref(identity) == [id |-> identity.id, generation |-> identity.generation]

(* buildCapabilities: which data of the target catalog are supported.       *)
Capabilities(d) == Data \cap d.offered

(* The topology with one device, and without or with several of them.       *)
Commit(d) ==
  /\ Acceptable(d)
  /\ \/ /\ d.detected = 1 /\ ~Overflows(d.devices[1])
        /\ LET device == d.devices[1]
               identity == Identity(device)
           IN  /\ identity_history' = [k \in DOMAIN identity_history \cup {device.key} |->
                                         IF k = device.key THEN identity ELSE Absent[k]]
               /\ next_entity_id' = IF device.key \in DOMAIN identity_history
                                    THEN next_entity_id ELSE next_entity_id + 1
               /\ view' = [generation |-> view.generation + 1, detected |-> 1,
                           unsupported |-> FALSE,
                           entities |-> {[ref |-> Ref(identity), partial |-> ~device.ready]},
                           supported |-> Capabilities(d)]
               /\ published' = Append(published, {[ref |-> Ref(identity), key |-> device.key,
                                                   incarnation |-> device.incarnation]})
     \/ /\ d.detected # 1
        /\ identity_history' = Absent
        /\ view' = [generation |-> view.generation + 1, detected |-> d.detected,
                    unsupported |-> d.detected > 1, entities |-> {}, supported |-> {}]
        /\ published' = Append(published, {})
        /\ UNCHANGED next_entity_id

CatalogSpec == CatalogInit /\ [][\E d \in Descriptors : Commit(d)]_catalogVars

(* CatalogView::resolve *)
Resolve(v, ref) ==
  IF \A e \in v.entities : e.ref.id # ref.id THEN "not_found"
  ELSE IF \A e \in v.entities : e.ref # ref THEN "stale"
  ELSE "success"

-----------------------------------------------------------------------------
(* A reference to an entity names one device for one stretch of time: two   *)
(* views give the same reference exactly when they show the same device in  *)
(* the same incarnation and so does every view between them; the same id    *)
(* when they show the same device.  The last view resolves the references   *)
(* of the others accordingly (commit, resolve).                             *)
EntityRefExact ==
  LET lasting(g, h, a) == \A i \in g..h : \E b \in published[i] :
                            b.key = a.key /\ b.incarnation = a.incarnation
  IN  /\ Len(published) = view.generation
      /\ \A g \in DOMAIN published, h \in DOMAIN published :
           g < h => \A a \in published[g], b \in published[h] :
             /\ a.ref = b.ref <=> lasting(g, h, a)
             /\ a.ref.id = b.ref.id <=> a.key = b.key
             /\ a.ref # b.ref /\ a.key = b.key => a.ref.generation < b.ref.generation
      /\ \A g \in DOMAIN published : \A a \in published[g] :
           Resolve(view, a.ref) = "success" <=> lasting(g, view.generation, a)

=============================================================================
