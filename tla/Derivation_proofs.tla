-------------------------- MODULE Derivation_proofs --------------------------
(***************************************************************************)
(* What Derivation keeps, for any devices, incarnations, rates, limits and  *)
(* delays, while discoveries, reads, tasks and graphs interleave.           *)
(*                                                                         *)
(* EntityRefExact: a reference to an entity names one device for one        *)
(* stretch of time.  It speaks of every pair of views, but a commit sees    *)
(* only identity_history.  HistoryInv says what that keeps of the views:    *)
(* the present devices are those of the last view, and a reference to a     *)
(* device is its current one exactly when every view since has shown it.    *)
(*                                                                         *)
(* DerivedExact: a delta is what the counter has grown by.  The counter is  *)
(* known modulo Modulus only, so FlowInv says of every two samples that may *)
(* meet in a task how far the device can have gone from the one to the      *)
(* other (Within): no further than MaxRate allows in the time between their *)
(* stamps and the delay of the stamps.  This bounds the growth by what      *)
(* Evaluate accepts, and the remainder then determines it.                  *)
(*                                                                         *)
(* QueueExact: the books of the executor's queue, from QueueBooks.          *)
(***************************************************************************)
EXTENDS Derivation, TLAPS

Identities == [id : 0..MaxCount, generation : 1..MaxCount, incarnation : Incarnations,
               present : BOOLEAN]
References == [id : 0..MaxCount, generation : 1..MaxCount]
Shown == [ref : References, key : Keys, incarnation : Incarnations]

LastView == view.generation

(* The counters stay within uint64_t.                                       *)
CatalogType ==
  /\ view.generation \in 0..MaxCount
  /\ next_entity_id \in 0..MaxCount
  /\ DOMAIN identity_history \subseteq Keys
  /\ identity_history \in [DOMAIN identity_history -> Identities]
  /\ published \in Seq(SUBSET Shown) /\ Len(published) = LastView

(* Every view since then, up to h, shows the device as view g does.         *)
Lasting(g, h, a) ==
  \A i \in g..h : \E b \in published[i] : b.key = a.key /\ b.incarnation = a.incarnation

IdsInv ==
  /\ \A k \in DOMAIN identity_history : identity_history[k].id < next_entity_id
  /\ \A k, l \in DOMAIN identity_history :
       identity_history[k].id = identity_history[l].id => k = l

(* The last view, what it shows and the devices that are present.           *)
PresentInv ==
  /\ LastView = 0 => DOMAIN identity_history = {} /\ view.entities = {}
  /\ LastView # 0 =>
       /\ {e.ref : e \in view.entities} = {b.ref : b \in published[LastView]}
       /\ \A b, c \in published[LastView] : b = c
       /\ \A b \in published[LastView] :
            /\ b.key \in DOMAIN identity_history /\ identity_history[b.key].present
            /\ b.ref = Ref(identity_history[b.key])
            /\ b.incarnation = identity_history[b.key].incarnation
       /\ \A k \in DOMAIN identity_history :
            identity_history[k].present => \E b \in published[LastView] : b.key = k

HistoryInv ==
  \A g \in 1..LastView : \A a \in published[g] :
    /\ a.key \in DOMAIN identity_history
    /\ a.ref.id = identity_history[a.key].id
    /\ a.ref.generation <= identity_history[a.key].generation
    /\ Lasting(g, LastView, a) <=> /\ identity_history[a.key].present
                                   /\ a.ref.generation = identity_history[a.key].generation

(* What EntityRefExact says of two views.                                   *)
Apart(g, h) ==
  \A a \in published[g], b \in published[h] :
    /\ a.ref = b.ref <=> Lasting(g, h, a)
    /\ a.ref.id = b.ref.id <=> a.key = b.key
    /\ a.ref # b.ref /\ a.key = b.key => a.ref.generation < b.ref.generation

PairsInv == \A g, h \in 1..LastView : g < h => Apart(g, h)

CatalogInv == CatalogType /\ IdsInv /\ PresentInv /\ HistoryInv /\ PairsInv

-----------------------------------------------------------------------------
LEMMA CatalogInitial == CatalogInit => CatalogInv
<1> SUFFICES ASSUME CatalogInit  PROVE CatalogInv
  BY Zenon
<1>1. LastView = 0 /\ DOMAIN identity_history = {} /\ view.entities = {}
  BY DEF CatalogInit, LastView
<1>2. CatalogType
  BY <1>1, CatalogAssumption DEF CatalogInit, CatalogType, LastView
<1> QED  BY <1>1, <1>2 DEF CatalogInv, IdsInv, PresentInv, HistoryInv, PairsInv

(* A commit adds one view, and leaves the others.                           *)
LEMMA ViewAdded ==
  ASSUME CatalogType, NEW S \in SUBSET Shown, published' = Append(published, S),
         LastView' = LastView + 1
  PROVE  /\ published' \in Seq(SUBSET Shown) /\ Len(published') = LastView'
         /\ \A i \in 1..LastView : published'[i] = published[i]
         /\ published'[LastView'] = S
         /\ LastView \in Nat
BY DEF CatalogType

LEMMA LastingAdded ==
  ASSUME CatalogType, NEW S \in SUBSET Shown, published' = Append(published, S),
         LastView' = LastView + 1,
         NEW g \in 1..LastView, NEW a
  PROVE  /\ \A h \in 1..LastView : Lasting(g, h, a)' <=> Lasting(g, h, a)
         /\ Lasting(g, LastView, a)' <=>
              /\ Lasting(g, LastView, a)
              /\ \E b \in S : b.key = a.key /\ b.incarnation = a.incarnation
<1>1. /\ \A i \in 1..LastView : published'[i] = published[i]
      /\ published'[LastView + 1] = S /\ LastView \in Nat
  BY ViewAdded, Zenon
<1>2. \A h \in 1..LastView : Lasting(g, h, a)' <=> Lasting(g, h, a)
  <2> TAKE h \in 1..LastView
  <2>1. \A i \in g..h : i \in 1..LastView
    BY <1>1
  <2> QED  BY <1>1, <2>1, Zenon DEF Lasting
<1>3. /\ g..(LastView + 1) = (g..LastView) \cup {LastView + 1}
      /\ \A i \in g..LastView : i \in 1..LastView
  BY <1>1
<1>4. Lasting(g, LastView, a)' <=> \A i \in g..(LastView + 1) :
        \E b \in published'[i] : b.key = a.key /\ b.incarnation = a.incarnation
  BY Zenon DEF Lasting
<1>5. Lasting(g, LastView, a)' <=>
        /\ \A i \in g..LastView : \E b \in published[i] :
             b.key = a.key /\ b.incarnation = a.incarnation
        /\ \E b \in S : b.key = a.key /\ b.incarnation = a.incarnation
  BY <1>1, <1>3, <1>4, Zenon
<1> QED  BY <1>2, <1>5, Zenon DEF Lasting

(* A reference is its two numbers.                                          *)
LEMMA ReferenceFacts ==
  \A r, s \in References : /\ r = s <=> r.id = s.id /\ r.generation = s.generation
                           /\ r.generation \in Nat
BY CatalogAssumption DEF References

(* It is enough to know the invariants of the new last view.                *)
LEMMA PairsAdded ==
  ASSUME CatalogInv, NEW S \in SUBSET Shown, published' = Append(published, S),
         LastView' = LastView + 1, CatalogType', IdsInv', PresentInv', HistoryInv'
  PROVE  PairsInv'
<1> SUFFICES ASSUME NEW g \in 1..LastView', NEW h \in 1..LastView', g < h
             PROVE  Apart(g, h)'
  BY Zenon DEF PairsInv
<1>1. /\ LastView \in Nat /\ LastView' = LastView + 1 /\ g \in 1..LastView
      /\ \A i \in 1..LastView : published'[i] = published[i]
      /\ published'[LastView'] = S
  BY ViewAdded DEF CatalogInv
<1>2. CASE h \in 1..LastView
  <2>1. Apart(g, h)
    BY <1>1, <1>2, Zenon DEF CatalogInv, PairsInv
  <2>2. \A a : Lasting(g, h, a)' <=> Lasting(g, h, a)
    BY <1>1, <1>2, LastingAdded, Zenon DEF CatalogInv
  <2>3. published'[g] = published[g] /\ published'[h] = published[h]
    BY <1>1, <1>2, Zenon
  <2>4. ASSUME NEW a \in published'[g], NEW b \in published'[h]
        PROVE  /\ a.ref = b.ref <=> Lasting(g, h, a)'
               /\ a.ref.id = b.ref.id <=> a.key = b.key
               /\ a.ref # b.ref /\ a.key = b.key => a.ref.generation < b.ref.generation
    <3>1. a \in published[g] /\ b \in published[h]
      BY <2>3, <2>4, Zenon
    <3>2. /\ a.ref = b.ref <=> Lasting(g, h, a)
          /\ a.ref.id = b.ref.id <=> a.key = b.key
          /\ a.ref # b.ref /\ a.key = b.key => a.ref.generation < b.ref.generation
      BY <2>1, <3>1, Zenon DEF Apart
    <3>3. Lasting(g, h, a)' <=> Lasting(g, h, a)
      BY <2>2, Zenon
    <3> QED  BY <3>2, <3>3, Zenon
  <2> QED  BY <2>4, Zenon DEF Apart
<1>3. CASE h = LastView'
  <2> SUFFICES ASSUME NEW a \in published'[g], NEW b \in published'[LastView']
               PROVE  /\ a.ref = b.ref <=> Lasting(g, h, a)'
                      /\ a.ref.id = b.ref.id <=> a.key = b.key
                      /\ a.ref # b.ref /\ a.key = b.key => a.ref.generation < b.ref.generation
    BY <1>3, Zenon DEF Apart
  <2> DEFINE H == identity_history'
  <2>1. /\ a.key \in DOMAIN H /\ a.ref.id = H[a.key].id
        /\ a.ref.generation <= H[a.key].generation
        /\ Lasting(g, LastView, a)' <=> H[a.key].present /\ a.ref.generation = H[a.key].generation
    BY Zenon DEF HistoryInv
  <2>2. /\ b.key \in DOMAIN H /\ H[b.key].present
        /\ b.ref.id = H[b.key].id /\ b.ref.generation = H[b.key].generation
        /\ \A k \in DOMAIN H : H[k].present => b.key = k
    <3>1. LastView' # 0
      BY <1>1
    <3>2. /\ b.key \in DOMAIN H /\ H[b.key].present /\ b.ref = Ref(H[b.key])
          /\ \A k \in DOMAIN H : H[k].present => \E c \in published'[LastView'] : c.key = k
          /\ \A c \in published'[LastView'] : b = c
      BY <3>1, Zenon DEF PresentInv, Ref
    <3>3. b.ref.id = H[b.key].id /\ b.ref.generation = H[b.key].generation
      BY <3>2 DEF Ref
    <3>4. \A k \in DOMAIN H : H[k].present => b.key = k
      BY <3>2, Zenon
    <3> QED  BY <3>2, <3>3, <3>4, Zenon
  <2>3. a.ref.id = b.ref.id <=> a.key = b.key
    BY <2>1, <2>2, Zenon DEF IdsInv
  <2>4. a.ref \in References /\ b.ref \in References
    <3>1. a \in Shown /\ b \in Shown
      BY <1>1 DEF CatalogInv, CatalogType
    <3> QED  BY <3>1, Zenon DEF Shown
  <2>5. a.ref = b.ref <=> a.ref.id = b.ref.id /\ a.ref.generation = b.ref.generation
    BY <2>4, ReferenceFacts, Zenon
  <2>6. a.ref = b.ref <=> Lasting(g, h, a)'
    <3>1. Lasting(g, h, a)' <=> Lasting(g, LastView, a)'
      BY <1>3, Zenon DEF Lasting
    <3> QED  BY <2>1, <2>2, <2>3, <2>5, <3>1, Zenon
  <2>7. a.ref.generation \in Nat /\ b.ref.generation \in Nat
    BY <2>4, ReferenceFacts, Zenon
  <2>8. a.ref # b.ref /\ a.key = b.key => a.ref.generation < b.ref.generation
    BY <2>1, <2>2, <2>3, <2>5, <2>7
  <2> QED  BY <2>3, <2>6, <2>8, Zenon
<1> QED  BY <1>1, <1>2, <1>3

-----------------------------------------------------------------------------
(* commit without a device, or with several of them.                        *)
LEMMA NoDeviceStep ==
  ASSUME CatalogInv, LastView < MaxCount, identity_history' = Absent, LastView' = LastView + 1,
         view'.entities = {}, published' = Append(published, {}),
         next_entity_id' = next_entity_id
  PROVE  CatalogInv'
<1> DEFINE H == identity_history
<1>1. /\ DOMAIN identity_history' = DOMAIN H
      /\ \A k \in DOMAIN H : /\ identity_history'[k] \in Identities
                             /\ identity_history'[k].id = H[k].id
                             /\ identity_history'[k].generation = H[k].generation
                             /\ identity_history'[k].present = FALSE
  BY Zenon DEF Absent, CatalogInv, CatalogType, Identities
<1>2. /\ published' \in Seq(SUBSET Shown) /\ Len(published') = LastView'
      /\ \A i \in 1..LastView : published'[i] = published[i]
      /\ published'[LastView'] = {} /\ LastView \in Nat
  BY ViewAdded, Zenon DEF CatalogInv
<1>3. CatalogType'
  <2>1. identity_history' \in [DOMAIN identity_history' -> Identities]
    BY <1>1, Zenon DEF Absent
  <2>2. LastView' \in 0..MaxCount
    BY <1>2, CatalogAssumption DEF CatalogInv, CatalogType
  <2> QED  BY <1>1, <1>2, <2>1, <2>2, Zenon DEF CatalogInv, CatalogType, LastView
<1>4. IdsInv'
  BY <1>1 DEF CatalogInv, IdsInv
<1>5. PresentInv'
  BY <1>1, <1>2 DEF PresentInv
<1>6. HistoryInv'
  <2> SUFFICES ASSUME NEW g \in 1..LastView', NEW a \in published'[g]
               PROVE  /\ a.key \in DOMAIN identity_history'
                      /\ a.ref.id = identity_history'[a.key].id
                      /\ a.ref.generation <= identity_history'[a.key].generation
                      /\ Lasting(g, LastView, a)' <=>
                           /\ identity_history'[a.key].present
                           /\ a.ref.generation = identity_history'[a.key].generation
    BY Zenon DEF HistoryInv
  <2>1. g \in 1..LastView /\ a \in published[g]
    BY <1>2
  <2>2. ~Lasting(g, LastView, a)'
    BY <1>2, <2>1, LastingAdded, Zenon DEF CatalogInv
  <2> QED  BY <1>1, <2>1, <2>2 DEF CatalogInv, HistoryInv
<1>7. PairsInv'
  BY <1>3, <1>4, <1>5, <1>6, PairsAdded, Zenon
<1> QED  BY <1>3, <1>4, <1>5, <1>6, <1>7, Zenon DEF CatalogInv

(* What Identity gives a device.                                            *)
LEMMA IdentityIs ==
  ASSUME CatalogInv, NEW listed \in [key : Keys, incarnation : Incarnations, ready : BOOLEAN],
         ~Overflows(listed)
  PROVE  LET E == Identity(listed)
             H == identity_history
         IN  /\ E \in Identities /\ E.present /\ E.incarnation = listed.incarnation
             /\ listed.key \notin DOMAIN H => E.id = next_entity_id /\ E.id < MaxCount
             /\ listed.key \in DOMAIN H =>
                  /\ E.id = H[listed.key].id
                  /\ E.generation = IF SameIncarnation(listed) THEN H[listed.key].generation
                                    ELSE H[listed.key].generation + 1
<1>1. CASE listed.key \notin DOMAIN identity_history
  BY <1>1, CatalogAssumption DEF Identity, Overflows, Identities, CatalogInv, CatalogType
<1>2. CASE listed.key \in DOMAIN identity_history
  <2>1. identity_history[listed.key] \in Identities
    BY <1>2, Zenon DEF CatalogInv, CatalogType
  <2>2. /\ SameIncarnation(listed) \in BOOLEAN
        /\ ~SameIncarnation(listed) => identity_history[listed.key].generation # MaxCount
    BY <1>2, Zenon DEF Overflows, SameIncarnation
  <2> DEFINE h == identity_history[listed.key]
             G == IF SameIncarnation(listed) THEN h.generation ELSE h.generation + 1
  <2>3. Identity(listed) = [h EXCEPT !.generation = G, !.incarnation = listed.incarnation,
                                     !.present = TRUE]
    BY <1>2, <2>1, Zenon DEF Identity, Identities
  <2>4. G \in 1..MaxCount
    BY <2>1, <2>2, CatalogAssumption DEF Identities
  <2> HIDE DEF G
  <2>5. /\ Identity(listed) \in Identities
        /\ Identity(listed).present = TRUE /\ Identity(listed).incarnation = listed.incarnation
        /\ Identity(listed).id = h.id /\ Identity(listed).generation = G
    BY <2>1, <2>3, <2>4, Zenon DEF Identities
  <2> QED  BY <1>2, <2>5, Zenon DEF G
<1> QED  BY <1>1, <1>2, Zenon

(* commit with one device.                                                  *)
WithDevice(listed) ==
  /\ ~Overflows(listed)
  /\ identity_history' = [k \in DOMAIN identity_history \cup {listed.key} |->
                            IF k = listed.key THEN Identity(listed) ELSE Absent[k]]
  /\ next_entity_id' = IF listed.key \in DOMAIN identity_history
                       THEN next_entity_id ELSE next_entity_id + 1
  /\ {e.ref : e \in view'.entities} = {Ref(Identity(listed))}
  /\ published' = Append(published, {[ref |-> Ref(Identity(listed)), key |-> listed.key,
                                      incarnation |-> listed.incarnation]})

LEMMA DeviceStep ==
  ASSUME CatalogInv, LastView < MaxCount, LastView' = LastView + 1,
         NEW listed \in [key : Keys, incarnation : Incarnations, ready : BOOLEAN],
         WithDevice(listed)
  PROVE  CatalogInv'
<1> USE DEF WithDevice
<1> DEFINE H == identity_history
           E == Identity(listed)
           key == listed.key
<1>1. /\ E \in Identities /\ E.present = TRUE /\ E.incarnation = listed.incarnation
      /\ key \notin DOMAIN H => E.id = next_entity_id /\ E.id < MaxCount
      /\ key \in DOMAIN H =>
           /\ E.id = H[key].id
           /\ E.generation = IF SameIncarnation(listed) THEN H[key].generation
                             ELSE H[key].generation + 1
  BY IdentityIs, Zenon DEF Identities
<1>2. /\ DOMAIN identity_history' = DOMAIN H \cup {key} /\ identity_history'[key] = E
      /\ \A k \in DOMAIN H \ {key} :
           /\ identity_history'[k] \in Identities /\ identity_history'[k].id = H[k].id
           /\ identity_history'[k].generation = H[k].generation
           /\ identity_history'[k].present = FALSE
  <2>1. \A k \in DOMAIN H : /\ Absent[k] \in Identities /\ Absent[k].id = H[k].id
                            /\ Absent[k].generation = H[k].generation
                            /\ Absent[k].present = FALSE
    BY Zenon DEF Absent, CatalogInv, CatalogType, Identities
  <2> QED  BY <2>1, Zenon
<1>3. PICK new \in Shown : /\ new.ref = Ref(E) /\ new.key = key
                           /\ new.incarnation = listed.incarnation
                           /\ published' = Append(published, {new})
                           /\ new.ref.id = E.id /\ new.ref.generation = E.generation
  <2> DEFINE n == [ref |-> Ref(E), key |-> key, incarnation |-> listed.incarnation]
  <2>1. Ref(E) \in References /\ Ref(E).id = E.id /\ Ref(E).generation = E.generation
    BY <1>1, Zenon DEF Ref, Identities, References
  <2>2. n \in Shown /\ n.ref = Ref(E) /\ n.key = key /\ n.incarnation = listed.incarnation
    BY <2>1, Zenon DEF Shown
  <2> QED  BY <2>1, <2>2, Zenon
<1>4. /\ published' \in Seq(SUBSET Shown) /\ Len(published') = LastView'
      /\ \A i \in 1..LastView : published'[i] = published[i]
      /\ published'[LastView'] = {new} /\ LastView \in Nat
  BY <1>3, ViewAdded DEF CatalogInv
<1> HIDE DEF E
<1>5. CatalogType'
  <2>1. identity_history' \in [DOMAIN identity_history' -> Identities]
    BY <1>1, <1>2, Zenon
  <2>2. LastView' \in 0..MaxCount /\ next_entity_id' \in 0..MaxCount
    BY <1>1, <1>4, CatalogAssumption DEF CatalogInv, CatalogType
  <2>3. DOMAIN identity_history' \subseteq Keys
    BY <1>2, Zenon DEF CatalogInv, CatalogType
  <2> QED  BY <1>4, <2>1, <2>2, <2>3, Zenon DEF CatalogType, LastView
<1>6. IdsInv'
  <2>1. next_entity_id \in Nat /\ \A k \in DOMAIN H : H[k].id \in Nat /\ H[k].id < next_entity_id
    BY DEF CatalogInv, CatalogType, IdsInv, Identities
  <2>2. CASE key \in DOMAIN H
    BY <1>1, <1>2, <2>2 DEF CatalogInv, IdsInv
  <2>3. CASE key \notin DOMAIN H
    BY <1>1, <1>2, <2>1, <2>3, SMTT(30) DEF CatalogInv, IdsInv
  <2> QED  BY <2>2, <2>3, Zenon
<1>7. PresentInv'
  <2>1. LastView' # 0
    BY <1>4
  <2>2. {e.ref : e \in view'.entities} = {b.ref : b \in published'[LastView']}
    BY <1>3, <1>4, Zenon DEF E
  <2>3. new.ref = Ref(identity_history'[new.key])
    BY <1>2, <1>3, Zenon
  <2>4. \A k \in DOMAIN identity_history' :
          identity_history'[k].present => \E b \in published'[LastView'] : b.key = k
    BY <1>2, <1>3, <1>4
  <2>5. new.key \in DOMAIN identity_history' /\ identity_history'[new.key].present
        /\ new.incarnation = identity_history'[new.key].incarnation
    BY <1>1, <1>2, <1>3, Zenon
  <2> QED  BY <1>4, <2>1, <2>2, <2>3, <2>4, <2>5, Zenon DEF PresentInv, Ref
<1>8. HistoryInv'
  <2> SUFFICES ASSUME NEW g \in 1..LastView', NEW a \in published'[g]
               PROVE  /\ a.key \in DOMAIN identity_history'
                      /\ a.ref.id = identity_history'[a.key].id
                      /\ a.ref.generation <= identity_history'[a.key].generation
                      /\ Lasting(g, LastView, a)' <=>
                           /\ identity_history'[a.key].present
                           /\ a.ref.generation = identity_history'[a.key].generation
    BY Zenon DEF HistoryInv
  <2>1. CASE g = LastView'
    <3>1. a = new
      BY <1>4, <2>1, Zenon
    <3>2. Lasting(g, LastView, a)'
      BY <1>4, <2>1, <3>1 DEF Lasting
    <3>3. E.generation \in Nat
      BY <1>1 DEF Identities
    <3> QED  BY <1>1, <1>2, <1>3, <3>1, <3>2, <3>3, SMTT(30)
  <2>2. CASE g \in 1..LastView
    <3>1. /\ a \in published[g] /\ a.key \in DOMAIN H /\ a.ref.id = H[a.key].id
          /\ a.ref.generation <= H[a.key].generation
          /\ Lasting(g, LastView, a) <=> H[a.key].present /\ a.ref.generation = H[a.key].generation
      BY <1>4, <2>2 DEF CatalogInv, HistoryInv
    <3>2. Lasting(g, LastView, a)' <=>
            Lasting(g, LastView, a) /\ key = a.key /\ listed.incarnation = a.incarnation
      <4>1. Lasting(g, LastView, a)' <=>
              /\ Lasting(g, LastView, a)
              /\ \E b \in {new} : b.key = a.key /\ b.incarnation = a.incarnation
        <5>1. CatalogType /\ {new} \in SUBSET Shown /\ published' = Append(published, {new})
          BY <1>3, Zenon DEF CatalogInv
        <5> QED  BY <2>2, <5>1, LastingAdded, Zenon
      <4> QED  BY <1>3, <4>1, Zenon
    <3>3. CASE a.key # key
      BY <1>2, <3>1, <3>2, <3>3, Zenon
    <3>4. CASE a.key = key
      <4>1. a.ref.generation \in Nat /\ H[key].generation \in Nat
        <5>1. H[key] \in Identities /\ a \in Shown
          BY <1>4, <2>2, <3>1, <3>4 DEF CatalogInv, CatalogType
        <5> QED  BY <5>1, SMTT(30) DEF Identities, Shown, References
      <4>2. Lasting(g, LastView, a) => a.incarnation = H[key].incarnation
        <5>1. LastView \in g..LastView /\ LastView # 0
          BY <1>4, <2>2, SMTT(30)
        <5>2. Lasting(g, LastView, a) => \E b \in published[LastView] :
                                       b.key = a.key /\ b.incarnation = a.incarnation
          BY <5>1, Zenon DEF Lasting
        <5> QED  BY <3>4, <5>1, <5>2 DEF CatalogInv, PresentInv
      <4>3. CASE SameIncarnation(listed)
        <5>1. H[key].present /\ H[key].incarnation = listed.incarnation
          BY <4>3, Zenon DEF SameIncarnation
        <5>2. E.generation = H[key].generation /\ E.id = H[key].id
          BY <1>1, <3>1, <3>4, <4>3, Zenon
        <5>3. Lasting(g, LastView, a)' <=> Lasting(g, LastView, a)
          BY <3>2, <3>4, <4>2, <5>1, Zenon
        <5> QED  BY <1>1, <1>2, <3>1, <3>4, <5>1, <5>2, <5>3
      <4>4. CASE ~SameIncarnation(listed)
        <5>1. E.generation = H[key].generation + 1 /\ E.id = H[key].id
          BY <1>1, <3>1, <3>4, <4>4, Zenon
        <5>2. ~Lasting(g, LastView, a)'
          BY <3>1, <3>2, <3>4, <4>2, <4>4, Zenon DEF SameIncarnation
        <5>3. a.ref.generation < E.generation
          BY <3>1, <3>4, <4>1, <5>1
        <5> QED  BY <1>2, <3>1, <3>4, <4>1, <5>1, <5>2, <5>3, SMTT(30)
      <4> QED  BY <4>3, <4>4, Zenon
    <3> QED  BY <3>3, <3>4, Zenon
  <2> QED  BY <1>4, <2>1, <2>2
<1>9. PairsInv'
  <2>1. {new} \in SUBSET Shown /\ published' = Append(published, {new})
    BY <1>3, Zenon
  <2> QED  BY <1>5, <1>6, <1>7, <1>8, <2>1, PairsAdded, Zenon
<1> QED  BY <1>5, <1>6, <1>7, <1>8, <1>9, Zenon DEF CatalogInv

LEMMA CommitStep ==
  ASSUME CatalogInv, NEW d \in Descriptors, Commit(d)
  PROVE  CatalogInv'
<1>1. LastView < MaxCount /\ LastView' = LastView + 1
  BY CatalogAssumption DEF Commit, Acceptable, CatalogInv, CatalogType, LastView
<1>2. CASE d.detected # 1
  BY <1>1, <1>2, NoDeviceStep DEF Commit
<1>3. CASE d.detected = 1
  <2> DEFINE listed == d.devices[1]
  <2>1. listed \in [key : Keys, incarnation : Incarnations, ready : BOOLEAN]
    <3>1. /\ d.devices \in Seq([key : Keys \cup {NoKey}, incarnation : Incarnations,
                                ready : BOOLEAN])
          /\ Len(d.devices) = 1 /\ listed.key # NoKey
      BY <1>3, CatalogAssumption, Zenon DEF Descriptor, Commit, Acceptable
    <3>2. listed \in [key : Keys \cup {NoKey}, incarnation : Incarnations, ready : BOOLEAN]
      <4> DEFINE D == [key : Keys \cup {NoKey}, incarnation : Incarnations, ready : BOOLEAN]
      <4>1. d.devices \in Seq(D) /\ 1 \in 1..Len(d.devices)
        BY <3>1
      <4> HIDE DEF D
      <4>2. listed \in D
        BY <4>1
      <4> QED  BY <4>2, Zenon DEF D
    <3> QED  BY <3>1, <3>2, Zenon
  <2>2. {e.ref : e \in view'.entities} = {Ref(Identity(listed))}
    <3>1. view'.entities = {[ref |-> Ref(Identity(listed)), partial |-> ~listed.ready]}
      BY <1>3 DEF Commit
    <3> QED  BY <3>1
  <2>3. WithDevice(listed)
    BY <1>3, <2>2, Zenon DEF Commit, WithDevice
  <2> QED  BY <1>1, <2>1, <2>3, DeviceStep, Zenon
<1> QED  BY <1>2, <1>3, Zenon

LEMMA CatalogStutters ==
  ASSUME CatalogInv, UNCHANGED catalogVars
  PROVE  CatalogInv'
<1>1. UNCHANGED <<view, identity_history, next_entity_id, published, LastView>>
  BY Zenon DEF catalogVars, LastView
<1>2. CatalogType' /\ IdsInv'
  BY <1>1, Zenon DEF CatalogInv, CatalogType, IdsInv
<1>3. PresentInv'
  BY <1>1, Zenon DEF CatalogInv, PresentInv, Ref
<1>4. ASSUME NEW g, NEW h, NEW a
      PROVE  Lasting(g, h, a)' <=> Lasting(g, h, a)
  BY <1>1, Zenon DEF Lasting
<1>5. HistoryInv'
  <2> SUFFICES ASSUME NEW g \in 1..LastView, NEW a \in published[g]
               PROVE  /\ a.key \in DOMAIN identity_history
                      /\ a.ref.id = identity_history[a.key].id
                      /\ a.ref.generation <= identity_history[a.key].generation
                      /\ Lasting(g, LastView, a)' <=>
                           /\ identity_history[a.key].present
                           /\ a.ref.generation = identity_history[a.key].generation
    BY <1>1, Zenon DEF HistoryInv
  <2>1. Lasting(g, LastView, a)' <=> Lasting(g, LastView, a)
    BY <1>1, Zenon DEF Lasting
  <2> QED  BY <2>1, Zenon DEF CatalogInv, HistoryInv
<1>6. PairsInv'
  <2>1. ASSUME NEW g, NEW h
        PROVE  Apart(g, h)' <=> Apart(g, h)
    BY <1>1, <1>4, ZenonT(60) DEF Apart
  <2> QED  BY <1>1, <2>1, Zenon DEF CatalogInv, PairsInv
<1> QED  BY <1>2, <1>3, <1>5, <1>6, Zenon DEF CatalogInv

(* What the views say of the last one, which resolves the references.       *)
LEMMA RefsAreExact == CatalogInv => EntityRefExact
<1> SUFFICES ASSUME CatalogInv  PROVE EntityRefExact
  BY Zenon
<1>1. /\ DOMAIN published = 1..LastView /\ Len(published) = view.generation
      /\ LastView = view.generation /\ LastView \in Nat
  BY DEF CatalogInv, CatalogType, LastView
<1>2. ASSUME NEW g \in 1..LastView, NEW a \in published[g]
      PROVE  Resolve(view, a.ref) = "success" <=> Lasting(g, LastView, a)
  <2>1. Resolve(view, a.ref) = "success" <=> \E e \in view.entities : e.ref = a.ref
    BY Zenon DEF Resolve
  <2>2. (\E e \in view.entities : e.ref = a.ref) <=> a.ref \in {b.ref : b \in published[LastView]}
    <3>1. {e.ref : e \in view.entities} = {b.ref : b \in published[LastView]}
      BY <1>1, <1>2 DEF CatalogInv, PresentInv
    <3> QED  BY <3>1, Zenon
  <2>3. CASE g = LastView
    <3>1. Lasting(g, LastView, a)
      BY <1>1, <2>3 DEF Lasting
    <3> QED  BY <2>1, <2>2, <2>3, <3>1, Zenon
  <2>4. CASE g < LastView
    <3>1. \A b \in published[LastView] : a.ref = b.ref <=> Lasting(g, LastView, a)
      BY <1>1, <1>2, <2>4 DEF CatalogInv, PairsInv, Apart
    <3>2. Lasting(g, LastView, a) => \E b \in published[LastView] : TRUE
      BY <1>1, <1>2 DEF Lasting
    <3> QED  BY <2>1, <2>2, <3>1, <3>2, Zenon
  <2> QED  BY <1>1, <2>3, <2>4
<1>3. \A g \in DOMAIN published, h \in DOMAIN published : g < h => Apart(g, h)
  BY <1>1, Zenon DEF CatalogInv, PairsInv
<1> QED  BY <1>1, <1>2, <1>3 DEF EntityRefExact, Apart, Lasting

(* Two views of the catalog give a device the same reference exactly when   *)
(* it stayed, in one incarnation, in every view between them, and the last  *)
(* view resolves the references accordingly (commit, resolve).              *)
THEOREM EntityRefExactCorrect == CatalogSpec => []EntityRefExact
<1>1. CatalogInv /\ [\E d \in Descriptors : Commit(d)]_catalogVars => CatalogInv'
  BY CommitStep, CatalogStutters, Zenon
<1> QED  BY <1>1, CatalogInitial, RefsAreExact, PTL DEF CatalogSpec

-----------------------------------------------------------------------------
(* The catalog in the composed system *)

LoadInv == load \in Loads

LEMMA LoadStays == LoadInv /\ [Next]_allVars => LoadInv'
BY Zenon DEF LoadInv, allVars, Next, Tick, Restart, Discover, ActivateCatalog, ApplyWatchSnapshot,
       BatchRead, Normalize, CollectCommit, ScheduleLast, RunNext, RunCommit, Rebuild

(* Only Discover changes the catalog, and it commits a descriptor.          *)
LEMMA CatalogOnlyCommits ==
  ASSUME LoadInv, [Next]_allVars
  PROVE  [\E d \in Descriptors : Commit(d)]_catalogVars
<1>1. load.descriptors \subseteq Descriptors
  BY DerivationAssumption, Zenon DEF LoadInv
<1>2. ASSUME NEW d \in load.descriptors, Discover(d)
      PROVE  \E e \in Descriptors : Commit(e)
  BY <1>1, <1>2, SMTT(30) DEF Discover
<1>3. ASSUME UNCHANGED allVars
      PROVE  UNCHANGED catalogVars
  BY <1>3, Zenon DEF allVars
<1>4. ASSUME Next, ~\E d \in load.descriptors : Discover(d)
      PROVE  UNCHANGED catalogVars
  BY <1>4, Zenon DEF Next, Tick, Restart, ActivateCatalog, ApplyWatchSnapshot, BatchRead, Normalize,
              CollectCommit, ScheduleLast, RunNext, RunCommit, Rebuild
<1> QED  BY <1>2, <1>3, <1>4, Zenon

(* References to entities are exact in the composed system too, although    *)
(* the catalog changes while reads, tasks and rebuilds that carry them are  *)
(* under way (commit, resolve).                                             *)
THEOREM DerivationRefsExact == Spec => []EntityRefExact
<1>1. Init => LoadInv /\ CatalogInit
  BY Zenon DEF Init, LoadInv
<1>2. LoadInv /\ [Next]_allVars => [\E d \in Descriptors : Commit(d)]_catalogVars
  BY CatalogOnlyCommits, Zenon
<1>3. Spec => CatalogSpec
  BY <1>1, <1>2, LoadStays, PTL DEF Spec, CatalogSpec
<1> QED  BY <1>3, EntityRefExactCorrect, PTL

-----------------------------------------------------------------------------
(* Samples and deltas *)

(* A sequence without its first member.                                     *)
LEMMA TailOf ==
  ASSUME NEW S, NEW q \in Seq(S), q # <<>>, NEW t, t = Tail(q)
  PROVE  /\ t \in Seq(S) /\ Len(t) = Len(q) - 1 /\ Head(q) = q[1] /\ 1 \in 1..Len(q)
         /\ \A i \in 1..Len(t) : i + 1 \in 1..Len(q) /\ i + 1 # 1 /\ t[i] = q[i + 1]
         /\ \A i \in 1..Len(q) : i = 1 \/ \E j \in 1..Len(t) : i = j + 1
<1>1. /\ t \in Seq(S) /\ Len(t) = Len(q) - 1 /\ Head(q) = q[1] /\ 1 \in 1..Len(q)
      /\ \A i \in 1..Len(t) : i + 1 \in 1..Len(q) /\ i + 1 # 1 /\ t[i] = q[i + 1]
  OBVIOUS
<1>2. ASSUME NEW i \in 1..Len(q), i # 1  PROVE \E j \in 1..Len(t) : i = j + 1
  <2>1. i - 1 \in 1..Len(t) /\ i = (i - 1) + 1
    BY <1>1, <1>2
  <2> QED  BY <2>1, Zenon
<1> QED  BY <1>1, <1>2, Zenon

LEMMA InRange ==
  ASSUME NEW T, NEW q \in Seq(T), NEW x
  PROVE  x \in Range(q) <=> \E i \in 1..Len(q) : x = q[i]
<1>1. DOMAIN q = 1..Len(q)
  OBVIOUS
<1> QED  BY <1>1, Zenon DEF Range


(* What a view shows has references.                                        *)
ViewTyped == view.generation \in Nat /\ {e.ref : e \in view.entities} \subseteq References
(* The types of what is read, queued and derived.                           *)
Devices == [value : 0..(Modulus - 1), grown : Nat, restarts : Nat]
Plans == [generation : Nat, entity : References]
Samples == [entity : References, generation : Nat, status : {"valid", "error"}, value : Nat,
            time : Nat, counter_epoch : {0}, epoch : Nat, device : Devices]
DedupKeys == [entity : References, generation : Nat, inputs : SUBSET Nat]
Contexts == [entity : References, generation : Nat, time : Nat]
Tasks == [context : Contexts, items : Seq(Samples), key : DedupKeys, bytes : Nat]
Outputs == [status : {"valid", "not_available"}, value : Int]
Deltas == [entity : References, generation : Nat, status : {"valid", "not_available"}, value : Int,
           time : Nat, epoch : Nat, inputs : Seq(Samples)]

FlowType ==
  /\ now \in Nat /\ device \in Devices /\ epoch \in Nat
  /\ data.generation \in Nat /\ data.entities \subseteq References
  /\ counter.history \in Seq(Samples) /\ derived.history \in Seq(Deltas)
  /\ plan # None => plan \in Plans
  /\ \/ collector = Resting
     \/ collector \in [pc : {"normalize"}, plan : Plans, answer : Answers, read : Nat,
                       device : Devices]
     \/ collector \in [pc : {"commit"}, observation : Samples]

QueueType ==
  /\ queue \in Seq(Tasks) /\ recent \in Seq(DedupKeys) /\ queued_keys \subseteq DedupKeys
  /\ \/ runner = Resting
     \/ runner \in [pc : {"check", "remember"}, task : Tasks]
     \/ runner \in [pc : {"evaluated", "commit", "remember"}, task : Tasks, output : Outputs]

(* From a state of the device to another at most n units of time pass, and  *)
(* the counter grows from the one to the other, modulo Modulus, unless the  *)
(* device restarts in between.                                              *)
Within(a, b, n) ==
  /\ a.grown <= b.grown /\ b.grown - a.grown <= MaxRate * n
  /\ a.restarts <= b.restarts
  /\ a.restarts = b.restarts =>
       \E k \in Int : b.value - a.value = b.grown - a.grown + k * Modulus

(* The sample o was read and stamped before p was read.                     *)
Before(o, p) ==
  o.time <= p.time /\ Within(o.device, p.device, p.time - o.time + MaxDelay)

(* What is known of a sample, and of two that lie in a history.             *)
Sound(o) == o.status = "valid" /\ o.value = o.device.value
Ordered(o, p) == Before(o, p) /\ o.epoch < p.epoch

HistoryOk ==
  /\ \A i \in 1..Len(counter.history) :
       LET o == counter.history[i]
       IN  /\ Sound(o) /\ o.epoch \in 1..epoch
           /\ o.generation = data.generation /\ o.entity \in data.entities
           /\ o.time <= now /\ Within(o.device, device, now - o.time + MaxDelay)
  /\ \A i, j \in 1..Len(counter.history) :
       i < j => Ordered(counter.history[i], counter.history[j])

CollectorOk ==
  /\ collector.pc = "normalize" =>
       /\ collector.read <= now /\ now - collector.read <= MaxDelay
       /\ Within(collector.device, device, now - collector.read)
       /\ \A i \in 1..Len(counter.history) :
            LET o == counter.history[i]
            IN  /\ o.time <= collector.read
                /\ Within(o.device, collector.device, collector.read - o.time + MaxDelay)
  /\ collector.pc = "commit" =>
       LET p == collector.observation
       IN  /\ p.value = p.device.value
           /\ p.time <= now /\ Within(p.device, device, now - p.time + MaxDelay)
           /\ \A i \in 1..Len(counter.history) : Before(counter.history[i], p)

TaskOk(task) ==
  /\ Len(task.items) \in 1..2
  /\ \A i \in 1..Len(task.items) :
       /\ Sound(task.items[i])
       /\ task.items[i].generation = task.context.generation
       /\ task.items[i].entity = task.context.entity
  /\ Len(task.items) = 2 => Ordered(task.items[1], task.items[2])

TasksOk ==
  /\ \A i \in 1..Len(queue) : TaskOk(queue[i])
  /\ runner.pc # "idle" => TaskOk(runner.task)
  /\ runner.pc \in {"evaluated", "commit"} =>
       runner.output = Evaluate(runner.task.context, runner.task.items)

(* What DerivedExact says of a delta.                                       *)
DeltaOk(o) ==
  LET old == o.inputs[1]
      new == o.inputs[2]
  IN  /\ Len(o.inputs) = 2
      /\ \A i \in {old, new} : i.generation = o.generation /\ i.entity = o.entity
      /\ old.device.restarts = new.device.restarts =>
           o.value = new.device.grown - old.device.grown

DeltasOk ==
  \A i \in 1..Len(derived.history) :
    LET o == derived.history[i]
    IN  /\ o.generation = data.generation /\ o.entity \in data.entities
        /\ DeltaOk(o)

FlowInv == FlowType /\ QueueType /\ HistoryOk /\ CollectorOk /\ TasksOk /\ DeltasOk
-----------------------------------------------------------------------------
(* The growth of the counter *)

LEMMA Products ==
  ASSUME NEW r \in Nat, NEW n \in Int, NEW m \in Int, n <= m
  PROVE  r * n <= r * m /\ r * n \in Int /\ r * m \in Int
<1>1. PICK d \in Nat : m = n + d
  <2>1. m - n \in Nat
    OBVIOUS
  <2> QED  BY <2>1
<1>2. r * m = r * n + r * d /\ r * d \in Nat /\ r * n \in Int
  BY <1>1
<1> QED  BY <1>1, <1>2

LEMMA WithinSelf ==
  ASSUME NEW a \in Devices
  PROVE  Within(a, a, 0)
<1>1. 0 = 0 + 0 * Modulus /\ MaxRate * 0 = 0
  BY ProcessorAssumption, DerivationAssumption
<1> QED  BY <1>1 DEF Within, Devices

LEMMA WithinLonger ==
  ASSUME NEW a \in Devices, NEW b \in Devices, NEW n \in Int, NEW m \in Int, n <= m,
         Within(a, b, n)
  PROVE  Within(a, b, m)
<1>1. MaxRate * n <= MaxRate * m /\ MaxRate * n \in Int /\ MaxRate * m \in Int
  BY Products, DerivationAssumption, Zenon
<1> QED  BY <1>1 DEF Within, Devices

(* The remainder of a number differs from it by a multiple.                 *)
LEMMA Remainder ==
  ASSUME NEW x \in Nat, NEW m \in Nat, m > 0
  PROVE  x % m \in 0..(m - 1) /\ \E k \in Int : x % m = x + k * m
<1>1. x % m \in 0..(m - 1)
  OBVIOUS
<1>2. x \div m \in Int
  OBVIOUS
<1>3. x = (x \div m) * m + (x % m)
  OBVIOUS
<1>4. PICK q \in Int : q = x \div m
  BY <1>2, Zenon
<1>5. PICK k \in Int : k = -q
  OBVIOUS
<1>6. x % m = x + k * m
  BY <1>1, <1>3, <1>4, <1>5
<1> QED  BY <1>1, <1>6, Zenon

LEMMA WithinTick ==
  ASSUME NEW a \in Devices, NEW b \in Devices, NEW n \in Int, Within(a, b, n),
         NEW growth \in 0..MaxRate,
         NEW c, c = [b EXCEPT !.value = (@ + growth) % Modulus, !.grown = @ + growth]
  PROVE  c \in Devices /\ Within(a, c, n + 1)
<1>1. b.value \in Nat /\ b.grown \in Nat /\ growth \in Nat /\ Modulus \in Nat \ {0}
  BY ProcessorAssumption, DerivationAssumption DEF Devices
<1>2. PICK k \in Int : /\ (b.value + growth) % Modulus \in 0..(Modulus - 1)
                       /\ (b.value + growth) % Modulus = b.value + growth + k * Modulus
  <2>1. b.value + growth \in Nat /\ Modulus \in Nat /\ Modulus > 0
    BY <1>1
  <2> QED  BY <2>1, Remainder, Zenon
<1>y. PICK y \in Int : y = k * Modulus
  BY <1>1
<1>3. /\ c.value = b.value + growth + y /\ c.grown = b.grown + growth
      /\ c.restarts = b.restarts /\ c \in Devices
  <2>1. PICK v \in 0..(Modulus - 1) : v = (b.value + growth) % Modulus
    BY <1>2, Zenon
  <2>2. PICK g \in Nat : g = b.grown + growth
    BY <1>1
  <2>3. c = [b EXCEPT !.value = v, !.grown = g]
    BY <2>1, <2>2, Zenon
  <2>4. c.value = v /\ c.grown = g /\ c.restarts = b.restarts /\ c \in Devices
    BY <2>3, Zenon DEF Devices
  <2> QED  BY <1>2, <1>y, <2>1, <2>2, <2>4, Zenon
<1>4. a.grown \in Nat /\ a.value \in Nat
  BY DEF Devices
<1>5. MaxRate * (n + 1) = MaxRate * n + MaxRate /\ MaxRate * n \in Int
  BY DerivationAssumption
<1>6. a.grown <= c.grown /\ c.grown - a.grown <= MaxRate * (n + 1)
  BY <1>1, <1>3, <1>4, <1>5, DerivationAssumption DEF Within
<1>7. ASSUME a.restarts = c.restarts
      PROVE  \E l \in Int : c.value - a.value = c.grown - a.grown + l * Modulus
  <2>1. PICK l \in Int : b.value - a.value = b.grown - a.grown + l * Modulus
    BY <1>3, <1>7, Zenon DEF Within
  <2>2. PICK x \in Int : x = l * Modulus
    BY <1>1
  <2>3. (l + k) * Modulus = x + y /\ l + k \in Int
    BY <1>1, <1>y, <2>2
  <2>4. b.value - a.value = b.grown - a.grown + x
    BY <2>1, <2>2, Zenon
  <2>5. \A u, v, f, g \in Int :
          v - u = g - f + x => (v + growth + y) - u = (g + growth) - f + (x + y)
    BY <1>1
  <2>6. a.value \in Int /\ b.value \in Int /\ a.grown \in Int /\ b.grown \in Int
    BY <1>1, <1>4
  <2>7. (b.value + growth + y) - a.value = (b.grown + growth) - a.grown + (x + y)
    BY <2>4, <2>5, <2>6, SMTT(30)
  <2>8. c.value - a.value = c.grown - a.grown + (x + y)
    BY <1>3, <2>7, Zenon
  <2> QED  BY <2>3, <2>8, Zenon
<1> QED  BY <1>3, <1>6, <1>7, Zenon DEF Within

LEMMA WithinRestart ==
  ASSUME NEW a \in Devices, NEW b \in Devices, NEW n \in Int, Within(a, b, n),
         NEW c, c = [b EXCEPT !.value = 0, !.restarts = @ + 1]
  PROVE  c \in Devices /\ Within(a, c, n)
<1>1. a.restarts \in Nat /\ b.restarts \in Nat /\ Modulus \in Nat \ {0}
  BY ProcessorAssumption, Zenon DEF Devices
<1>2. c.grown = b.grown /\ c.restarts = b.restarts + 1 /\ c \in Devices
  <2>1. PICK r \in Nat : r = b.restarts + 1
    BY <1>1
  <2>2. c = [b EXCEPT !.value = 0, !.restarts = r] /\ 0 \in 0..(Modulus - 1)
    BY <1>1, <2>1
  <2> QED  BY <2>1, <2>2, Zenon DEF Devices
<1>3. a.grown <= c.grown /\ c.grown - a.grown <= MaxRate * n
  BY <1>2, Zenon DEF Within
<1>4. a.restarts <= c.restarts /\ a.restarts # c.restarts
  BY <1>1, <1>2 DEF Within
<1>5. Within(a, c, n)
  BY <1>3, <1>4, Zenon DEF Within
<1> QED  BY <1>2, <1>5, Zenon

(* Between two states that are near enough the value, taken as evaluate     *)
(* takes it, says how much the counter has grown.                           *)
LEMMA GrowthExact ==
  ASSUME NEW a \in Devices, NEW b \in Devices, NEW n \in Int, n <= MaximumGap + MaxDelay,
         Within(a, b, n), a.restarts = b.restarts
  PROVE  b.grown - a.grown = IF b.value >= a.value THEN b.value - a.value
                             ELSE (Modulus - a.value) + b.value
<1>1. PICK k \in Int : b.value - a.value = b.grown - a.grown + k * Modulus
  BY Zenon DEF Within
<1>2. PICK g \in Nat : g = b.grown - a.grown /\ g < Modulus
  <2>1. MaxRate * n <= MaxRate * (MaximumGap + MaxDelay)
    BY Products, ProcessorAssumption, DerivationAssumption
  <2>2. b.grown - a.grown \in Nat /\ b.grown - a.grown <= MaxRate * n /\ MaxRate * n \in Int
    BY DerivationAssumption DEF Within, Devices
  <2> QED  BY <2>1, <2>2, ProcessorAssumption, DerivationAssumption
<1>3. /\ a.value \in 0..(Modulus - 1) /\ b.value \in 0..(Modulus - 1) /\ Modulus \in Nat \ {0}
  BY ProcessorAssumption, Zenon DEF Devices
<1>4. PICK m \in Int : m = k * Modulus
  BY <1>3
<1>5. k >= 1 => m >= Modulus
  BY <1>3, <1>4, SMTT(30)
<1>6. k <= -2 => m <= -2 * Modulus
  BY <1>3, <1>4, SMTT(30)
<1>7. k = 0 => m = 0
  BY <1>3, <1>4
<1>8. k = -1 => m = -Modulus
  BY <1>3, <1>4
<1>9. k \in {-1, 0}
  BY <1>1, <1>2, <1>3, <1>4, <1>5, <1>6
<1> QED  BY <1>1, <1>2, <1>3, <1>4, <1>7, <1>8, <1>9

(* What evaluate makes of two samples of a history.                         *)
LEMMA EvaluatePair ==
  ASSUME NEW task \in Tasks, TaskOk(task), Len(task.items) = 2,
         NEW a, a = task.items[1], NEW b, b = task.items[2]
  PROVE  Evaluate(task.context, task.items) =
           IF ~Comparable(task.context, a, b) THEN Unavailable
           ELSE IF b.value >= a.value THEN [status |-> "valid", value |-> b.value - a.value]
           ELSE IF Wraps(a.value, b.value)
                THEN [status |-> "valid", value |-> (Modulus - a.value) + b.value]
           ELSE Unavailable
<1> DEFINE items == task.items
           IsOldest(o) == \A p \in Range(items) :
                            o.time < p.time \/ (o.time = p.time /\ o.epoch <= p.epoch)
           IsNewest(o) == \A p \in Range(items) :
                            o.time > p.time \/ (o.time = p.time /\ o.epoch >= p.epoch)
           oldest == CHOOSE o \in Range(items) : IsOldest(o)
           newest == CHOOSE o \in Range(items) : IsNewest(o)
<1>1. a \in Samples /\ b \in Samples /\ Range(items) = {a, b}
  <2>1. items \in Seq(Samples)
    BY Zenon DEF Tasks
  <2> QED  BY <2>1 DEF Range
<1>2. a.time \in Nat /\ b.time \in Nat /\ a.epoch \in Nat /\ b.epoch \in Nat
  BY <1>1, Zenon DEF Samples
<1>3. a.time <= b.time /\ a.epoch < b.epoch
  BY Zenon DEF TaskOk, Ordered, Before
<1>4. IsOldest(a) /\ ~IsOldest(b) /\ IsNewest(b) /\ ~IsNewest(a)
  BY <1>1, <1>2, <1>3
<1>5. oldest = a /\ newest = b
  <2> HIDE DEF IsOldest, IsNewest
  <2> QED  BY <1>1, <1>4, Zenon
<1>6. Evaluate(task.context, items) =
        IF Len(items) # 2 \/ ~Comparable(task.context, oldest, newest) THEN Unavailable
        ELSE IF newest.value >= oldest.value
             THEN [status |-> "valid", value |-> newest.value - oldest.value]
        ELSE IF Wraps(oldest.value, newest.value)
             THEN [status |-> "valid", value |-> (Modulus - oldest.value) + newest.value]
        ELSE Unavailable
  BY Zenon DEF Evaluate
<1> HIDE DEF oldest, newest
<1> QED  BY <1>5, <1>6, Zenon

LEMMA EvaluateType ==
  ASSUME NEW task \in Tasks, TaskOk(task)
  PROVE  Evaluate(task.context, task.items) \in Outputs
<1>1. Unavailable \in Outputs
  BY DEF Unavailable, Outputs
<1>2. CASE Len(task.items) # 2
  <2>1. Evaluate(task.context, task.items) = Unavailable
    BY <1>2, Zenon DEF Evaluate
  <2> QED  BY <1>1, <2>1, Zenon
<1>3. CASE Len(task.items) = 2
  <2>1. PICK a, b : a = task.items[1] /\ b = task.items[2]
    BY Zenon
  <2>2. a.value \in Int /\ b.value \in Int /\ Modulus \in Int
    <3>1. task.items \in Seq(Samples)
      BY Zenon DEF Tasks
    <3>2. a \in Samples /\ b \in Samples
      BY <1>3, <2>1, <3>1
    <3> QED  BY <3>2, ProcessorAssumption DEF Samples
  <2>3. PICK x \in Int, y \in Int : x = b.value - a.value /\ y = (Modulus - a.value) + b.value
    BY <2>2
  <2>4. /\ [status |-> "valid", value |-> x] \in Outputs
        /\ [status |-> "valid", value |-> y] \in Outputs
    BY Zenon DEF Outputs
  <2>5. Evaluate(task.context, task.items) \in {Unavailable, [status |-> "valid", value |-> x],
                                                [status |-> "valid", value |-> y]}
    BY <1>3, <2>1, <2>3, EvaluatePair, Zenon
  <2> QED  BY <1>1, <2>4, <2>5, Zenon
<1> QED  BY <1>2, <1>3, Zenon

(* A delta that evaluate finds is the growth of the device.                 *)
LEMMA EvaluateExact ==
  ASSUME NEW task \in Tasks, TaskOk(task),
         NEW output, output = Evaluate(task.context, task.items), output.status = "valid"
  PROVE  /\ Len(task.items) = 2
         /\ task.items[1].device.restarts = task.items[2].device.restarts =>
              output.value = task.items[2].device.grown - task.items[1].device.grown
<1>0. Unavailable.status # "valid"
  BY Zenon DEF Unavailable
<1>1. Len(task.items) = 2
  BY <1>0, Zenon DEF Evaluate
<1>2. PICK a, b : a = task.items[1] /\ b = task.items[2]
  BY Zenon
<1>3. output = IF ~Comparable(task.context, a, b) THEN Unavailable
               ELSE IF b.value >= a.value THEN [status |-> "valid", value |-> b.value - a.value]
               ELSE IF Wraps(a.value, b.value)
                    THEN [status |-> "valid", value |-> (Modulus - a.value) + b.value]
               ELSE Unavailable
  BY <1>1, <1>2, EvaluatePair, Zenon
<1>4. Comparable(task.context, a, b)
  BY <1>0, <1>3, Zenon
<1>5. output.value = IF b.value >= a.value THEN b.value - a.value
                     ELSE (Modulus - a.value) + b.value
  <2>1. CASE b.value >= a.value
    BY <1>3, <1>4, <2>1
  <2>2. CASE ~(b.value >= a.value)
    BY <1>0, <1>3, <1>4, <2>2
  <2> QED  BY <2>1, <2>2, Zenon
<1>6. Ordered(a, b) /\ a.value = a.device.value /\ b.value = b.device.value
  <2>1. 1 \in 1..2 /\ 2 \in 1..2
    OBVIOUS
  <2> QED  BY <1>1, <1>2, <2>1, Zenon DEF TaskOk, Sound
<1>7. a.time \in Nat /\ b.time \in Nat /\ a.device \in Devices /\ b.device \in Devices
  <2>1. task.items \in Seq(Samples)
    BY Zenon DEF Tasks
  <2>2. a \in Samples /\ b \in Samples
    BY <1>1, <1>2, <2>1
  <2> QED  BY <2>2, Zenon DEF Samples
<1>8. b.time - a.time <= MaximumGap
  BY <1>4, Zenon DEF Comparable, IntervalFits
<1>9. PICK n \in Int : n = b.time - a.time + MaxDelay /\ n <= MaximumGap + MaxDelay
  BY <1>7, <1>8, ProcessorAssumption, DerivationAssumption
<1>10. Within(a.device, b.device, n)
  BY <1>6, <1>9, Zenon DEF Ordered, Before
<1>11. ASSUME a.device.restarts = b.device.restarts
       PROVE  output.value = b.device.grown - a.device.grown
  <2>1. b.device.grown - a.device.grown = IF b.device.value >= a.device.value
                                          THEN b.device.value - a.device.value
                                          ELSE (Modulus - a.device.value) + b.device.value
    BY <1>7, <1>9, <1>10, <1>11, GrowthExact, Zenon
  <2> QED  BY <1>5, <1>6, <2>1, Zenon
<1> QED  BY <1>1, <1>2, <1>11, Zenon

(* What commit leaves of a history h: some of it, in order, and perhaps the *)
(* new observation behind it.                                               *)
Left(k, h, new, o) ==
  /\ \A i \in 1..Len(k) : (\E j \in 1..Len(h) : k[i] = h[j]) \/ (o.status = "valid" /\ k[i] = new)
  /\ \A i, l \in 1..Len(k) : i < l =>
       \E j \in 1..Len(h) :
         /\ k[i] = h[j]
         /\ \/ \E m \in 1..Len(h) : j < m /\ k[l] = h[m]
            \/ o.status = "valid" /\ k[l] = new

LEMMA LeftSame ==
  ASSUME NEW h, NEW new, NEW o
  PROVE  Left(h, h, new, o)
BY Zenon DEF Left

LEMMA LeftAdded ==
  ASSUME NEW S, NEW h \in Seq(S), NEW new \in S, NEW o, o.status = "valid",
         NEW k, k = Append(h, new) \/ k = Tail(Append(h, new))
  PROVE  k \in Seq(S) /\ Left(k, h, new, o)
<1> DEFINE longer == Append(h, new)
<1>1. PICK N \in Nat : N = Len(h)
  OBVIOUS
<1>2. /\ Len(longer) = N + 1 /\ longer \in Seq(S)
      /\ \A i \in 1..N : longer[i] = h[i]
      /\ longer[N + 1] = new
  BY <1>1
<1> HIDE DEF longer
<1>3. PICK d \in {0, 1} : /\ k \in Seq(S) /\ Len(k) = N + 1 - d
                          /\ \A i \in 1..(N + 1 - d) : k[i] = longer[i + d]
  <2>1. CASE k = Tail(longer)
    <3>1. /\ k \in Seq(S) /\ Len(k) = N + 1 - 1
          /\ \A i \in 1..(N + 1 - 1) : k[i] = longer[i + 1]
      BY <1>2, <2>1
    <3> QED  BY <3>1, Zenon
  <2>2. CASE k = longer
    BY <1>2, <2>2
  <2> QED  BY <2>1, <2>2, Zenon DEF longer
<1>4. ASSUME NEW i \in 1..Len(k)
      PROVE  \/ i + d \in 1..N /\ k[i] = h[i + d]
             \/ i + d = N + 1 /\ k[i] = new
  BY <1>2, <1>3
<1>5. ASSUME NEW i \in 1..Len(k), NEW l \in 1..Len(k), i < l
      PROVE  /\ i + d \in 1..N /\ k[i] = h[i + d]
             /\ \/ l + d \in 1..N /\ i + d < l + d /\ k[l] = h[l + d]
                \/ k[l] = new
  <2>1. i + d # N + 1 /\ i + d < l + d
    BY <1>3, <1>5
  <2> QED  BY <1>4, <2>1, Zenon
<1>6. \A i \in 1..Len(k) : (\E j \in 1..Len(h) : k[i] = h[j]) \/ k[i] = new
  BY <1>1, <1>4, Zenon
<1>7. \A i, l \in 1..Len(k) : i < l =>
        \E j \in 1..Len(h) : /\ k[i] = h[j]
                             /\ (\E m \in 1..Len(h) : j < m /\ k[l] = h[m]) \/ k[l] = new
  BY <1>1, <1>5, Zenon
<1> QED  BY <1>3, <1>6, <1>7, Zenon DEF Left

LEMMA StoredHistory ==
  ASSUME NEW S, NEW entry, entry.history \in Seq(S), NEW o,
         NEW new \in S, new = [o EXCEPT !.epoch = epoch + 1]
  PROVE  /\ Stored(entry, o).history \in Seq(S)
         /\ Left(Stored(entry, o).history, entry.history, new, o)
<1>1. PICK h \in Seq(S) : h = entry.history
  BY Zenon
<1>2. CASE o.status # "valid"
  <2>1. Stored(entry, o).history = h
    BY <1>1, <1>2, Zenon DEF Stored
  <2>2. h \in Seq(S) /\ Left(h, h, new, o)
    BY LeftSame, Zenon
  <2> QED  BY <1>1, <2>1, <2>2, Zenon
<1>3. CASE o.status = "valid"
  <2>1. PICK k : /\ k = Append(h, new) \/ k = Tail(Append(h, new))
                 /\ k = Stored(entry, o).history
    BY <1>1, <1>3, Zenon DEF Stored
  <2>2. k \in Seq(S) /\ Left(k, h, new, o)
    BY <1>3, <2>1, LeftAdded, Zenon
  <2> QED  BY <1>1, <2>1, <2>2, Zenon
<1> QED  BY <1>2, <1>3, Zenon

-----------------------------------------------------------------------------
(* FlowInv lasts *)

(* What leaves a part of the state alone keeps what is known of it.         *)
LEMMA Unaffected ==
  ASSUME FlowInv
  PROVE  /\ UNCHANGED <<now, device, dataVars, collectVars>> => FlowType'
         /\ UNCHANGED executorVars => QueueType' /\ TasksOk'
         /\ UNCHANGED <<now, device, data, epoch, counter>> => HistoryOk'
         /\ UNCHANGED <<now, device, counter, collector>> => CollectorOk'
         /\ UNCHANGED <<data, derived>> => DeltasOk'
<1>1. ASSUME UNCHANGED <<now, device, dataVars, collectVars>>  PROVE FlowType'
  BY <1>1, Zenon DEF FlowInv, FlowType, dataVars, collectVars
<1>2. ASSUME UNCHANGED executorVars  PROVE QueueType' /\ TasksOk'
  BY <1>2, Zenon DEF FlowInv, QueueType, TasksOk, executorVars
<1>3. ASSUME UNCHANGED <<now, device, data, epoch, counter>>  PROVE HistoryOk'
  BY <1>3, Zenon DEF FlowInv, HistoryOk
<1>4. ASSUME UNCHANGED <<now, device, counter, collector>>  PROVE CollectorOk'
  BY <1>4, Zenon DEF FlowInv, CollectorOk
<1>5. ASSUME UNCHANGED <<data, derived>>  PROVE DeltasOk'
  BY <1>5, Zenon DEF FlowInv, DeltasOk
<1> QED  BY <1>1, <1>2, <1>3, <1>4, <1>5, Zenon

(* What the samples of the history and of the collector are.                *)
LEMMA SampleTypes ==
  ASSUME FlowType
  PROVE  /\ \A i \in 1..Len(counter.history) :
              /\ counter.history[i] \in Samples
              /\ counter.history[i].time \in Nat /\ counter.history[i].epoch \in Nat
              /\ counter.history[i].device \in Devices
         /\ collector.pc = "normalize" => collector.read \in Nat /\ collector.device \in Devices
         /\ collector.pc = "commit" =>
              /\ collector.observation \in Samples
              /\ collector.observation.time \in Nat /\ collector.observation.device \in Devices
<1>1. \A i \in 1..Len(counter.history) : counter.history[i] \in Samples
  BY DEF FlowType
<1>2. collector.pc = "commit" => collector.observation \in Samples
  BY DEF FlowType, Resting
<1>3. collector.pc = "normalize" => collector.read \in Nat /\ collector.device \in Devices
  BY DEF FlowType, Resting
<1> QED  BY <1>1, <1>2, <1>3, Zenon DEF Samples

(* Time passes or the device restarts.                                      *)
LEMMA TimeStep ==
  ASSUME FlowInv, Restart \/ \E growth \in 0..MaxRate : Tick(growth)
  PROVE  FlowInv'
<1>0. FlowType /\ MaxDelay \in Nat /\ now \in Nat /\ device \in Devices
  BY DerivationAssumption, Zenon DEF FlowInv, FlowType
<1>1. PICK e \in {0, 1} :
        /\ now' = now + e /\ device' \in Devices
        /\ \A a \in Devices, n \in Int : Within(a, device, n) => Within(a, device', n + e)
        /\ e = 1 /\ collector.pc = "normalize" => now - collector.read < MaxDelay
  <2>0. Within(device, device, 0) /\ 0 \in Int
    BY <1>0, WithinSelf
  <2>1. CASE Restart
    <3>1. now' = now /\ device' = [device EXCEPT !.value = 0, !.restarts = @ + 1]
      BY <2>1, Zenon DEF Restart
    <3>2. device' \in Devices
      BY <1>0, <2>0, <3>1, WithinRestart, Zenon
    <3>3. ASSUME NEW a \in Devices, NEW n \in Int, Within(a, device, n)
          PROVE  Within(a, device', n + 0)
      <4>1. n + 0 = n
        OBVIOUS
      <4> QED  BY <1>0, <3>1, <3>3, <4>1, WithinRestart, Zenon
    <3>4. now' = now + 0 /\ ~(0 = 1)
      BY <1>0, <3>1
    <3> QED  BY <3>2, <3>3, <3>4, Zenon
  <2>2. CASE \E growth \in 0..MaxRate : Tick(growth)
    <3>1. PICK growth \in 0..MaxRate :
            /\ now' = now + 1
            /\ device' = [device EXCEPT !.value = (@ + growth) % Modulus, !.grown = @ + growth]
            /\ collector.pc = "normalize" => now - collector.read < MaxDelay
      BY <2>2, Zenon DEF Tick
    <3>2. device' \in Devices
      BY <1>0, <2>0, <3>1, WithinTick, Zenon
    <3>3. ASSUME NEW a \in Devices, NEW n \in Int, Within(a, device, n)
          PROVE  Within(a, device', n + 1)
      BY <1>0, <3>1, <3>3, WithinTick, Zenon
    <3> QED  BY <3>1, <3>2, <3>3, Zenon
  <2> QED  BY <2>1, <2>2, Zenon
<1>2. UNCHANGED <<dataVars, collectVars, executorVars>>
  BY Zenon DEF Restart, Tick, taskVars
<1>3. now' \in Nat /\ now <= now'
  BY <1>0, <1>1
<1>4. FlowType'
  BY <1>1, <1>2, <1>3, Zenon DEF FlowInv, FlowType, dataVars, collectVars
<1>5. ASSUME NEW a \in Devices, NEW t \in Int, Within(a, device, now - t + MaxDelay)
      PROVE  Within(a, device', now' - t + MaxDelay)
  <2>1. now - t + MaxDelay \in Int /\ now' - t + MaxDelay = (now - t + MaxDelay) + e
    BY <1>0, <1>1
  <2> QED  BY <1>1, <1>5, <2>1, Zenon
<1>6. HistoryOk'
  <2>1. counter' = counter /\ data' = data /\ epoch' = epoch
    BY <1>2, Zenon DEF dataVars
  <2>2. ASSUME NEW i \in 1..Len(counter.history)
        PROVE  LET o == counter.history[i]
               IN  o.time <= now' /\ Within(o.device, device', now' - o.time + MaxDelay)
    <3> DEFINE o == counter.history[i]
    <3>1. o.time \in Nat /\ o.device \in Devices
      BY <1>0, SampleTypes, Zenon
    <3>2. o.time <= now /\ Within(o.device, device, now - o.time + MaxDelay)
      BY Zenon DEF FlowInv, HistoryOk
    <3> HIDE DEF o
    <3>3. o.time <= now' /\ o.time \in Int
      BY <1>0, <1>3, <3>1, <3>2
    <3>4. Within(o.device, device', now' - o.time + MaxDelay)
      BY <1>5, <3>1, <3>2, <3>3, Zenon
    <3> QED  BY <3>3, <3>4, Zenon DEF o
  <2> QED  BY <2>1, <2>2, Zenon DEF FlowInv, HistoryOk
<1>7. CollectorOk'
  <2>1. counter' = counter /\ collector' = collector
    BY <1>2, Zenon DEF dataVars, collectVars
  <2>2. ASSUME collector.pc = "normalize"
        PROVE  /\ collector.read <= now' /\ now' - collector.read <= MaxDelay
               /\ Within(collector.device, device', now' - collector.read)
    <3> DEFINE r == collector.read
    <3>1. r \in Nat /\ collector.device \in Devices
      BY <1>0, <2>2, SampleTypes, Zenon
    <3>2. r <= now /\ now - r <= MaxDelay /\ Within(collector.device, device, now - r)
      BY <2>2, Zenon DEF FlowInv, CollectorOk
    <3>3. e = 1 => now - r < MaxDelay
      BY <1>1, <2>2, Zenon
    <3> HIDE DEF r
    <3>4. r <= now' /\ now' - r <= MaxDelay /\ now - r \in Int /\ now' - r = (now - r) + e
      BY <1>0, <1>1, <3>1, <3>2, <3>3
    <3>5. Within(collector.device, device', now' - r)
      BY <1>1, <3>1, <3>2, <3>4, Zenon
    <3> QED  BY <3>4, <3>5, Zenon DEF r
  <2>3. ASSUME collector.pc = "commit"
        PROVE  LET o == collector.observation
               IN  o.time <= now' /\ Within(o.device, device', now' - o.time + MaxDelay)
    <3> DEFINE o == collector.observation
    <3>1. o.time \in Nat /\ o.device \in Devices
      BY <1>0, <2>3, SampleTypes, Zenon
    <3>2. o.time <= now /\ Within(o.device, device, now - o.time + MaxDelay)
      BY <2>3, Zenon DEF FlowInv, CollectorOk
    <3> HIDE DEF o
    <3>3. o.time <= now' /\ o.time \in Int
      BY <1>0, <1>3, <3>1, <3>2
    <3>4. Within(o.device, device', now' - o.time + MaxDelay)
      BY <1>5, <3>1, <3>2, <3>3, Zenon
    <3> QED  BY <3>3, <3>4, Zenon DEF o
  <2> QED  BY <2>1, <2>2, <2>3, Zenon DEF FlowInv, CollectorOk
<1> QED  BY <1>2, <1>4, <1>6, <1>7, Unaffected, Zenon DEF FlowInv, dataVars

LEMMA ActivateStep == FlowInv /\ ViewTyped /\ ActivateCatalog => FlowInv'
<1> SUFFICES ASSUME FlowInv, ViewTyped, ActivateCatalog  PROVE FlowInv'
  BY Zenon
<1>1. /\ data'.generation = view.generation
      /\ data'.entities = {e.ref : e \in view.entities}
      /\ counter'.history = <<>> /\ derived'.history = <<>>
      /\ UNCHANGED <<now, device, epoch, collectVars, executorVars>>
  BY Zenon DEF ActivateCatalog, NoEntry, taskVars
<1>2. <<>> \in Seq(Samples) /\ <<>> \in Seq(Deltas) /\ 1..Len(<<>>) = {}
  OBVIOUS
<1>3. FlowType'
  BY <1>1, <1>2, Zenon DEF FlowInv, FlowType, ViewTyped, collectVars
<1>4. HistoryOk' /\ DeltasOk'
  BY <1>1, <1>2, Zenon DEF HistoryOk, DeltasOk
<1>5. CollectorOk'
  BY <1>1, <1>2, Zenon DEF FlowInv, CollectorOk, collectVars
<1> QED  BY <1>1, <1>3, <1>4, <1>5, Unaffected, Zenon DEF FlowInv

LEMMA ApplyStep == FlowInv /\ ApplyWatchSnapshot => FlowInv'
<1> SUFFICES ASSUME FlowInv, ApplyWatchSnapshot  PROVE FlowInv'
  BY Zenon
<1>1. /\ UNCHANGED <<now, device, dataVars, collector, executorVars>>
      /\ \E ref \in data.entities : plan' = [generation |-> data.generation, entity |-> ref]
  BY Zenon DEF ApplyWatchSnapshot, taskVars
<1>2. plan' \in Plans
  BY <1>1 DEF FlowInv, FlowType, Plans
<1>3. FlowType'
  BY <1>1, <1>2, Zenon DEF FlowInv, FlowType, dataVars
<1> QED  BY <1>1, <1>3, Unaffected, Zenon DEF FlowInv, dataVars

LEMMA ReadStep ==
  ASSUME FlowInv, LoadInv, NEW answer \in load.answers, BatchRead(answer)
  PROVE  FlowInv'
<1>1. /\ UNCHANGED <<now, device, dataVars, plan, executorVars>>
      /\ plan # None
      /\ collector' = [pc |-> "normalize", plan |-> plan, answer |-> answer, read |-> now,
                       device |-> device]
  BY Zenon DEF BatchRead, taskVars
<1>2. /\ answer \in Answers /\ plan \in Plans /\ now \in Nat /\ device \in Devices
      /\ MaxDelay \in Nat
  BY <1>1, DerivationAssumption, Zenon DEF LoadInv, FlowInv, FlowType
<1>3. collector' \in [pc : {"normalize"}, plan : Plans, answer : Answers, read : Nat,
                      device : Devices]
  BY <1>1, <1>2, Zenon
<1>4. FlowType'
  BY <1>1, <1>3, Zenon DEF FlowInv, FlowType, dataVars
<1>5. now <= now /\ now - now = 0 /\ 0 <= MaxDelay
  BY <1>2
<1>6. CollectorOk'
  <2>1. /\ collector'.pc = "normalize" /\ collector'.read = now /\ collector'.device = device
        /\ "normalize" # "commit"
    BY <1>1, Zenon
  <2>2. Within(device, device, now - now)
    BY <1>2, <1>5, WithinSelf, Zenon
  <2>3. counter' = counter /\ now' = now /\ device' = device
    BY <1>1, Zenon DEF dataVars
  <2>4. \A i \in 1..Len(counter.history) :
          /\ counter.history[i].time <= now
          /\ Within(counter.history[i].device, device, now - counter.history[i].time + MaxDelay)
    BY Zenon DEF FlowInv, HistoryOk
  <2> QED  BY <1>5, <2>1, <2>2, <2>3, <2>4, Zenon DEF CollectorOk
<1> QED  BY <1>1, <1>4, <1>6, Unaffected, Zenon DEF FlowInv, dataVars

LEMMA NormalizeStep == FlowInv /\ Normalize => FlowInv'
<1> SUFFICES ASSUME FlowInv, Normalize  PROVE FlowInv'
  BY Zenon
<1> DEFINE c == collector
<1>1. c.pc = "normalize" /\ UNCHANGED <<now, device, dataVars, plan, executorVars>>
  BY Zenon DEF Normalize, taskVars
<1>2. CASE collector' = Resting
  <2>1. FlowType'
    BY <1>1, <1>2, Zenon DEF FlowInv, FlowType, dataVars
  <2>2. CollectorOk'
    <3>1. collector'.pc = "idle"
      BY <1>2, Zenon DEF Resting
    <3>2. collector'.pc # "normalize" /\ collector'.pc # "commit"
      BY <3>1
    <3> QED  BY <3>2, Zenon DEF CollectorOk
  <2> QED  BY <1>1, <2>1, <2>2, Unaffected, Zenon DEF FlowInv, dataVars
<1>3. CASE collector' # Resting
  <2> DEFINE status == Normalized(c.answer)
             o == [entity |-> c.plan.entity, generation |-> c.plan.generation,
                   status |-> status, value |-> c.device.value,
                   time |-> now, counter_epoch |-> 0, epoch |-> 0, device |-> c.device]
  <2>0. collector' = [pc |-> "commit", observation |-> o]
    BY <1>3, Zenon DEF Normalize
  <2>1. status \in {"valid", "error"}
    <3>1. c.answer \in Answers
      BY <1>1 DEF FlowInv, FlowType, Resting
    <3>2. status \in {"valid", "error", "dropped"}
      BY <3>1, Zenon DEF Answers, Normalized
    <3>3. status # "dropped"
      BY <1>3, Zenon DEF Normalize
    <3> HIDE DEF status
    <3> QED  BY <3>2, <3>3, Zenon
  <2> HIDE DEF status
  <2>2. /\ c.plan.entity \in References /\ c.plan.generation \in Nat /\ c.device \in Devices
        /\ c.device.value \in Nat /\ c.read \in Nat /\ now \in Nat /\ MaxDelay \in Nat
        /\ device \in Devices
    <3>1. c.plan \in Plans /\ c.device \in Devices /\ c.read \in Nat /\ now \in Nat
          /\ device \in Devices
      BY <1>1 DEF FlowInv, FlowType, Resting
    <3> QED  BY <3>1, ProcessorAssumption, DerivationAssumption DEF Plans, Devices
  <2>3. /\ o \in Samples
        /\ o.time = now /\ o.device = c.device /\ o.value = c.device.value
    BY <2>1, <2>2, Zenon DEF Samples
  <2> HIDE DEF o
  <2>4. collector' \in [pc : {"commit"}, observation : Samples]
    BY <2>0, <2>3, Zenon
  <2>5. FlowType'
    BY <1>1, <2>4, Zenon DEF FlowInv, FlowType, dataVars
  <2>6. collector'.pc = "commit" /\ collector'.observation = o /\ "commit" # "normalize"
    BY <2>0, Zenon
  <2>7. /\ c.read <= now /\ now - c.read <= MaxDelay /\ Within(c.device, device, now - c.read)
        /\ \A i \in 1..Len(counter.history) :
             /\ counter.history[i].time <= c.read
             /\ Within(counter.history[i].device, c.device,
                       c.read - counter.history[i].time + MaxDelay)
    BY <1>1, Zenon DEF FlowInv, CollectorOk
  <2>8. o.time <= now /\ Within(o.device, device, now - o.time + MaxDelay)
    <3>1. /\ now - c.read \in Int /\ now - now + MaxDelay \in Int
          /\ now - c.read <= now - now + MaxDelay /\ now <= now
      BY <2>2, <2>7
    <3>2. Within(c.device, device, now - now + MaxDelay)
      BY <2>2, <2>7, <3>1, WithinLonger, Zenon
    <3> QED  BY <2>3, <3>1, <3>2, Zenon
  <2>9. ASSUME NEW i \in 1..Len(counter.history)
        PROVE  Before(counter.history[i], o)
    <3> DEFINE h == counter.history[i]
    <3>1. h.time \in Nat /\ h.device \in Devices
      BY SampleTypes, Zenon DEF FlowInv
    <3>2. h.time <= c.read /\ Within(h.device, c.device, c.read - h.time + MaxDelay)
      BY <2>7, Zenon
    <3> HIDE DEF h
    <3>3. /\ c.read - h.time + MaxDelay \in Int /\ now - h.time + MaxDelay \in Int
          /\ c.read - h.time + MaxDelay <= now - h.time + MaxDelay /\ h.time <= now
      BY <2>2, <2>7, <3>1, <3>2, SMTT(20)
    <3>4. Within(h.device, c.device, now - h.time + MaxDelay)
      BY <2>2, <3>1, <3>2, <3>3, WithinLonger, Zenon
    <3> QED  BY <2>3, <3>3, <3>4, Zenon DEF Before, h
  <2>10. CollectorOk'
    <3>1. counter' = counter /\ now' = now /\ device' = device
      BY <1>1, Zenon DEF dataVars
    <3> QED  BY <2>3, <2>6, <2>8, <2>9, <3>1, Zenon DEF CollectorOk
  <2> QED  BY <1>1, <2>5, <2>10, Unaffected, Zenon DEF FlowInv, dataVars
<1> QED  BY <1>2, <1>3, Zenon

LEMMA CollectStep == FlowInv /\ CollectCommit => FlowInv'
<1> SUFFICES ASSUME FlowInv, CollectCommit  PROVE FlowInv'
  BY Zenon
<1> DEFINE o == collector.observation
           h == counter.history
           new == [o EXCEPT !.epoch = epoch + 1]
<1>1. /\ collector.pc = "commit" /\ collector' = Resting
      /\ UNCHANGED <<now, device, data, derived, plan, executorVars>>
      /\ \/ Accepts(counter, o) /\ counter' = Stored(counter, o) /\ epoch' = epoch + 1
         \/ UNCHANGED <<counter, epoch>>
  BY Zenon DEF CollectCommit, taskVars
<1>2. collector'.pc = "idle"
  BY <1>1 DEF Resting
<1>3. CollectorOk'
  <2>1. collector'.pc # "normalize" /\ collector'.pc # "commit"
    BY <1>2, Zenon
  <2> QED  BY <2>1, Zenon DEF CollectorOk
<1>4. CASE UNCHANGED <<counter, epoch>>
  <2>1. FlowType'
    BY <1>1, <1>4, Zenon DEF FlowInv, FlowType
  <2> QED  BY <1>1, <1>3, <1>4, <2>1, Unaffected, Zenon DEF FlowInv, dataVars
<1>5. CASE Accepts(counter, o) /\ counter' = Stored(counter, o) /\ epoch' = epoch + 1
  <2>0. /\ FlowType /\ o \in Samples /\ epoch \in Nat /\ h \in Seq(Samples) /\ o.time \in Nat
    <3>1. FlowType
      BY Zenon DEF FlowInv
    <3> QED  BY <1>1, <3>1, SampleTypes, Zenon DEF FlowType
  <2>1. epoch + 1 \in Nat /\ epoch < epoch + 1 /\ epoch + 1 \in 1..(epoch + 1)
    BY <2>0
  <2>2. /\ new \in Samples /\ new.time = o.time /\ new.device = o.device /\ new.value = o.value
        /\ new.status = o.status /\ new.generation = o.generation /\ new.entity = o.entity
        /\ new.epoch = epoch + 1
    <3>1. PICK e \in Nat : e = epoch + 1
      BY <2>1, Zenon
    <3>2. new = [o EXCEPT !.epoch = e]
      BY <3>1, Zenon
    <3> HIDE DEF o, new
    <3> QED  BY <2>0, <3>1, <3>2, Zenon DEF Samples
  <2> DEFINE k == counter'.history
  <2>3. k \in Seq(Samples) /\ Left(k, h, new, o)
    <3>1. k = Stored(counter, o).history
      BY <1>5, Zenon
    <3> HIDE DEF k, o
    <3> QED  BY <2>0, <2>2, <3>1, StoredHistory, Zenon
  <2>4. FlowType'
    BY <1>1, <1>5, <2>1, <2>3, Zenon DEF FlowInv, FlowType
  <2>5. /\ o.value = o.device.value /\ o.time <= now
        /\ Within(o.device, device, now - o.time + MaxDelay)
        /\ \A i \in 1..Len(h) : Before(h[i], o)
    BY <1>1, Zenon DEF FlowInv, CollectorOk
  <2>6. o.generation = data.generation /\ o.entity \in data.entities
    BY <1>5, Zenon DEF Accepts
  <2>7. ASSUME NEW j \in 1..Len(h)
        PROVE  /\ h[j].epoch \in 1..epoch' /\ h[j].epoch < epoch + 1
               /\ Sound(h[j]) /\ h[j].generation = data.generation
               /\ h[j].entity \in data.entities /\ h[j].time <= now
               /\ Within(h[j].device, device, now - h[j].time + MaxDelay)
    <3>1. /\ h[j].epoch \in 1..epoch
          /\ Sound(h[j]) /\ h[j].generation = data.generation
          /\ h[j].entity \in data.entities /\ h[j].time <= now
          /\ Within(h[j].device, device, now - h[j].time + MaxDelay)
      BY Zenon DEF FlowInv, HistoryOk
    <3>2. \A x \in 1..epoch : x \in 1..(epoch + 1) /\ x < epoch + 1
      BY <2>0
    <3> QED  BY <1>5, <3>1, <3>2, Zenon
  <2>8. \A j, m \in 1..Len(h) : j < m => Ordered(h[j], h[m])
    BY Zenon DEF FlowInv, HistoryOk
  <2> HIDE DEF k, h, o, new
  <2>9. ASSUME NEW i \in 1..Len(k)
        PROVE  /\ Sound(k[i]) /\ k[i].epoch \in 1..epoch'
               /\ k[i].generation = data.generation /\ k[i].entity \in data.entities
               /\ k[i].time <= now /\ Within(k[i].device, device, now - k[i].time + MaxDelay)
    <3>1. CASE k[i] = new /\ o.status = "valid"
      BY <1>5, <2>1, <2>2, <2>5, <2>6, <3>1, Zenon DEF Sound
    <3>2. CASE \E j \in 1..Len(h) : k[i] = h[j]
      BY <2>7, <3>2, Zenon
    <3> QED  BY <2>3, <3>1, <3>2, Zenon DEF Left
  <2>10. ASSUME NEW i \in 1..Len(k), NEW l \in 1..Len(k), i < l
         PROVE  Ordered(k[i], k[l])
    <3>1. PICK j \in 1..Len(h) : /\ k[i] = h[j]
                                 /\ \/ \E m \in 1..Len(h) : j < m /\ k[l] = h[m]
                                    \/ k[l] = new /\ o.status = "valid"
      BY <2>3, <2>10, Zenon DEF Left
    <3>2. Ordered(h[j], new)
      BY <2>2, <2>5, <2>7, Zenon DEF Ordered, Before
    <3> QED  BY <2>8, <3>1, <3>2, Zenon
  <2>11. HistoryOk'
    <3>1. /\ now' = now /\ device' = device /\ data' = data
      BY <1>1, Zenon
    <3> QED  BY <2>9, <2>10, <3>1, Zenon DEF HistoryOk, k
  <2> QED  BY <1>1, <1>3, <2>4, <2>11, Unaffected, Zenon DEF FlowInv
<1> QED  BY <1>1, <1>4, <1>5, Zenon

-----------------------------------------------------------------------------
(* Tasks *)

(* What ScheduleLast queues.                                                *)
LEMMA Scheduled ==
  ASSUME FlowInv, NEW n \in 1..2, NEW time \in 0..now, ScheduleLast(n, time)
  PROVE  \E task \in Tasks :
           /\ TaskOk(task)
           /\ task.key \notin queued_keys
           /\ task.bytes <= MaxQueueBytes - queued_bytes /\ Len(queue) < MaxQueuedTasks
           /\ queue' = Append(queue, task) /\ queued_bytes' = queued_bytes + task.bytes
           /\ queued_keys' = queued_keys \cup {task.key}
           /\ UNCHANGED <<recent, runner>>
<1> DEFINE h == counter.history
           L == Len(h)
           items == SubSeq(h, L - n + 1, L)
           context == [entity |-> items[n].entity, generation |-> data.generation, time |-> time]
           key == DedupKey(context, items)
           task == [context |-> context, items |-> items, key |-> key, bytes |-> taskBytes(items)]
<1>1. n <= L /\ Schedule(context, items)
  BY Zenon DEF ScheduleLast
<1>2. h \in Seq(Samples) /\ L \in Nat /\ data.generation \in Nat /\ now \in Nat
  BY DEF FlowInv, FlowType
<1>3. /\ items \in Seq(Samples) /\ Len(items) = n
      /\ \A i \in 1..n : L - n + i \in 1..L /\ items[i] = h[L - n + i]
  <2> HIDE DEF h
  <2> QED  BY <1>1, <1>2
<1>4. /\ Consistent(context, items) /\ key \notin queued_keys /\ HasRoom(items)
      /\ queue' = Append(queue, task)
      /\ queued_bytes' = queued_bytes + taskBytes(items)
      /\ queued_keys' = queued_keys \cup {key} /\ UNCHANGED <<recent, runner>>
  BY <1>1, Zenon DEF Schedule
<1> HIDE DEF items, h, L
<1>5. context \in Contexts
  <2>1. n \in 1..n
    OBVIOUS
  <2>2. items[n] \in Samples
    BY <1>3, <2>1
  <2>3. items[n].entity \in References /\ time \in Nat
    BY <1>2, <2>2 DEF Samples
  <2> QED  BY <1>2, <2>3, Zenon DEF Contexts
<1> HIDE DEF context
<1>6. key \in DedupKeys
  <2>0. \A o \in Range(items) : o \in Samples
    BY <1>3 DEF Range
  <2>1. \A o \in Range(items) : o.epoch \in Nat
    BY <2>0, Zenon DEF Samples
  <2>2. context.entity \in References /\ context.generation \in Nat
    BY <1>5, Zenon DEF Contexts
  <2>3. {o.epoch : o \in Range(items)} \in SUBSET Nat
    BY <2>1, Zenon
  <2> QED  BY <2>2, <2>3, Zenon DEF DedupKey, DedupKeys
<1> HIDE DEF key
<1>7. taskBytes(items) \in Nat
  BY <1>3 DEF taskBytes
<1>8. /\ task \in Tasks /\ task.items = items /\ task.context = context /\ task.key = key
      /\ task.bytes = taskBytes(items)
  BY <1>3, <1>5, <1>6, <1>7, Zenon DEF Tasks
<1> HIDE DEF task
<1>9. TaskOk(task)
  <2>1. ASSUME NEW i \in 1..n
        PROVE  /\ Sound(items[i]) /\ items[i].generation = context.generation
               /\ items[i].entity = context.entity
    <3>1. items[i] \in Range(items)
      BY <1>3 DEF Range
    <3>2. Sound(h[L - n + i])
      BY <1>3, Zenon DEF FlowInv, HistoryOk, h, L
    <3> QED  BY <1>3, <1>4, <3>1, <3>2, Zenon DEF Consistent
  <2>2. ASSUME n = 2  PROVE Ordered(items[1], items[2])
    <3>1. 1 \in 1..n /\ 2 \in 1..n /\ L - n + 1 < L - n + 2
      BY <1>2, <2>2
    <3>2. Ordered(h[L - n + 1], h[L - n + 2])
      BY <1>3, <3>1, Zenon DEF FlowInv, HistoryOk, h, L
    <3> QED  BY <1>3, <3>1, <3>2, Zenon
  <2> QED  BY <1>3, <1>8, <2>1, <2>2, Zenon DEF TaskOk
<1>10. task.bytes <= MaxQueueBytes - queued_bytes /\ Len(queue) < MaxQueuedTasks
  BY <1>4, <1>8, Zenon DEF HasRoom
<1> QED  BY <1>4, <1>8, <1>9, <1>10, Zenon

LEMMA ScheduleStep ==
  ASSUME FlowInv, NEW n \in 1..2, NEW time \in 0..now, ScheduleLast(n, time)
  PROVE  FlowInv'
<1>1. PICK task \in Tasks :
        /\ TaskOk(task) /\ queue' = Append(queue, task)
        /\ queued_keys' = queued_keys \cup {task.key}
        /\ UNCHANGED <<recent, runner>>
  BY Scheduled, Zenon
<1>2. UNCHANGED <<now, device, dataVars, collectVars>>
  BY Zenon DEF ScheduleLast
<1>3. task.key \in DedupKeys
  BY Zenon DEF Tasks
<1>4. queue \in Seq(Tasks) /\ queued_keys \subseteq DedupKeys
  BY Zenon DEF FlowInv, QueueType
<1>5. queue' \in Seq(Tasks) /\ queued_keys' \subseteq DedupKeys
  BY <1>1, <1>3, <1>4
<1>6. QueueType'
  BY <1>1, <1>5, Zenon DEF FlowInv, QueueType
<1>7. \A i \in 1..Len(queue') : queue'[i] = task \/ \E j \in 1..Len(queue) : queue'[i] = queue[j]
  BY <1>1, <1>4
<1>8. TasksOk'
  BY <1>1, <1>7, Zenon DEF FlowInv, TasksOk
<1> QED  BY <1>2, <1>6, <1>8, Unaffected, Zenon DEF FlowInv, dataVars, collectVars

(* Where runNext is, and with which task.                                   *)
LEMMA RunnerTypes ==
  ASSUME QueueType
  PROVE  /\ runner.pc # "idle" => runner.task \in Tasks
         /\ runner.pc \in {"idle", "check", "evaluated", "commit", "remember"}
         /\ runner.pc = "check" => runner \in [pc : {"check", "remember"}, task : Tasks]
         /\ runner.pc \in {"evaluated", "commit"} =>
              runner \in [pc : {"evaluated", "commit", "remember"}, task : Tasks, output : Outputs]
BY DEF QueueType, Resting

(* A task is taken from the queue, goes its way and is remembered.          *)
LEMMA RunStep == FlowInv /\ RunNext => FlowInv'
<1> SUFFICES ASSUME FlowInv, RunNext  PROVE FlowInv'
  BY Zenon
<1> SUFFICES QueueType' /\ TasksOk'
  <2>1. UNCHANGED <<now, device, dataVars, collectVars>>
    BY Zenon DEF RunNext
  <2> QED  BY <2>1, Unaffected, Zenon DEF FlowInv, dataVars, collectVars
<1>0. /\ QueueType /\ queue \in Seq(Tasks) /\ recent \in Seq(DedupKeys)
      /\ queued_keys \subseteq DedupKeys
      /\ runner.pc # "idle" => TaskOk(runner.task)
      /\ \A i \in 1..Len(queue) : TaskOk(queue[i])
  BY Zenon DEF FlowInv, QueueType, TasksOk
<1>1. ASSUME RunTake  PROVE QueueType' /\ TasksOk'
  <2>1. /\ queue # <<>> /\ queue' = Tail(queue) /\ queued_keys' = queued_keys \ {Head(queue).key}
        /\ runner' = [pc |-> "check", task |-> Head(queue)] /\ recent' = recent
    BY <1>1, Zenon DEF RunTake
  <2>2. /\ queue' \in Seq(Tasks) /\ Head(queue) \in Tasks /\ Head(queue) = queue[1]
        /\ 1 \in 1..Len(queue)
        /\ \A i \in 1..Len(queue') : i + 1 \in 1..Len(queue) /\ queue'[i] = queue[i + 1]
    BY <1>0, <2>1
  <2>3. /\ runner' \in [pc : {"check", "remember"}, task : Tasks] /\ runner'.task = queue[1]
        /\ runner'.pc = "check" /\ "check" \notin {"evaluated", "commit"}
    BY <2>1, <2>2, Zenon
  <2>4. queued_keys' \subseteq DedupKeys
    BY <1>0, <2>1, Zenon
  <2>5. QueueType'
    BY <1>0, <2>1, <2>2, <2>3, <2>4, Zenon DEF QueueType
  <2>6. TasksOk'
    BY <1>0, <2>2, <2>3, Zenon DEF TasksOk
  <2> QED  BY <2>5, <2>6, Zenon
<1>2. ASSUME UNCHANGED <<queue, queued_keys, recent>>, NEW task \in Tasks, TaskOk(task),
             \/ runner' \in [pc : {"check", "remember"}, task : {task}]
             \/ /\ runner' \in [pc : {"evaluated", "commit", "remember"}, task : {task},
                                output : Outputs]
                /\ runner'.output = Evaluate(task.context, task.items)
      PROVE  QueueType' /\ TasksOk'
  <2>1. /\ \/ runner' \in [pc : {"check", "remember"}, task : Tasks]
           \/ runner' \in [pc : {"evaluated", "commit", "remember"}, task : Tasks,
                           output : Outputs]
        /\ runner'.task = task
        /\ runner'.pc \in {"evaluated", "commit"} =>
             runner'.output = Evaluate(task.context, task.items)
    BY <1>2, Zenon
  <2>2. QueueType'
    BY <1>0, <1>2, <2>1, Zenon DEF QueueType
  <2>3. TasksOk'
    BY <1>0, <1>2, <2>1, Zenon DEF TasksOk
  <2> QED  BY <2>2, <2>3, Zenon
<1> DEFINE task == runner.task
<1>3. ASSUME RunEvaluate(data.generation)  PROVE QueueType' /\ TasksOk'
  <2>1. /\ runner.pc = "check" /\ UNCHANGED <<queue, queued_keys, recent>>
        /\ \/ runner' = [runner EXCEPT !.pc = "remember"]
           \/ runner' = [pc |-> "evaluated", task |-> task,
                         output |-> Evaluate(task.context, task.items)]
    BY <1>3, Zenon DEF RunEvaluate
  <2>2. runner \in [pc : {"check", "remember"}, task : Tasks] /\ task \in Tasks /\ TaskOk(task)
    BY <1>0, <2>1, RunnerTypes, Zenon
  <2>3. Evaluate(task.context, task.items) \in Outputs
    BY <2>2, EvaluateType, Zenon
  <2>4. \/ runner' \in [pc : {"check", "remember"}, task : {task}]
        \/ /\ runner' \in [pc : {"evaluated", "commit", "remember"}, task : {task},
                           output : Outputs]
           /\ runner'.output = Evaluate(task.context, task.items)
    <3> DEFINE E == Evaluate(task.context, task.items)
    <3> HIDE DEF E, task
    <3>1. CASE runner' = [pc |-> "evaluated", task |-> task, output |-> E]
      BY <2>3, <3>1, Zenon DEF E
    <3>2. CASE runner' = [runner EXCEPT !.pc = "remember"]
      BY <2>2, <3>2, Zenon DEF task
    <3> QED  BY <2>1, <3>1, <3>2, Zenon DEF E
  <2> HIDE DEF task
  <2> QED  BY <1>2, <2>1, <2>2, <2>4, Zenon
<1>4. ASSUME RunCheckAgain(data.generation)  PROVE QueueType' /\ TasksOk'
  <2>1. /\ runner.pc = "evaluated" /\ UNCHANGED <<queue, queued_keys, recent>>
        /\ \E pc \in {"remember", "commit"} : runner' = [runner EXCEPT !.pc = pc]
    BY <1>4, Zenon DEF RunCheckAgain
  <2>2. /\ runner \in [pc : {"evaluated", "commit", "remember"}, task : Tasks, output : Outputs]
        /\ task \in Tasks /\ TaskOk(task)
    BY <1>0, <2>1, RunnerTypes
  <2>3. runner.output = Evaluate(task.context, task.items)
    BY <2>1, Zenon DEF FlowInv, TasksOk
  <2>4. /\ runner' \in [pc : {"evaluated", "commit", "remember"}, task : {task}, output : Outputs]
        /\ runner'.output = Evaluate(task.context, task.items)
    <3>1. PICK pc \in {"remember", "commit"} : runner' = [runner EXCEPT !.pc = pc]
      BY <2>1, Zenon
    <3>2. /\ runner' \in [pc : {"evaluated", "commit", "remember"}, task : {task}, output : Outputs]
          /\ runner'.output = runner.output
      BY <2>2, <3>1
    <3> QED  BY <2>3, <3>2, Zenon
  <2> HIDE DEF task
  <2> QED  BY <1>2, <2>1, <2>2, <2>4, Zenon
<1>5. ASSUME RunRemember  PROVE QueueType' /\ TasksOk'
  <2>1. /\ runner.pc = "remember" /\ UNCHANGED <<queue, queued_keys>>
        /\ recent' = Remembered(task.key) /\ runner' = Resting
    BY <1>5, Zenon DEF RunRemember
  <2>2. task.key \in DedupKeys
    BY <1>0, <2>1, RunnerTypes, Zenon DEF Tasks
  <2>3. recent' \in Seq(DedupKeys)
    <3>0. PICK key \in DedupKeys : key = task.key
      BY <2>2, Zenon
    <3>1. PICK longer : longer = Append(recent, key)
      BY Zenon
    <3>2. recent \in Seq(DedupKeys)
      BY <1>0, Zenon
    <3>3. longer \in Seq(DedupKeys) /\ longer # <<>>
      BY <3>1, <3>2
    <3>4. Tail(longer) \in Seq(DedupKeys)
      BY <3>3, TailOf, Zenon
    <3> QED  BY <2>1, <3>0, <3>1, <3>2, <3>3, <3>4, Zenon DEF Remembered
  <2>4. runner'.pc = "idle" /\ "idle" \notin {"evaluated", "commit"}
    BY <2>1, Zenon DEF Resting
  <2>5. QueueType'
    BY <1>0, <2>1, <2>3, Zenon DEF QueueType
  <2>6. TasksOk'
    BY <1>0, <2>1, <2>4, Zenon DEF TasksOk
  <2> QED  BY <2>5, <2>6, Zenon
<1> QED  BY <1>1, <1>3, <1>4, <1>5, Zenon DEF RunNext

(* The commit of a delta.                                                   *)
LEMMA CommitDelta == FlowInv /\ RunCommit => FlowInv'
<1> SUFFICES ASSUME FlowInv, RunCommit  PROVE FlowInv'
  BY Zenon
<1> DEFINE task == runner.task
           output == runner.output
           o == [entity |-> task.context.entity, generation |-> task.context.generation,
                 status |-> output.status, value |-> output.value,
                 time |-> task.context.time, epoch |-> 0, inputs |-> task.items]
           new == [o EXCEPT !.epoch = epoch + 1]
           h == derived.history
           k == derived'.history
<1>1. /\ runner.pc = "commit" /\ runner' = [runner EXCEPT !.pc = "remember"]
      /\ UNCHANGED <<queue, queued_keys, recent, now, device, data, counter, collectVars>>
      /\ \/ Accepts(derived, o) /\ derived' = Stored(derived, o) /\ epoch' = epoch + 1
         \/ UNCHANGED <<derived, epoch>>
  BY Zenon DEF RunCommit, RunCommitted
<1>2. /\ runner \in [pc : {"evaluated", "commit", "remember"}, task : Tasks, output : Outputs]
      /\ task \in Tasks /\ TaskOk(task) /\ output \in Outputs
      /\ output = Evaluate(task.context, task.items)
  <2>1. QueueType /\ runner.pc # "idle" /\ runner.pc \in {"evaluated", "commit"}
    BY <1>1, Zenon DEF FlowInv
  <2>2. runner \in [pc : {"evaluated", "commit", "remember"}, task : Tasks, output : Outputs]
    BY <2>1, RunnerTypes, Zenon
  <2>3. TaskOk(task) /\ output = Evaluate(task.context, task.items)
    BY <2>1, Zenon DEF FlowInv, TasksOk
  <2> QED  BY <2>2, <2>3, Zenon
<1>3. QueueType' /\ TasksOk'
  <2>1. /\ runner' \in [pc : {"evaluated", "commit", "remember"}, task : Tasks, output : Outputs]
        /\ runner'.task = task /\ runner'.pc = "remember"
        /\ "remember" \notin {"evaluated", "commit"}
    BY <1>1, <1>2, Zenon
  <2>2. QueueType'
    BY <1>1, <2>1, Zenon DEF FlowInv, QueueType
  <2>3. TasksOk'
    BY <1>1, <1>2, <2>1, Zenon DEF FlowInv, TasksOk
  <2> QED  BY <2>2, <2>3, Zenon
<1>4. CollectorOk'
  <2>1. UNCHANGED <<now, device, counter, collector>>
    BY Zenon DEF RunCommit, collectVars
  <2> QED  BY <2>1, Unaffected, Zenon
<1>5. CASE UNCHANGED <<derived, epoch>>
  <2>1. UNCHANGED <<now, device, dataVars, collectVars>>
    BY <1>5, Zenon DEF RunCommit, dataVars
  <2>2. FlowType' /\ HistoryOk' /\ DeltasOk'
    BY <2>1, Unaffected, Zenon DEF dataVars
  <2> QED  BY <1>3, <1>4, <2>2, Zenon DEF FlowInv
<1>6. CASE Accepts(derived, o) /\ derived' = Stored(derived, o) /\ epoch' = epoch + 1
  <2>0. /\ epoch \in Nat /\ h \in Seq(Deltas) /\ FlowType
    BY Zenon DEF FlowInv, FlowType
  <2>1. epoch + 1 \in Nat /\ \A x \in 1..epoch : x \in 1..(epoch + 1)
    BY <2>0
  <2>2. o.generation = data.generation /\ o.entity \in data.entities
    BY <1>6, Zenon DEF Accepts
  <2>3. /\ task.context \in Contexts /\ task.items \in Seq(Samples)
        /\ output.status \in {"valid", "not_available"} /\ output.value \in Int
    BY <1>2, Zenon DEF Tasks, Outputs
  <2>4. task.context.entity \in References /\ task.context.generation \in Nat
        /\ task.context.time \in Nat
    BY <2>3, Zenon DEF Contexts
  <2>5. /\ new \in Deltas /\ new.generation = task.context.generation
        /\ new.entity = task.context.entity /\ new.value = output.value
        /\ new.inputs = task.items /\ o.status = output.status
        /\ o.generation = task.context.generation /\ o.entity = task.context.entity
    <3>1. PICK e \in Nat : e = epoch + 1
      BY <2>1, Zenon
    <3>2. new = [entity |-> task.context.entity, generation |-> task.context.generation,
                 status |-> output.status, value |-> output.value,
                 time |-> task.context.time, epoch |-> e, inputs |-> task.items]
      BY <3>1
    <3> HIDE DEF task, output, new
    <3> QED  BY <2>3, <2>4, <3>2 DEF Deltas
  <2> HIDE DEF task, output
  <2>6. k \in Seq(Deltas) /\ Left(k, h, new, o)
    <3>1. k = Stored(derived, o).history
      BY <1>6, Zenon
    <3> HIDE DEF k, o
    <3> QED  BY <2>0, <2>5, <3>1, StoredHistory, Zenon
  <2> HIDE DEF o, new
  <2>7. FlowType'
    BY <1>1, <1>6, <2>0, <2>1, <2>6, Zenon DEF FlowType, collectVars
  <2>8. HistoryOk'
    BY <1>1, <1>6, <2>1, Zenon DEF FlowInv, HistoryOk
  <2>9. ASSUME o.status = "valid"
        PROVE  /\ new.generation = data.generation /\ new.entity \in data.entities
               /\ DeltaOk(new)
    <3>1. /\ Len(task.items) = 2
          /\ task.items[1].device.restarts = task.items[2].device.restarts =>
               output.value = task.items[2].device.grown - task.items[1].device.grown
      BY <1>2, <2>5, <2>9, EvaluateExact, Zenon
    <3>2. 1 \in 1..2 /\ 2 \in 1..2
      OBVIOUS
    <3>3. \A i \in {task.items[1], task.items[2]} :
            i.generation = task.context.generation /\ i.entity = task.context.entity
      BY <1>2, <3>1, <3>2, ZenonT(60) DEF TaskOk
    <3> QED  BY <2>2, <2>5, <3>1, <3>3, Zenon DEF DeltaOk
  <2>10. DeltasOk'
    <3> HIDE DEF k, h
    <3>1. \A j \in 1..Len(h) : /\ h[j].generation = data.generation /\ h[j].entity \in data.entities
                               /\ DeltaOk(h[j])
      BY Zenon DEF FlowInv, DeltasOk, h
    <3>2. \A i \in 1..Len(k) : /\ k[i].generation = data.generation /\ k[i].entity \in data.entities
                               /\ DeltaOk(k[i])
      BY <2>6, <2>9, <3>1, ZenonT(60) DEF Left
    <3>3. data' = data
      BY <1>1, Zenon
    <3> QED  BY <3>2, <3>3, Zenon DEF DeltasOk, k
  <2> QED  BY <1>3, <1>4, <2>7, <2>8, <2>10, Zenon DEF FlowInv
<1> QED  BY <1>1, <1>5, <1>6, Zenon

LEMMA FlowInitial == Init => FlowInv
<1> SUFFICES ASSUME Init  PROVE FlowInv
  BY Zenon
<1>1. /\ now = 0 /\ epoch = 0 /\ counter.history = <<>> /\ derived.history = <<>>
      /\ device = [value |-> Modulus - 1, grown |-> 0, restarts |-> 0]
      /\ data.generation = 0 /\ data.entities = {} /\ plan = None
      /\ collector = Resting /\ queue = <<>> /\ recent = <<>> /\ queued_keys = {}
      /\ runner = Resting
  BY Zenon DEF Init, NoEntry, ExecutorInit
<1>2. device \in Devices
  BY <1>1, ProcessorAssumption DEF Devices
<1>3. /\ 0 \in Nat /\ <<>> \in Seq(Samples) /\ <<>> \in Seq(Deltas) /\ <<>> \in Seq(Tasks)
      /\ <<>> \in Seq(DedupKeys) /\ 1..Len(<<>>) = {}
  OBVIOUS
<1>4. FlowType /\ QueueType
  BY <1>1, <1>2, <1>3, Zenon DEF FlowType, QueueType
<1>5. /\ Resting.pc = "idle" /\ "idle" # "normalize" /\ "idle" # "commit"
      /\ "idle" \notin {"evaluated", "commit"}
  BY Zenon DEF Resting
<1>6. HistoryOk /\ CollectorOk /\ TasksOk /\ DeltasOk
  BY <1>1, <1>3, <1>5, Zenon DEF HistoryOk, CollectorOk, TasksOk, DeltasOk
<1> QED  BY <1>4, <1>6, Zenon DEF FlowInv

LEMMA FlowStep == FlowInv /\ LoadInv /\ ViewTyped /\ [Next]_allVars => FlowInv'
<1> SUFFICES ASSUME FlowInv, LoadInv, ViewTyped, [Next]_allVars  PROVE FlowInv'
  BY Zenon
<1>1. ASSUME UNCHANGED <<now, device, dataVars, collectVars, executorVars>>  PROVE FlowInv'
  BY <1>1, Unaffected, Zenon DEF FlowInv, dataVars, collectVars
<1>2. ASSUME NEW d, Discover(d)  PROVE FlowInv'
  BY <1>1, <1>2, Zenon DEF Discover, taskVars
<1>3. ASSUME NEW t, Rebuild(t)  PROVE FlowInv'
  BY <1>1, <1>3, Zenon DEF Rebuild, taskVars
<1>4. CASE UNCHANGED allVars
  BY <1>1, <1>4, Zenon DEF allVars, taskVars
<1> QED  BY <1>2, <1>3, <1>4, TimeStep, ActivateStep, ApplyStep, ReadStep, NormalizeStep,
            CollectStep, ScheduleStep, RunStep, CommitDelta, Zenon DEF Next

-----------------------------------------------------------------------------
LEMMA ViewHasTypes == CatalogInv => ViewTyped
<1> SUFFICES ASSUME CatalogInv  PROVE ViewTyped
  BY Zenon
<1>1. view.generation \in Nat
  BY DEF CatalogInv, CatalogType
<1>2. {e.ref : e \in view.entities} \subseteq References
  <2>1. CASE LastView = 0
    BY <2>1, Zenon DEF CatalogInv, PresentInv
  <2>2. CASE LastView # 0
    <3>1. published \in Seq(SUBSET Shown) /\ LastView \in 1..Len(published)
      BY <1>1, <2>2, SMTT(20) DEF CatalogInv, CatalogType, LastView
    <3>2. \A b \in published[LastView] : b.ref \in References
      BY <3>1, SMTT(20) DEF Shown
    <3>3. {e.ref : e \in view.entities} = {b.ref : b \in published[LastView]}
      BY <2>2, Zenon DEF CatalogInv, PresentInv
    <3> QED  BY <3>2, <3>3, Zenon
  <2> QED  BY <2>1, <2>2, Zenon
<1> QED  BY <1>1, <1>2, Zenon DEF ViewTyped

LEMMA FlowIsExact == FlowInv => DerivedExact
<1> SUFFICES ASSUME FlowInv  PROVE DerivedExact
  BY Zenon
<1>1. ASSUME NEW o \in Range(counter.history)
      PROVE  o.generation = data.generation /\ o.entity \in data.entities
  <2>1. PICK h \in Seq(Samples) : h = counter.history
    BY Zenon DEF FlowInv, FlowType
  <2>2. o \in Range(h)
    BY <1>1, <2>1, Zenon
  <2>3. PICK i \in 1..Len(h) : o = h[i]
    BY <2>2, InRange, Zenon
  <2> QED  BY <2>1, <2>3, Zenon DEF FlowInv, HistoryOk
<1>2. ASSUME NEW o \in Range(derived.history)
      PROVE  o.generation = data.generation /\ o.entity \in data.entities /\ DeltaOk(o)
  <2>1. PICK h \in Seq(Deltas) : h = derived.history
    BY Zenon DEF FlowInv, FlowType
  <2>2. o \in Range(h)
    BY <1>2, <2>1, Zenon
  <2>3. PICK i \in 1..Len(h) : o = h[i]
    BY <2>2, InRange, Zenon
  <2> QED  BY <2>1, <2>3, Zenon DEF FlowInv, DeltasOk
<1> QED  BY <1>1, <1>2, Zenon DEF DerivedExact, DeltaOk

(* What follows a sample from the device to a delta holds all along.        *)
LEMMA FlowHolds == Spec => []FlowInv
<1>1. Init => LoadInv /\ CatalogInit
  BY Zenon DEF Init, LoadInv
<1>2. LoadInv /\ [Next]_allVars => [\E d \in Descriptors : Commit(d)]_catalogVars
  BY CatalogOnlyCommits, Zenon
<1>3. CatalogInv /\ [\E d \in Descriptors : Commit(d)]_catalogVars => CatalogInv'
  BY CommitStep, CatalogStutters, Zenon
<1> QED  BY <1>1, <1>2, <1>3, CatalogInitial, LoadStays, ViewHasTypes, FlowInitial, FlowStep,
            PTL DEF Spec

(* Every delta the DataManager keeps is what the counter has grown by       *)
(* between its two samples, whatever the rates, limits and delays are.      *)
THEOREM DerivedExactCorrect == Spec => []DerivedExact
BY FlowHolds, FlowIsExact, PTL

-----------------------------------------------------------------------------
(* The books of the queue *)

(* What Bytes sums up, for a queue of tasks; proved at the end.             *)
TaskSums ==
  /\ Bytes(<<>>) = 0
  /\ \A q \in Seq(Tasks), task \in Tasks : Bytes(Append(q, task)) = Bytes(q) + task.bytes
  /\ \A q \in Seq(Tasks) \ {<<>>} :
       Bytes(q) = Bytes(Tail(q)) + q[1].bytes /\ Bytes(Tail(q)) \in Nat

QueueBooks ==
  /\ \A i \in 1..Len(queue) : queue[i].key \in queued_keys
  /\ \A key \in queued_keys : \E i \in 1..Len(queue) : queue[i].key = key
  /\ \A i, j \in 1..Len(queue) : queue[i].key = queue[j].key => i = j
  /\ queued_bytes = Bytes(queue)
  /\ queued_bytes \in 0..MaxQueueBytes /\ Len(queue) <= MaxQueuedTasks
  /\ \A i, j \in 1..Len(recent) : recent[i] = recent[j] => i = j
  /\ Len(recent) <= MaxRecentKeys

LEMMA BooksAreExact == QueueType /\ QueueBooks => QueueExact
<1> SUFFICES ASSUME QueueType, QueueBooks  PROVE QueueExact
  BY Zenon
<1> DEFINE keys == [i \in DOMAIN queue |-> queue[i].key]
<1>1. queue \in Seq(Tasks) /\ recent \in Seq(DedupKeys)
  BY Zenon DEF QueueType
<1>2. /\ DOMAIN queue = 1..Len(queue) /\ DOMAIN recent = 1..Len(recent)
  BY <1>1
<1>3. Range(keys) = queued_keys /\ IsInjective(keys)
  <2>1. DOMAIN keys = 1..Len(queue) /\ \A i \in 1..Len(queue) : keys[i] = queue[i].key
    BY <1>2, Zenon
  <2> HIDE DEF keys
  <2>2. Range(keys) = queued_keys
    <3>1. \A i \in 1..Len(queue) : keys[i] \in queued_keys
      BY <2>1, Zenon DEF QueueBooks
    <3>2. ASSUME NEW key \in queued_keys  PROVE key \in Range(keys)
      <4>1. PICK i \in 1..Len(queue) : queue[i].key = key
        BY Zenon DEF QueueBooks
      <4> QED  BY <2>1, <4>1, Zenon DEF Range
    <3> QED  BY <2>1, <3>1, <3>2, Zenon DEF Range
  <2>3. IsInjective(keys)
    BY <2>1, Zenon DEF QueueBooks, IsInjective
  <2> QED  BY <2>2, <2>3, Zenon
<1>4. IsInjective(recent)
  BY <1>2, Zenon DEF QueueBooks, IsInjective
<1>5. queued_bytes <= MaxQueueBytes
  BY ProcessorAssumption DEF QueueBooks
<1> QED  BY <1>3, <1>4, <1>5, Zenon DEF QueueBooks, QueueExact

LEMMA BooksInitial == TaskSums /\ Init => QueueBooks
<1> SUFFICES ASSUME TaskSums, Init  PROVE QueueBooks
  BY Zenon
<1>1. queue = <<>> /\ queued_bytes = 0 /\ recent = <<>> /\ queued_keys = {}
  BY Zenon DEF Init, ExecutorInit
<1>2. Len(<<>>) = 0 /\ 1..Len(<<>>) = {}
  OBVIOUS
<1>3. 0 \in 0..MaxQueueBytes /\ 0 <= MaxQueuedTasks /\ 0 <= MaxRecentKeys
  BY ProcessorAssumption
<1>4. Bytes(<<>>) = 0
  BY Zenon DEF TaskSums
<1> QED  BY <1>1, <1>2, <1>3, <1>4, Zenon DEF QueueBooks

(* What is queued takes up a natural number of bytes.                       *)
LEMMA TasksHaveBytes == \A task \in Tasks : task.bytes \in Nat
BY Zenon DEF Tasks

LEMMA ScheduleBooks ==
  ASSUME TaskSums, FlowInv, QueueBooks, NEW n \in 1..2, NEW time \in 0..now, ScheduleLast(n, time)
  PROVE  QueueBooks'
<1>1. PICK task \in Tasks :
        /\ task.key \notin queued_keys
        /\ task.bytes <= MaxQueueBytes - queued_bytes /\ Len(queue) < MaxQueuedTasks
        /\ queue' = Append(queue, task) /\ queued_bytes' = queued_bytes + task.bytes
        /\ queued_keys' = queued_keys \cup {task.key}
        /\ UNCHANGED <<recent, runner>>
  BY Scheduled, Zenon
<1>2. queue \in Seq(Tasks) /\ task.bytes \in Nat
  BY TasksHaveBytes, Zenon DEF FlowInv, QueueType
<1>3. PICK q \in Seq(Tasks) : q = queue
  BY <1>2, Zenon
<1>4. PICK t : t = queue' /\ t = Append(q, task)
  BY <1>1, <1>3, Zenon
<1>5. /\ t \in Seq(Tasks) /\ Len(t) = Len(q) + 1 /\ t[Len(t)] = task
      /\ \A i \in 1..Len(q) : i \in 1..Len(t) /\ t[i] = q[i]
      /\ \A i \in 1..Len(t) : i = Len(t) \/ i \in 1..Len(q)
      /\ Len(t) \in 1..Len(t)
  BY <1>4
<1>6. /\ \A i \in 1..Len(t) : t[i].key \in queued_keys'
      /\ \A key \in queued_keys' : \E i \in 1..Len(t) : t[i].key = key
      /\ \A i, j \in 1..Len(t) : t[i].key = t[j].key => i = j
  <2>1. /\ \A i \in 1..Len(q) : q[i].key \in queued_keys /\ q[i].key # task.key
        /\ \A key \in queued_keys : \E i \in 1..Len(q) : q[i].key = key
        /\ \A i, j \in 1..Len(q) : q[i].key = q[j].key => i = j
    BY <1>1, <1>3, Zenon DEF QueueBooks
  <2>2. \A i \in 1..Len(q) : t[i].key = q[i].key
    BY <1>5, Zenon
  <2>3. \A i \in 1..Len(t) : t[i].key \in queued_keys'
    BY <1>1, <1>5, <2>1, <2>2, Zenon
  <2>4. ASSUME NEW key \in queued_keys'  PROVE \E i \in 1..Len(t) : t[i].key = key
    <3>1. CASE key = task.key
      BY <1>5, <3>1, Zenon
    <3>2. CASE key \in queued_keys
      <4>1. PICK i \in 1..Len(q) : q[i].key = key
        BY <2>1, <3>2, Zenon
      <4> QED  BY <1>5, <2>2, <4>1, Zenon
    <3> QED  BY <1>1, <2>4, <3>1, <3>2, Zenon
  <2>5. ASSUME NEW i \in 1..Len(t), NEW j \in 1..Len(t), t[i].key = t[j].key  PROVE i = j
    <3>1. CASE i \in 1..Len(q) /\ j \in 1..Len(q)
      BY <2>1, <2>2, <2>5, <3>1, Zenon
    <3>2. \A k \in 1..Len(t) : k \in 1..Len(q) \/ (k = Len(t) /\ t[k].key = task.key)
      BY <1>5, Zenon
    <3>3. \A k \in 1..Len(q) : t[k].key # task.key
      BY <2>1, <2>2, Zenon
    <3> QED  BY <2>5, <3>1, <3>2, <3>3, Zenon
  <2> QED  BY <2>3, <2>4, <2>5, Zenon
<1>7. queued_bytes' = Bytes(t)
  <2>1. Bytes(t) = Bytes(q) + task.bytes
    BY <1>4, Zenon DEF TaskSums
  <2> QED  BY <1>1, <1>3, <2>1, Zenon DEF QueueBooks
<1>8. queued_bytes' \in 0..MaxQueueBytes /\ Len(t) <= MaxQueuedTasks
  BY <1>1, <1>2, <1>3, <1>5, ProcessorAssumption, SMTT(20) DEF QueueBooks
<1>9. /\ \A i, j \in 1..Len(recent') : recent'[i] = recent'[j] => i = j
      /\ Len(recent') <= MaxRecentKeys
  BY <1>1, Zenon DEF QueueBooks
<1>10. queue' = t
  BY <1>4, Zenon
<1> QED  BY <1>6, <1>7, <1>8, <1>9, <1>10, Zenon DEF QueueBooks

LEMMA TakeBooks ==
  ASSUME TaskSums, FlowInv, QueueBooks, RunTake
  PROVE  QueueBooks'
<1>1. /\ queue # <<>> /\ queue' = Tail(queue) /\ recent' = recent
      /\ queued_bytes' = queued_bytes - Head(queue).bytes
      /\ queued_keys' = queued_keys \ {Head(queue).key}
  BY Zenon DEF RunTake
<1>2. PICK q \in Seq(Tasks) : q = queue
  BY Zenon DEF FlowInv, QueueType
<1>3. PICK t : t = queue' /\ t = Tail(q) /\ q # <<>>
  BY <1>1, <1>2, Zenon
<1>4. /\ t \in Seq(Tasks) /\ Len(t) = Len(q) - 1 /\ Head(q) = q[1] /\ 1 \in 1..Len(q)
      /\ \A i \in 1..Len(t) : i + 1 \in 1..Len(q) /\ i + 1 # 1 /\ t[i] = q[i + 1]
      /\ \A i \in 1..Len(q) : i = 1 \/ \E j \in 1..Len(t) : i = j + 1
      /\ \A i, j \in 1..Len(t) : i + 1 = j + 1 => i = j
  <2>1. \A i, j \in 1..Len(t) : i + 1 = j + 1 => i = j
    BY <1>3
  <2> QED  BY <1>3, <2>1, TailOf, ZenonT(60)
<1>5. PICK first \in Tasks : first = q[1] /\ first.bytes \in Nat
  BY <1>4, TasksHaveBytes
<1>6. /\ \A i \in 1..Len(q) : q[i].key \in queued_keys
      /\ \A key \in queued_keys : \E i \in 1..Len(q) : q[i].key = key
      /\ \A i, j \in 1..Len(q) : q[i].key = q[j].key => i = j
      /\ queued_keys' = queued_keys \ {first.key}
  BY <1>1, <1>2, <1>4, <1>5, Zenon DEF QueueBooks
<1>7. \A i \in 1..Len(t) : t[i].key \in queued_keys'
  <2> SUFFICES ASSUME NEW i \in 1..Len(t)  PROVE t[i].key \in queued_keys'
    BY Zenon
  <2>1. PICK j \in 1..Len(q) : j # 1 /\ t[i] = q[j]
    BY <1>4, Zenon
  <2>2. q[j].key \in queued_keys /\ q[j].key # first.key
    BY <1>4, <1>5, <1>6, <2>1, Zenon
  <2> QED  BY <1>6, <2>1, <2>2, Zenon
<1>8. \A key \in queued_keys' : \E i \in 1..Len(t) : t[i].key = key
  <2> SUFFICES ASSUME NEW key \in queued_keys'  PROVE \E i \in 1..Len(t) : t[i].key = key
    BY Zenon
  <2>1. key \in queued_keys /\ key # first.key
    BY <1>6, Zenon
  <2>2. PICK j \in 1..Len(q) : q[j].key = key
    BY <1>6, <2>1, Zenon
  <2>3. j # 1
    BY <1>5, <2>1, <2>2, Zenon
  <2>4. PICK i \in 1..Len(t) : j = i + 1
    BY <1>4, <2>3, Zenon
  <2>5. t[i].key = key
    BY <1>4, <2>2, <2>4, Zenon
  <2> QED  BY <2>5, Zenon
<1>9. ASSUME NEW i \in 1..Len(t), NEW j \in 1..Len(t), t[i].key = t[j].key  PROVE i = j
  <2>1. PICK a \in 1..Len(q) : a = i + 1 /\ t[i] = q[a]
    BY <1>4, Zenon
  <2>2. PICK b \in 1..Len(q) : b = j + 1 /\ t[j] = q[b]
    BY <1>4, Zenon
  <2>3. a = b
    BY <1>6, <1>9, <2>1, <2>2, Zenon
  <2> QED  BY <1>4, <2>1, <2>2, <2>3, Zenon
<1>10. queued_bytes' = Bytes(t) /\ queued_bytes' \in 0..MaxQueueBytes
  <2>1. Bytes(q) = Bytes(t) + first.bytes /\ Bytes(t) \in Nat
    BY <1>3, <1>5, Zenon DEF TaskSums
  <2>2. queued_bytes' = queued_bytes - first.bytes
    BY <1>1, <1>2, <1>4, <1>5, Zenon
  <2>3. queued_bytes = Bytes(q) /\ queued_bytes \in 0..MaxQueueBytes
    BY <1>2, Zenon DEF QueueBooks
  <2>4. PICK b \in Nat : b = Bytes(t)
    BY <2>1, Zenon
  <2>5. PICK c \in 0..MaxQueueBytes : c = Bytes(q) /\ c = queued_bytes
    BY <2>3, Zenon
  <2> QED  BY <1>5, <2>1, <2>2, <2>4, <2>5, ProcessorAssumption, SMTT(20)
<1>11. Len(t) <= MaxQueuedTasks
  BY <1>2, <1>4, ProcessorAssumption, SMTT(20) DEF QueueBooks
<1> QED  BY <1>1, <1>3, <1>7, <1>8, <1>9, <1>10, <1>11, ZenonT(60) DEF QueueBooks

LEMMA RememberBooks ==
  ASSUME FlowInv, QueueBooks, RunRemember
  PROVE  QueueBooks'
<1>1. /\ UNCHANGED <<queue, queued_bytes, queued_keys>> /\ runner.pc = "remember"
      /\ recent' = Remembered(runner.task.key)
  BY Zenon DEF RunRemember
<1>2. PICK r \in Seq(DedupKeys) : r = recent
  BY Zenon DEF FlowInv, QueueType
<1>3. PICK key \in DedupKeys : key = runner.task.key
  <2>1. QueueType /\ "remember" # "idle"
    BY Zenon DEF FlowInv
  <2> QED  BY <1>1, <2>1, RunnerTypes, Zenon DEF Tasks
<1>4. /\ \A i, j \in 1..Len(r) : r[i] = r[j] => i = j
      /\ Len(r) <= MaxRecentKeys
  BY <1>2, Zenon DEF QueueBooks
<1>5. SUFFICES /\ \A i, j \in 1..Len(recent') : recent'[i] = recent'[j] => i = j
               /\ Len(recent') <= MaxRecentKeys
  BY <1>1, Zenon DEF QueueBooks
<1>6. CASE key \in Range(r)
  BY <1>1, <1>2, <1>3, <1>4, <1>6, Zenon DEF Remembered
<1>7. CASE key \notin Range(r)
  <2>1. PICK l : l = Append(r, key)
    BY Zenon
  <2>2. recent' = IF Len(l) > MaxRecentKeys THEN Tail(l) ELSE l
    BY <1>1, <1>2, <1>3, <1>7, <2>1, Zenon DEF Remembered
  <2>3. /\ l \in Seq(DedupKeys) /\ Len(l) = Len(r) + 1 /\ l[Len(l)] = key /\ l # <<>>
        /\ \A i \in 1..Len(r) : i \in 1..Len(l) /\ l[i] = r[i]
        /\ \A i \in 1..Len(l) : i = Len(l) \/ i \in 1..Len(r)
    BY <2>1
  <2>4. \A i \in 1..Len(r) : r[i] # key
    BY <1>7, InRange, Zenon
  <2>5. ASSUME NEW i \in 1..Len(l), NEW j \in 1..Len(l), l[i] = l[j]  PROVE i = j
    <3>1. CASE i \in 1..Len(r) /\ j \in 1..Len(r)
      <4>1. l[i] = r[i] /\ l[j] = r[j]
        BY <2>3, <3>1, Zenon
      <4> QED  BY <1>4, <2>5, <3>1, <4>1, Zenon
    <3>2. CASE i \notin 1..Len(r) \/ j \notin 1..Len(r)
      BY <2>3, <2>4, <2>5, <3>2, Zenon
    <3> QED  BY <3>1, <3>2, Zenon
  <2>6. CASE Len(l) <= MaxRecentKeys
    <3>1. ~(Len(l) > MaxRecentKeys)
      BY <2>3, <2>6, ProcessorAssumption
    <3> QED  BY <2>2, <2>5, <2>6, <3>1, Zenon
  <2>7. CASE Len(l) > MaxRecentKeys
    <3>1. PICK t : t = Tail(l)
      BY Zenon
    <3>2. /\ Len(t) = Len(l) - 1
          /\ \A i \in 1..Len(t) : i + 1 \in 1..Len(l) /\ t[i] = l[i + 1]
      BY <2>3, <3>1, SMTT(20)
    <3>3. \A i, j \in 1..Len(t) : i + 1 = j + 1 => i = j
      OBVIOUS
    <3>4. ASSUME NEW i \in 1..Len(t), NEW j \in 1..Len(t), t[i] = t[j]  PROVE i = j
      <4>1. PICK a \in 1..Len(l) : a = i + 1 /\ t[i] = l[a]
        BY <3>2, Zenon
      <4>2. PICK b \in 1..Len(l) : b = j + 1 /\ t[j] = l[b]
        BY <3>2, Zenon
      <4>3. a = b
        BY <2>5, <3>4, <4>1, <4>2, Zenon
      <4> QED  BY <3>3, <4>1, <4>2, <4>3, Zenon
    <3>5. Len(t) <= MaxRecentKeys
      BY <1>4, <2>3, <3>2, ProcessorAssumption
    <3> QED  BY <2>2, <2>7, <3>1, <3>4, <3>5, Zenon
  <2>8. Len(l) <= MaxRecentKeys \/ Len(l) > MaxRecentKeys
    BY <2>3, ProcessorAssumption
  <2> QED  BY <2>6, <2>7, <2>8, Zenon
<1> QED  BY <1>6, <1>7, Zenon

LEMMA BooksStep == TaskSums /\ FlowInv /\ QueueBooks /\ [Next]_allVars => QueueBooks'
<1> SUFFICES ASSUME TaskSums, FlowInv, QueueBooks, [Next]_allVars  PROVE QueueBooks'
  BY Zenon
<1>1. ASSUME UNCHANGED <<queue, queued_bytes, queued_keys, recent>>  PROVE QueueBooks'
  BY <1>1, Zenon DEF QueueBooks
<1>2. CASE \E n \in 1..2, time \in 0..now : ScheduleLast(n, time)
  BY <1>2, ScheduleBooks, Zenon
<1>3. CASE RunNext
  <2>1. ASSUME RunTake  PROVE QueueBooks'
    BY <2>1, TakeBooks, Zenon
  <2>2. ASSUME RunRemember  PROVE QueueBooks'
    BY <2>2, RememberBooks, Zenon
  <2> QED  BY <1>1, <1>3, <2>1, <2>2, Zenon DEF RunNext, RunEvaluate, RunCheckAgain
<1>4. CASE RunCommit
  BY <1>1, <1>4, Zenon DEF RunCommit, RunCommitted
<1>5. ASSUME UNCHANGED executorVars  PROVE QueueBooks'
  BY <1>1, <1>5, Zenon DEF executorVars
<1> QED  BY <1>2, <1>3, <1>4, <1>5, Zenon DEF Next, allVars, taskVars, Tick, Restart, Discover,
            ActivateCatalog, ApplyWatchSnapshot, BatchRead, Normalize, CollectCommit, Rebuild

INSTANCE Lemmas

LEMMA TasksSum == TaskSums
<1>1. Bytes(<<>>) = 0
  BY BytesEmpty, Zenon
<1>2. \A q \in Seq(Tasks), task \in Tasks : Bytes(Append(q, task)) = Bytes(q) + task.bytes
  BY TasksHaveBytes, BytesAppend, Zenon
<1>3. \A q \in Seq(Tasks) \ {<<>>} :
        Bytes(q) = Bytes(Tail(q)) + q[1].bytes /\ Bytes(Tail(q)) \in Nat
  BY TasksHaveBytes, BytesTail, Zenon
<1> QED  BY <1>1, <1>2, <1>3, Zenon DEF TaskSums

(* The executor's queue keeps its limits and its books, whatever the limits *)
(* are and however often tasks are scheduled, run and remembered.           *)
THEOREM QueueExactCorrect == Spec => []QueueExact
<1>1. Init => QueueBooks
  BY TasksSum, BooksInitial, Zenon
<1>2. FlowInv /\ QueueBooks /\ [Next]_allVars => QueueBooks'
  BY TasksSum, BooksStep, Zenon
<1>3. FlowInv /\ QueueBooks => QueueExact
  BY BooksAreExact, Zenon DEF FlowInv
<1> QED  BY <1>1, <1>2, <1>3, FlowHolds, PTL DEF Spec

=============================================================================
