------------------------ MODULE WatchManager_proofs ------------------------
(***************************************************************************)
(* Proofs about WatchManager, for every set of owners, metrics, entities,   *)
(* requirements and catalogs and for all limits.                            *)
(*                                                                         *)
(* WatchInv is inductive.  Its parts about merging rest on MergedServes:    *)
(* the least and the greatest of a set of durations exist, so every merged  *)
(* watch serves each of its watchers and stays consistent.  Its part about  *)
(* samples rests on SlotsCounted: the scheduled times a token adds to a     *)
(* watch are new, and there are as many of them as its count goes up by.    *)
(***************************************************************************)
EXTENDS WatchManager, FiniteSetTheorems, WellFoundedInduction, TLAPS

-----------------------------------------------------------------------------
(* Least and Greatest *)

(* A non-empty set of natural numbers has a least element.                  *)
LEMMA LeastNatural ==
  ASSUME NEW T \in SUBSET Nat, T # {}
  PROVE  \E i \in T : \A j \in T : ~(j < i)
<1>1. PICK i \in T : \A j \in T : ~(<<j, i>> \in OpToRel(<, Nat))
  BY NatLessThanWellFounded, WFMin, ZenonT(30)
<1> QED  BY <1>1, ZenonT(30) DEF OpToRel

(* Least chooses the least of a set of bounded integers.                    *)
LEMMA LeastFact ==
  ASSUME NEW n \in Nat, NEW S \in SUBSET (-n..n), S # {}
  PROVE  Least(S) \in S /\ \A y \in S : Least(S) <= y
<1> DEFINE T == {x + n : x \in S}
<1>0. \A x \in S : x + n \in Nat
  OBVIOUS
<1>1. T \in SUBSET Nat /\ T # {}
  BY <1>0, ZenonT(30)
<1>2. PICK i \in T : \A j \in T : ~(j < i)
  <2> HIDE DEF T
  <2> QED  BY <1>1, LeastNatural
<1>3. PICK x \in S : i = x + n
  BY <1>2
<1>4. \A y \in S : x <= y
  <2> SUFFICES ASSUME NEW y \in S PROVE x <= y
    OBVIOUS
  <2>1. y + n \in T
    OBVIOUS
  <2>2. ~(y + n < x + n)
    BY <1>2, <1>3, <2>1, ZenonT(30)
  <2> QED  BY <2>2
<1> QED  BY <1>4, ZenonT(30) DEF Least

(* Greatest chooses the greatest.                                           *)
LEMMA GreatestFact ==
  ASSUME NEW n \in Nat, NEW S \in SUBSET (-n..n), S # {}
  PROVE  Greatest(S) \in S /\ \A y \in S : y <= Greatest(S)
<1> DEFINE T == {n - x : x \in S}
<1>0. \A x \in S : n - x \in Nat
  OBVIOUS
<1>1. T \in SUBSET Nat /\ T # {}
  BY <1>0, ZenonT(30)
<1>2. PICK i \in T : \A j \in T : ~(j < i)
  <2> HIDE DEF T
  <2> QED  BY <1>1, LeastNatural
<1>3. PICK x \in S : i = n - x
  BY <1>2
<1>4. \A y \in S : y <= x
  BY <1>2, <1>3
<1> QED  BY <1>4, ZenonT(30) DEF Greatest

-----------------------------------------------------------------------------
(* buildSnapshot *)

(* The watches a snapshot may be built from: typed, and valid when they     *)
(* were created.                                                            *)
ValidWatches(lg) ==
  /\ lg \in [DOMAIN lg -> Watch]
  /\ \A w \in DOMAIN lg : TimingConsistent(lg[w].requirement)

ValidBaseline(bs) ==
  \A b \in bs : TimingConsistent(b) /\ b.key.kind = "heartbeat"

(* A merged watch serves all its watchers and is itself consistent.         *)
LEMMA MergedServes ==
  ASSUME NEW lg, ValidWatches(lg), NEW ids \in SUBSET DOMAIN lg, ids # {}, NEW key
  PROVE  LET e == Merged(lg, key, ids)
         IN  /\ e.key = key
             /\ TimingConsistent(e)
             /\ \A w \in ids : Serves(e, w, lg[w].requirement)
<1> DEFINE P == {lg[w].requirement.period : w \in ids}
           F == {lg[w].requirement.freshness : w \in ids}
           T == {lg[w].requirement.retention : w \in ids}
           Q == {lg[w].requirement.priority : w \in ids}
<1>0. \A w \in ids : /\ lg[w].requirement.period \in -MaxDuration..MaxDuration
                     /\ lg[w].requirement.freshness \in -MaxDuration..MaxDuration
                     /\ lg[w].requirement.retention \in -MaxDuration..MaxDuration
                     /\ lg[w].requirement.priority \in -3..3
                     /\ TimingConsistent(lg[w].requirement)
  BY DEF ValidWatches, Watch, Requirement, Nanoseconds, Priorities
<1>1. P # {} /\ F # {} /\ T # {} /\ Q # {}
  OBVIOUS
<1>2. /\ P \in SUBSET (-MaxDuration..MaxDuration)
      /\ F \in SUBSET (-MaxDuration..MaxDuration)
      /\ T \in SUBSET (-MaxDuration..MaxDuration)
      /\ Q \in SUBSET (-3..3)
  BY <1>0
<1>3. /\ Least(P) \in P /\ \A y \in P : Least(P) <= y
      /\ Least(F) \in F /\ \A y \in F : Least(F) <= y
      /\ Greatest(T) \in T /\ \A y \in T : y <= Greatest(T)
      /\ Greatest(Q) \in Q /\ \A y \in Q : y <= Greatest(Q)
  <2> HIDE DEF P, F, T, Q
  <2> QED  BY <1>1, <1>2, LeastFact, GreatestFact, WatchLimitsAssumption, ZenonT(30)
<1>4. \A w \in ids : /\ lg[w].requirement.period \in P
                     /\ lg[w].requirement.freshness \in F
                     /\ lg[w].requirement.retention \in T
                     /\ lg[w].requirement.priority \in Q
  OBVIOUS
<1> DEFINE e == Merged(lg, key, ids)
<1>5. /\ e.key = key /\ e.logical_watches = ids
      /\ e.period = Least(P) /\ e.freshness = Least(F)
      /\ e.retention = Greatest(T) /\ e.priority = Greatest(Q)
  BY DEF Merged
<1>6. \A w \in ids : Serves(e, w, lg[w].requirement)
  <2> HIDE DEF P, F, T, Q, e
  <2> QED  BY <1>3, <1>4, <1>5, <1>2, WatchLimitsAssumption, ZenonT(30) DEF Serves
<1>7. TimingConsistent(e)
  <2>1. PICK p \in ids : Least(P) = lg[p].requirement.period
    BY <1>3, ZenonT(30)
  <2>2. PICK f \in ids : Least(F) = lg[f].requirement.freshness
    BY <1>3, ZenonT(30)
  <2>3. Least(P) > 0
    BY <2>1, <1>0 DEF TimingConsistent
  <2>4. Least(P) <= Least(F)
    <3>1. Least(P) <= lg[f].requirement.period
      BY <1>3
    <3> QED  BY <3>1, <2>1, <2>2, <1>0, WatchLimitsAssumption DEF TimingConsistent
  <2>5. Least(F) <= Greatest(T)
    <3>1. lg[f].requirement.retention <= Greatest(T)
      BY <1>3
    <3>2. Greatest(T) \in Int
      <4>1. PICK t \in ids : Greatest(T) = lg[t].requirement.retention
        BY <1>3, ZenonT(30)
      <4> QED  BY <4>1, <1>0, WatchLimitsAssumption
    <3> QED  BY <3>1, <3>2, <2>2, <1>0, WatchLimitsAssumption DEF TimingConsistent
  <2> QED  BY <2>3, <2>4, <2>5, <1>5 DEF TimingConsistent
<1> QED  BY <1>5, <1>6, <1>7

(* A snapshot built from valid watches and a valid baseline serves every    *)
(* watch and has consistent timings.                                        *)
LEMMA BuildServes ==
  ASSUME NEW lg, ValidWatches(lg), NEW bs, ValidBaseline(bs), NEW g, NEW v
  PROVE  LET s == BuildSnapshot(lg, bs, g, v)
         IN  AllServed(s) /\ \A e \in s.effective_watches : TimingConsistent(e)
<1> DEFINE s == BuildSnapshot(lg, bs, g, v)
           Keys == UNION {KeysOf(lg[w]) : w \in DOMAIN lg}
           M(key) == Merged(lg, key, WatchersOf(lg, key))
<1>1. s.logical_watches = lg /\ s.effective_watches = bs \cup {M(key) : key \in Keys}
  BY DEF BuildSnapshot, Effective
<1>2. \A key \in Keys : WatchersOf(lg, key) # {} /\ WatchersOf(lg, key) \in SUBSET DOMAIN lg
  BY DEF WatchersOf
<1>3. \A key \in Keys : /\ M(key).key = key /\ TimingConsistent(M(key))
                        /\ \A w \in WatchersOf(lg, key) :
                             Serves(M(key), w, lg[w].requirement)
  <2> TAKE key \in Keys
  <2> HIDE DEF Keys
  <2> QED  BY <1>2, MergedServes
<1>4. \A key \in Keys : key.kind = "metric"
  BY DEF KeysOf, MetricKey
<1>5. \A e \in s.effective_watches : TimingConsistent(e)
  <2> HIDE DEF Keys, M, s
  <2> QED  BY <1>1, <1>3 DEF ValidBaseline
<1>6. AllServed(s)
  <2> SUFFICES ASSUME NEW w \in DOMAIN lg, NEW m \in lg[w].requirement.metrics
               PROVE  \E e \in s.effective_watches :
                        /\ e.key = MetricKey(lg[w].entity, m)
                        /\ \A f \in s.effective_watches : f.key = e.key => f = e
                        /\ Serves(e, w, lg[w].requirement)
    BY <1>1, Zenon DEF AllServed
  <2> DEFINE key == MetricKey(lg[w].entity, m)
  <2>1. key \in Keys /\ w \in WatchersOf(lg, key)
    BY DEF KeysOf, WatchersOf
  <2>2. M(key) \in s.effective_watches /\ M(key).key = key
        /\ Serves(M(key), w, lg[w].requirement)
    <3> HIDE DEF Keys, M, key, s
    <3> QED  BY <2>1, <1>1, <1>3
  <2>3. \A f \in s.effective_watches : f.key = key => f = M(key)
    <3> SUFFICES ASSUME NEW f \in s.effective_watches, f.key = key PROVE f = M(key)
      OBVIOUS
    <3>1. f \notin bs
      <4> HIDE DEF Keys, key
      <4> QED  BY <2>1, <1>4 DEF ValidBaseline
    <3>2. PICK k2 \in Keys : f = M(k2)
      <4> HIDE DEF Keys, M, key, s
      <4> QED  BY <3>1, <1>1
    <3>3. k2 = key
      <4> HIDE DEF Keys, M, key, s
      <4> QED  BY <3>2, <1>3
    <3> QED  BY <3>2, <3>3
  <2> HIDE DEF M, s
  <2> QED  BY <2>2, <2>3
<1> QED  BY <1>5, <1>6

-----------------------------------------------------------------------------
(* recordSamples *)

LEMMA TimesMonotone ==
  ASSUME NEW p \in Nat, NEW x \in Int, NEW y \in Int, x <= y
  PROVE  p * x <= p * y
<1>1. p * (y - x) >= 0
  OBVIOUS
<1>2. p * (y - x) = p * y - p * x
  OBVIOUS
<1> QED  BY <1>1, <1>2

(* The periods that Skipped leaves out are the ones not after the last      *)
(* sample.                                                                  *)
LEMMA DivBound ==
  ASSUME NEW a \in Nat, NEW p \in Nat \ {0}, NEW n \in Int, a \div p + 1 <= n
  PROVE  a < p * n
<1> DEFINE q == a \div p
<1>1. q \in Int /\ a % p \in 0..(p - 1) /\ a = p * q + (a % p)
  OBVIOUS
<1>2. p * (q + 1) = p * q + p
  BY <1>1
<1>3. p * (q + 1) <= p * n
  BY <1>1, TimesMonotone
<1> HIDE DEF q
<1>4. p * n \in Int /\ p * q \in Int
  BY <1>1
<1> QED  BY <1>1, <1>2, <1>3, <1>4

TokenTimes(first, p, s, count) == {first + k * p : k \in s..(count - 1)}

(* The times s .. count - 1 of a token: all different, and the last is the  *)
(* one LastScheduled names.                                                 *)
LEMMA SlotsFact ==
  ASSUME NEW first \in Nat, NEW p \in Nat \ {0}, NEW s \in Nat,
         NEW count \in Nat, s < count
  PROVE  LET S == TokenTimes(first, p, s, count)
         IN  /\ S \in SUBSET Nat
             /\ IsFiniteSet(S) /\ Cardinality(S) = count - s
             /\ LastScheduled(first, p, count) \in S
             /\ \A t \in S : t <= LastScheduled(first, p, count)
<1> DEFINE I == s..(count - 1)
           S == {first + k * p : k \in I}
           f == [k \in I |-> first + k * p]
<1>1. \A k \in I : k \in Nat /\ k * p \in Nat /\ k * p = p * k
  OBVIOUS
<1>2. S \in SUBSET Nat
  BY <1>1
<1>3. \A k, l \in I : k < l => k * p < l * p
  <2> SUFFICES ASSUME NEW k \in I, NEW l \in I, k < l PROVE k * p < l * p
    OBVIOUS
  <2>1. p * (k + 1) <= p * l
    BY TimesMonotone
  <2>2. p * (k + 1) = p * k + p
    OBVIOUS
  <2> HIDE DEF I
  <2> QED  BY <2>1, <2>2, <1>1
<1>4. f \in Bijection(I, S)
  <2>1. \A k, l \in I : k # l => first + k * p # first + l * p
    <3> HIDE DEF S, f
    <3> QED  BY <1>1, <1>3
  <2> QED  BY <2>1, ZenonT(30) DEF Bijection, Injection, Surjection, IsInjective
<1>5. IsFiniteSet(I) /\ Cardinality(I) = count - s
  BY FS_Interval
<1>6. IsFiniteSet(S) /\ Cardinality(S) = count - s
  <2> HIDE DEF I, S, f
  <2> QED  BY <1>4, <1>5, FS_Bijection DEF ExistsBijection
<1>7. count - 1 \in I /\ LastScheduled(first, p, count) = first + (count - 1) * p
  BY <1>1 DEF LastScheduled
<1>8. \A t \in S : t <= LastScheduled(first, p, count)
  <2> SUFFICES ASSUME NEW k \in I
               PROVE  first + k * p <= LastScheduled(first, p, count)
    OBVIOUS
  <2>1. k = count - 1 \/ k < count - 1
    OBVIOUS
  <2> HIDE DEF I
  <2> QED  BY <2>1, <1>1, <1>3, <1>7
<1>9. TokenTimes(first, p, s, count) = S
  BY DEF TokenTimes
<1>10. LastScheduled(first, p, count) \in S
  BY <1>7, ZenonT(30)
<1> HIDE DEF S
<1> QED  BY <1>2, <1>6, <1>8, <1>9, <1>10, ZenonT(30)

(* The sample maps share their domain and are typed.                        *)
SampleTypes ==
  /\ DOMAIN sample_counts = DOMAIN last_sample_times
  /\ DOMAIN sample_counts = DOMAIN counted
  /\ sample_counts \in [DOMAIN sample_counts -> Nat]
  /\ last_sample_times \in [DOMAIN sample_counts -> Nat]
  /\ counted \in [DOMAIN sample_counts -> SUBSET Nat]

(* What a token does to one watch it hits: the times it adds are new, the   *)
(* count goes up by their number, the last of them is the greatest, and the *)
(* watch's last sample does not move back.                                  *)
LEMMA SlotsCounted ==
  ASSUME SampleTypes, SamplesExact, NEW w, NEW first \in Nat,
         NEW p \in Nat \ {0}, NEW count \in Nat,
         Skipped(w, first, p) < count
  PROVE  LET new == Counted(w) \cup Slots(w, first, p, count)
             last == LastScheduled(first, p, count)
         IN  /\ Updated(w, first, p, count) \in Nat
             /\ new \in SUBSET Nat /\ last \in Nat
             /\ Updated(w, first, p, count) = Cardinality(new)
             /\ last \in new /\ \A t \in new : t <= last
             /\ w \in DOMAIN last_sample_times => last_sample_times[w] <= last
<1> DEFINE s == Skipped(w, first, p)
           C == Counted(w)
           S == Slots(w, first, p, count)
           last == LastScheduled(first, p, count)
           old == last_sample_times[w]
<1>1. s \in Nat
  BY DEF Skipped, SampleTypes
<1>2. /\ S \in SUBSET Nat /\ IsFiniteSet(S) /\ Cardinality(S) = count - s
      /\ last \in S /\ \A t \in S : t <= last
  <2>1. s < count
    OBVIOUS
  <2> HIDE DEF s
  <2>2. S = TokenTimes(first, p, s, count)
    BY DEF Slots, TokenTimes, s
  <2> HIDE DEF S
  <2>3. ASSUME NEW n \in Nat, n < count
        PROVE  LET R == TokenTimes(first, p, n, count)
               IN  /\ R \in SUBSET Nat
                   /\ IsFiniteSet(R) /\ Cardinality(R) = count - n
                   /\ last \in R /\ \A t \in R : t <= last
    BY <2>3, SlotsFact
  <2> HIDE DEF last
  <2> QED  BY <1>1, <2>1, <2>2, <2>3
<1>3. /\ C \in SUBSET Nat /\ SampleCount(w) \in Nat
      /\ SampleCount(w) = Cardinality(C) /\ IsFiniteSet(C)
  <2>1. CASE w \in DOMAIN counted
    <3>1. /\ counted[w] \in SUBSET Nat /\ old \in Nat
          /\ \A t \in counted[w] : t <= old
          /\ sample_counts[w] = Cardinality(counted[w]) /\ sample_counts[w] \in Nat
      BY <2>1 DEF SampleTypes, SamplesExact
    <3>2. IsFiniteSet(counted[w])
      BY <3>1, FS_BoundedSetOfNaturals, ZenonT(30)
    <3> QED  BY <2>1, <3>1, <3>2 DEF Counted, SampleCount, SampleTypes
  <2>2. CASE w \notin DOMAIN counted
    BY <2>2, FS_EmptySet DEF Counted, SampleCount, SampleTypes
  <2> QED  BY <2>1, <2>2
<1>4. w \in DOMAIN last_sample_times => \A t \in S : old < t
  <2> SUFFICES ASSUME w \in DOMAIN last_sample_times, NEW k \in s..(count - 1)
               PROVE  old < first + k * p
    BY DEF Slots
  <2>1. old \in Nat /\ k \in Nat /\ k * p \in Nat /\ k * p = p * k
    BY <1>1 DEF SampleTypes
  <2>2. CASE old >= first
    <3>1. (old - first) \div p + 1 <= k
      BY <2>2, <1>1 DEF Skipped
    <3>2. old - first < p * k
      BY <2>1, <2>2, <3>1, DivBound
    <3> QED  BY <2>1, <3>2
  <2>3. CASE old < first
    BY <2>1, <2>3
  <2> QED  BY <2>1, <2>2, <2>3
<1>5. \A t \in C : w \in DOMAIN last_sample_times /\ t <= old /\ old \in Nat
  BY DEF Counted, SampleTypes, SamplesExact
<1> HIDE DEF C, S, s, last, old
<1>6. C \cap S = {} /\ \A t \in C : t <= last
  BY <1>2, <1>3, <1>4, <1>5
<1>7. Cardinality(C \cup S) = Cardinality(C) + Cardinality(S) /\ IsFiniteSet(C \cup S)
  <2>1. /\ Cardinality(C \cup S) = Cardinality(C) + Cardinality(S) - Cardinality(C \cap S)
        /\ IsFiniteSet(C \cup S)
    BY <1>2, <1>3, FS_Union
  <2>2. Cardinality(C \cap S) = 0
    BY <1>6, FS_EmptySet
  <2>3. Cardinality(C) \in Int /\ Cardinality(S) \in Int
    BY <1>2, <1>3, FS_CardinalityType
  <2> QED  BY <2>1, <2>2, <2>3
<1>8. Updated(w, first, p, count) = SampleCount(w) + count - s
  BY DEF Updated, s
<1>9. w \in DOMAIN last_sample_times => old <= last
  <2>1. w \in DOMAIN last_sample_times => old \in Nat
    BY DEF SampleTypes, old
  <2> QED  BY <2>1, <1>2, <1>4
<1>10. Updated(w, first, p, count) = Cardinality(C \cup S)
       /\ Updated(w, first, p, count) \in Nat
  BY <1>1, <1>2, <1>3, <1>7, <1>8 DEF s
<1> QED  BY <1>2, <1>3, <1>6, <1>9, <1>10 DEF C, S, last, old

-----------------------------------------------------------------------------
(* The inductive invariant *)

WatchInv ==
  /\ TypeOK /\ ManagerInv
  /\ SnapshotCurrent /\ WatchesCurrent
  /\ EveryWatchServed /\ EffectiveTimingConsistent /\ LimitsRespected
  /\ SamplesExact

CatalogType == [generation : Nat, entity : Entities \cup {NoEntity},
                supported : SUBSET Metrics, heartbeat : BOOLEAN]

(* The watches of lg that were there before are the same watches.           *)
SameWatches(lg) == \A w \in DOMAIN lg \cap DOMAIN logical : lg[w] = logical[w]

(* The watches of lg belong to a catalog c.                                 *)
CurrentWatches(lg, c) ==
  \A w \in DOMAIN lg : /\ lg[w].generation = c.generation
                       /\ lg[w].entity = c.entity
                       /\ lg[w].requirement.metrics # {}
                       /\ lg[w].requirement.metrics \subseteq c.supported

CurrentBaseline(bs, c) == \A b \in bs : c.heartbeat /\ b.key.entity = c.entity

(* A publish of valid, current watches and a valid, current baseline        *)
(* re-establishes everything but the samples.                               *)
LEMMA PublishInv ==
  ASSUME WatchInv, NEW lg, NEW bs,
         PublishAccepts(lg, bs), Swap(lg, bs, catalog'.generation),
         heartbeat_baseline' = bs, catalog' \in CatalogType,
         ValidWatches(lg), ValidBaseline(bs),
         CurrentWatches(lg, catalog'), CurrentBaseline(bs, catalog'),
         DOMAIN lg \subseteq 1..(next_watch_id' - 1), next_watch_id' \in 1..MaxWatchId,
         SampleTypes', SamplesExact'
  PROVE  WatchInv' /\ snapshot'.version = snapshot.version + 1
<1>1. /\ logical' = lg
      /\ snapshot' = BuildSnapshot(lg, bs, catalog'.generation, snapshot.version + 1)
  BY DEF Swap
<1>2. /\ snapshot'.version = snapshot.version + 1
      /\ snapshot'.generation = catalog'.generation
      /\ snapshot'.logical_watches = lg
      /\ snapshot'.effective_watches = Effective(lg, bs)
  BY <1>1 DEF BuildSnapshot
<1>3. snapshot'.version \in 0..MaxVersion
  BY <1>2, WatchLimitsAssumption DEF WatchInv, TypeOK, PublishAccepts
<1>4. TypeOK'
  BY <1>1, <1>3 DEF TypeOK, SampleTypes, CatalogType, ValidWatches
<1>5. catalog'.generation \in Nat
  BY DEF CatalogType
<1>6. ManagerInv'
  BY <1>1, <1>2, <1>5 DEF ManagerInv, ValidWatches, ValidBaseline, SamplesExact
<1>7. SnapshotCurrent'
  BY <1>1, <1>2, SMTT(30) DEF SnapshotCurrent
<1>8. WatchesCurrent'
  BY <1>1 DEF WatchesCurrent, CurrentWatches, CurrentBaseline
<1>9. EveryWatchServed' /\ EffectiveTimingConsistent'
  BY <1>1, BuildServes DEF EveryWatchServed, EffectiveTimingConsistent
<1>10. LimitsRespected'
  BY <1>2 DEF LimitsRespected, PublishAccepts
<1> QED  BY <1>2, <1>4, <1>6, <1>7, <1>8, <1>9, <1>10 DEF WatchInv

(* publish forgets the samples of the watches that are gone and keeps those *)
(* of the others.                                                           *)
LEMMA ForgetInv ==
  ASSUME SampleTypes, SamplesExact, NEW lg, SameWatches(lg),
         logical' = lg, ForgetSamples(DOMAIN lg)
  PROVE  /\ SampleTypes' /\ SamplesExact'
         /\ \A w \in DOMAIN last_sample_times \cap DOMAIN last_sample_times' :
              last_sample_times'[w] >= last_sample_times[w]
<1> DEFINE D == DOMAIN sample_counts \cap DOMAIN lg
<1>1. /\ sample_counts' = [w \in D |-> sample_counts[w]]
      /\ last_sample_times' = [w \in D |-> last_sample_times[w]]
      /\ counted' = [w \in D |-> counted[w]]
  BY DEF ForgetSamples, Kept, SampleTypes
<1>2. \A w \in D : /\ w \in DOMAIN logical /\ lg[w] = logical[w]
                   /\ sample_counts[w] \in Nat /\ last_sample_times[w] \in Nat
                   /\ counted[w] \in SUBSET Nat
  BY DEF SamplesExact, SameWatches, SampleTypes
<1>3. SampleTypes'
  BY <1>1, <1>2 DEF SampleTypes
<1>4. SamplesExact'
  BY <1>1, <1>2 DEF SamplesExact
<1> QED  BY <1>1, <1>2, <1>3, <1>4

(* Some of the watches there are.                                           *)
LEMMA KeptFacts ==
  ASSUME WatchInv, NEW ids, NEW lg, lg = Kept(logical, ids)
  PROVE  /\ DOMAIN lg = DOMAIN logical \cap ids
         /\ ValidWatches(lg) /\ SameWatches(lg)
         /\ \A w \in DOMAIN lg : lg[w] = logical[w]
  BY DEF Kept, ValidWatches, SameWatches, WatchInv, TypeOK, ManagerInv

LEMMA InvFacts ==
  ASSUME WatchInv
  PROVE  /\ SampleTypes /\ SamplesExact
         /\ catalog \in CatalogType /\ catalog.generation \in Nat
         /\ DOMAIN logical \subseteq 1..(next_watch_id - 1)
         /\ next_watch_id \in 1..MaxWatchId
         /\ ValidWatches(logical) /\ ValidBaseline(heartbeat_baseline)
         /\ snapshot.version # MaxVersion =>
              /\ CurrentWatches(logical, catalog)
              /\ CurrentBaseline(heartbeat_baseline, catalog)
BY DEF WatchInv, TypeOK, ManagerInv, SampleTypes, CatalogType, ValidWatches,
       ValidBaseline, WatchesCurrent, CurrentWatches, CurrentBaseline, Stuck

-----------------------------------------------------------------------------
(* One lemma per action: the invariant is kept, the version goes up by one  *)
(* with every new snapshot, ids are not reused and samples do not move      *)
(* back.                                                                    *)

NewVersion == snapshot' # snapshot => snapshot'.version = snapshot.version + 1

IdsKept ==
  /\ next_watch_id' >= next_watch_id
  /\ \A w \in DOMAIN logical' :
       /\ w \in DOMAIN logical => logical'[w] = logical[w]
       /\ w \notin DOMAIN logical => w >= next_watch_id

SamplesAdvance ==
  \A w \in DOMAIN last_sample_times \cap DOMAIN last_sample_times' :
    last_sample_times'[w] >= last_sample_times[w]

GoodStep == WatchInv' /\ NewVersion /\ IdsKept /\ SamplesAdvance

(* The catalog is replaced: its watches are of an older generation, so none *)
(* is retained and only the version can make publish refuse.                *)
LEMMA ActivateCatalogStep ==
  ASSUME WatchInv, NEW g \in 1..MaxGeneration, NEW c \in Catalogs,
         ActivateCatalog(g, c)
  PROVE  GoodStep
<1> DEFINE retained == Retained(g, c.entity)
           ids == {w \in DOMAIN logical : /\ logical[w].generation = g
                                          /\ logical[w].entity = c.entity}
<1>1. /\ DOMAIN retained = DOMAIN logical \cap ids
      /\ ValidWatches(retained) /\ SameWatches(retained)
      /\ \A w \in DOMAIN retained : retained[w] = logical[w]
  <2> HIDE DEF ids
  <2>1. retained = Kept(logical, ids)
    BY DEF Retained, ids
  <2> HIDE DEF retained
  <2> QED  BY <2>1, KeptFacts
<1>2. g \in Nat /\ g > catalog.generation /\ catalog.generation \in Nat
  BY InvFacts, WatchLimitsAssumption DEF ActivateCatalog
<1>3. /\ catalog' \in CatalogType /\ catalog'.generation = g
      /\ heartbeat_baseline' = {} /\ next_watch_id' = next_watch_id
  BY <1>2, CatalogsAssumption DEF ActivateCatalog, CatalogType, Capabilities
<1>4. CASE /\ PublishAccepts(retained, {})
           /\ Publish(retained, {}, g)
  <2>1. DOMAIN retained = {}
    BY <1>1, <1>2, <1>4, InvFacts DEF PublishAccepts, CurrentWatches
  <2> HIDE DEF retained
  <2>2. logical' = retained
    BY <1>4, SMTT(30) DEF Publish, Swap
  <2>3. SampleTypes' /\ SamplesExact' /\ SamplesAdvance
    BY <1>1, <1>4, <2>2, InvFacts, ForgetInv DEF Publish, SamplesAdvance
  <2>4. /\ ValidBaseline({}) /\ CurrentBaseline({}, catalog')
        /\ CurrentWatches(retained, catalog')
    BY <2>1 DEF ValidBaseline, CurrentBaseline, CurrentWatches
  <2>5. WatchInv' /\ snapshot'.version = snapshot.version + 1
    BY <1>1, <1>3, <1>4, <2>1, <2>3, <2>4, InvFacts, PublishInv DEF Publish
  <2>6. IdsKept
    BY <1>3, <2>1, <2>2, InvFacts, WatchLimitsAssumption DEF IdsKept
  <2> QED  BY <2>3, <2>5, <2>6, SMTT(30) DEF GoodStep, NewVersion
<1>5. CASE /\ ~PublishAccepts(retained, {})
           /\ UNCHANGED <<logical, snapshot, sampleVars>>
  <2>1. snapshot.version = MaxVersion
    <3> SUFFICES ASSUME snapshot.version # MaxVersion PROVE FALSE
      OBVIOUS
    <3>1. DOMAIN retained = {}
      BY <1>1, <1>2, InvFacts DEF CurrentWatches
    <3> HIDE DEF retained
    <3>2. Effective(retained, {}) = {}
      BY <3>1 DEF Effective
    <3>3. /\ Cardinality(DOMAIN retained) = 0
          /\ Cardinality(Effective(retained, {})) = 0
      BY <3>1, <3>2, FS_EmptySet
    <3> QED  BY <1>5, <3>3, WatchLimitsAssumption DEF PublishAccepts
  <2> HIDE DEF retained
  <2>2. UNCHANGED <<logical, snapshot, sample_counts, last_sample_times, counted>>
    BY <1>5 DEF sampleVars
  <2>3. snapshot.generation \in 0..catalog.generation
    BY DEF WatchInv, ManagerInv
  <2>4. Stuck'
    BY <1>2, <1>3, <2>1, <2>2, <2>3 DEF Stuck
  <2>5. TypeOK'
    BY <1>3, <2>2 DEF WatchInv, TypeOK, CatalogType
  <2>6. ManagerInv'
    BY <1>2, <1>3, <2>2 DEF WatchInv, ManagerInv
  <2>7. SnapshotCurrent' /\ WatchesCurrent'
    BY <2>4 DEF SnapshotCurrent, WatchesCurrent
  <2>8. EveryWatchServed' /\ EffectiveTimingConsistent' /\ LimitsRespected'
    BY <2>2 DEF WatchInv, EveryWatchServed, EffectiveTimingConsistent, LimitsRespected
  <2>9. SamplesExact'
    BY <2>2 DEF WatchInv, SamplesExact
  <2>10. WatchInv'
    BY <2>5, <2>6, <2>7, <2>8, <2>9 DEF WatchInv
  <2>11. NewVersion /\ IdsKept
    BY <1>3, <2>2, InvFacts, WatchLimitsAssumption DEF NewVersion, IdsKept
  <2>12. SamplesAdvance
    BY <2>2, InvFacts DEF SamplesAdvance, SampleTypes
  <2> QED  BY <2>10, <2>11, <2>12 DEF GoodStep
<1> QED  BY <1>4, <1>5 DEF ActivateCatalog

(* A publish under the same catalog.                                        *)
LEMMA PublishStep ==
  ASSUME WatchInv, NEW lg, NEW bs, PublishAccepts(lg, bs),
         Publish(lg, bs, catalog.generation), heartbeat_baseline' = bs,
         UNCHANGED catalog, ValidWatches(lg), SameWatches(lg), ValidBaseline(bs),
         CurrentWatches(lg, catalog), CurrentBaseline(bs, catalog),
         \A w \in DOMAIN lg \ DOMAIN logical : w = next_watch_id,
         DOMAIN lg \subseteq 1..(next_watch_id' - 1),
         next_watch_id' \in 1..MaxWatchId, next_watch_id' >= next_watch_id
  PROVE  GoodStep
<1>1. logical' = lg /\ Swap(lg, bs, catalog'.generation)
  BY DEF Publish, Swap
<1>2. SampleTypes' /\ SamplesExact' /\ SamplesAdvance
  BY <1>1, InvFacts, ForgetInv DEF Publish, SamplesAdvance
<1>3. WatchInv' /\ snapshot'.version = snapshot.version + 1
  BY <1>1, <1>2, InvFacts, PublishInv
<1>4. IdsKept
  BY <1>1, InvFacts, WatchLimitsAssumption DEF IdsKept, SameWatches
<1> QED  BY <1>2, <1>3, <1>4 DEF GoodStep, NewVersion

LEMMA BaselineStep ==
  ASSUME WatchInv,
         \/ \E t \in Timings : SetFirmwareHeartbeatBaseline(t)
         \/ ClearFirmwareHeartbeatBaseline
  PROVE  GoodStep
<1> DEFINE bs == heartbeat_baseline'
<1>1. /\ PublishAccepts(logical, bs) /\ Publish(logical, bs, catalog.generation)
      /\ UNCHANGED <<catalog, next_watch_id>>
  BY ZenonT(30) DEF SetFirmwareHeartbeatBaseline, ClearFirmwareHeartbeatBaseline
<1>2. ValidBaseline(bs) /\ CurrentBaseline(bs, catalog)
  <2>1. CASE ClearFirmwareHeartbeatBaseline
    BY <2>1 DEF ClearFirmwareHeartbeatBaseline, ValidBaseline, CurrentBaseline
  <2>2. ASSUME NEW t \in Timings, SetFirmwareHeartbeatBaseline(t)
        PROVE  ValidBaseline(bs) /\ CurrentBaseline(bs, catalog)
    <3>1. bs = {Baseline(t)} /\ catalog.heartbeat
      BY <2>2 DEF SetFirmwareHeartbeatBaseline
    <3>2. /\ Baseline(t).key.kind = "heartbeat"
          /\ Baseline(t).key.entity = catalog.entity
          /\ Baseline(t).period = t.period
          /\ Baseline(t).freshness = HeartbeatFreshness
          /\ Baseline(t).retention = t.retention
      BY DEF Baseline
    <3>3. TimingConsistent(Baseline(t))
      BY <2>2, <3>2, TimingsAssumption, WatchLimitsAssumption
         DEF SetFirmwareHeartbeatBaseline, TimingConsistent, Nanoseconds
    <3> HIDE DEF bs
    <3> QED  BY <3>1, <3>2, <3>3, SMTT(30) DEF ValidBaseline, CurrentBaseline
  <2> QED  BY <2>1, <2>2, SMTT(30)
<1>3. SameWatches(logical)
  BY DEF SameWatches
<1>4. CurrentWatches(logical, catalog)
  BY <1>1, InvFacts DEF PublishAccepts
<1>5. next_watch_id' = next_watch_id /\ next_watch_id >= next_watch_id
  BY <1>1, InvFacts, WatchLimitsAssumption
<1> HIDE DEF bs
<1>6. heartbeat_baseline' = bs
  BY SMTT(30) DEF bs
<1> QED  BY <1>1, <1>2, <1>3, <1>4, <1>5, <1>6, InvFacts, PublishStep

(* A new watch is valid and current.                                        *)
LEMMA CreateStep ==
  ASSUME WatchInv, NEW o \in Owners, NEW r \in Requirements,
         NEW g \in 1..MaxGeneration, NEW e \in Entities, Create(o, r, g, e)
  PROVE  GoodStep
<1> DEFINE lg == WithWatch(o, r, g, e)
           new == [owner |-> o, generation |-> g, entity |-> e,
                   requirement |-> [r EXCEPT !.metrics = @ \cap catalog.supported]]
<1>1. /\ ValidateRequirement(r, g, e)
      /\ PublishAccepts(lg, heartbeat_baseline)
      /\ Publish(lg, heartbeat_baseline, catalog.generation)
      /\ UNCHANGED <<catalog, heartbeat_baseline>>
      /\ next_watch_id' = next_watch_id + 1 /\ next_watch_id # MaxWatchId
      /\ r.metrics \cap catalog.supported # {}
  BY ZenonT(30) DEF Create, NextWatchId
<1>2. /\ DOMAIN lg = DOMAIN logical \cup {next_watch_id}
      /\ lg = [w \in DOMAIN lg |-> lg[w]]
      /\ lg[next_watch_id] = new
      /\ \A w \in DOMAIN logical : w # next_watch_id /\ lg[w] = logical[w]
  BY InvFacts, WatchLimitsAssumption DEF WithWatch
<1>3. /\ new \in Watch
      /\ new.generation = g /\ new.entity = e
      /\ new.requirement.metrics = r.metrics \cap catalog.supported
      /\ new.requirement.period = r.period
      /\ new.requirement.freshness = r.freshness
      /\ new.requirement.retention = r.retention
  BY RequirementsAssumption, WatchLimitsAssumption DEF Watch, Requirement
<1>4. r.period \in Int /\ r.freshness \in Int /\ r.retention \in Int
  BY RequirementsAssumption, WatchLimitsAssumption, SMTT(30) DEF Requirement, Nanoseconds
<1>5. TimingConsistent(new.requirement)
  <2>1. r.period > 0 /\ r.freshness >= r.period /\ r.retention >= r.freshness
    BY <1>1, Zenon DEF ValidateRequirement
  <2> HIDE DEF new
  <2> QED  BY <1>3, <1>4, <2>1, SMTT(30) DEF TimingConsistent
<1>6. CurrentWatches(logical, catalog) /\ CurrentBaseline(heartbeat_baseline, catalog)
  BY <1>1, InvFacts, SMTT(30) DEF PublishAccepts
<1> HIDE DEF lg, new
<1>7. ValidWatches(lg) /\ SameWatches(lg)
  BY <1>2, <1>3, <1>5, InvFacts DEF ValidWatches, SameWatches
<1>8. CurrentWatches(lg, catalog)
  BY <1>1, <1>2, <1>3, <1>6 DEF CurrentWatches, ValidateRequirement
<1>9. /\ DOMAIN lg \subseteq 1..(next_watch_id' - 1)
      /\ next_watch_id' \in 1..MaxWatchId /\ next_watch_id' >= next_watch_id
      /\ \A w \in DOMAIN lg \ DOMAIN logical : w = next_watch_id
  BY <1>1, <1>2, InvFacts, WatchLimitsAssumption
<1> QED  BY <1>1, <1>6, <1>7, <1>8, <1>9, InvFacts, PublishStep, ZenonT(30)

LEMMA RemoveStep ==
  ASSUME WatchInv, NEW ids, Remove(ids)
  PROVE  GoodStep
<1> DEFINE lg == Kept(logical, DOMAIN logical \ ids)
<1>1. /\ PublishAccepts(lg, heartbeat_baseline)
      /\ Publish(lg, heartbeat_baseline, catalog.generation)
      /\ UNCHANGED <<catalog, heartbeat_baseline, next_watch_id>>
  BY DEF Remove
<1> HIDE DEF lg
<1>2. /\ DOMAIN lg \subseteq DOMAIN logical
      /\ ValidWatches(lg) /\ SameWatches(lg)
      /\ \A w \in DOMAIN lg : lg[w] = logical[w]
  BY KeptFacts, SMTT(30) DEF lg
<1>3. CurrentWatches(lg, catalog) /\ CurrentBaseline(heartbeat_baseline, catalog)
  BY <1>1, <1>2, InvFacts DEF PublishAccepts, CurrentWatches
<1>4. /\ DOMAIN lg \subseteq 1..(next_watch_id' - 1)
      /\ next_watch_id' \in 1..MaxWatchId /\ next_watch_id' >= next_watch_id
      /\ \A w \in DOMAIN lg \ DOMAIN logical : w = next_watch_id
  BY <1>1, <1>2, InvFacts, WatchLimitsAssumption, SMTT(30)
<1> QED  BY <1>1, <1>2, <1>3, <1>4, InvFacts, PublishStep

(* The samples of a token are counted exactly once.                         *)
LEMMA RecordSamplesStep ==
  ASSUME WatchInv, NEW ids \in SUBSET (1..MaxWatchId), NEW first \in 0..MaxTime,
         NEW p \in Periods, NEW count \in 1..MaxSamples,
         RecordSamples(ids, first, p, count)
  PROVE  GoodStep
<1> DEFINE hit == Hit(ids, first, p, count)
           gone == Finished(ids, first, p, count)
           live == (DOMAIN sample_counts \cup hit) \ gone
           last == LastScheduled(first, p, count)
           Up(w) == Updated(w, first, p, count)
           New(w) == Counted(w) \cup Slots(w, first, p, count)
           next == Kept(logical, DOMAIN logical \ gone)
<1>1. first \in Nat /\ p \in Nat \ {0} /\ count \in Nat
  BY WatchLimitsAssumption, SMTT(30) DEF Periods
<1>2. \A w \in hit : /\ w \in DOMAIN logical
                     /\ Up(w) \in Nat /\ New(w) \in SUBSET Nat /\ last \in Nat
                     /\ Up(w) = Cardinality(New(w))
                     /\ last \in New(w) /\ \A t \in New(w) : t <= last
                     /\ w \in DOMAIN last_sample_times => last_sample_times[w] <= last
                     /\ w \notin gone /\ logical[w].requirement.sample_limit # 0 =>
                          Up(w) < logical[w].requirement.sample_limit
  <2> SUFFICES ASSUME NEW w \in hit
               PROVE  /\ w \in DOMAIN logical
                      /\ Up(w) \in Nat /\ New(w) \in SUBSET Nat /\ last \in Nat
                      /\ Up(w) = Cardinality(New(w))
                      /\ last \in New(w) /\ \A t \in New(w) : t <= last
                      /\ w \in DOMAIN last_sample_times => last_sample_times[w] <= last
                      /\ w \notin gone /\ logical[w].requirement.sample_limit # 0 =>
                           Up(w) < logical[w].requirement.sample_limit
    BY ZenonT(30)
  <2>1. w \in DOMAIN logical /\ Skipped(w, first, p) < count
    BY DEF Hit
  <2>2. /\ Up(w) \in Nat /\ New(w) \in SUBSET Nat /\ last \in Nat
        /\ Up(w) = Cardinality(New(w))
        /\ last \in New(w) /\ \A t \in New(w) : t <= last
        /\ w \in DOMAIN last_sample_times => last_sample_times[w] <= last
    BY <1>1, <2>1, InvFacts, SlotsCounted, ZenonT(30)
  <2>3. logical[w].requirement.sample_limit \in Nat
    BY <2>1, InvFacts DEF ValidWatches, Watch, Requirement
  <2>4. w \notin gone /\ logical[w].requirement.sample_limit # 0 =>
          Up(w) < logical[w].requirement.sample_limit
    BY <2>2, <2>3 DEF Finished
  <2> QED  BY <2>1, <2>2, <2>4, SMTT(30)
<1>3. /\ sample_counts' = [w \in live |-> IF w \in hit THEN Up(w) ELSE sample_counts[w]]
      /\ last_sample_times' = [w \in live |-> IF w \in hit THEN last
                                                          ELSE last_sample_times[w]]
      /\ counted' = [w \in live |-> IF w \in hit THEN New(w) ELSE counted[w]]
      /\ UNCHANGED <<catalog, heartbeat_baseline, next_watch_id>>
  BY ZenonT(30) DEF RecordSamples
<1>4. \/ /\ gone = {} /\ UNCHANGED <<logical, snapshot>>
      \/ /\ PublishAccepts(next, heartbeat_baseline)
         /\ Swap(next, heartbeat_baseline, catalog.generation)
  BY ZenonT(30) DEF RecordSamples
<1> HIDE DEF hit, gone, last, Up, New, next
<1>5. /\ DOMAIN next = DOMAIN logical \ gone
      /\ ValidWatches(next) /\ SameWatches(next)
      /\ \A w \in DOMAIN next : next[w] = logical[w]
  BY KeptFacts, ZenonT(30) DEF next
<1>6. DOMAIN logical' = DOMAIN logical \ gone /\ \A w \in DOMAIN logical' : logical'[w] = logical[w]
  BY <1>4, <1>5 DEF Swap
<1>7. \A w \in live \ hit : w \in DOMAIN sample_counts
  OBVIOUS
<1>8. SampleTypes'
  BY <1>2, <1>3, <1>7, InvFacts, SMTT(30) DEF SampleTypes
<1>9. SamplesExact'
  <2>1. \A w \in live : w \in DOMAIN logical' /\ logical'[w] = logical[w]
    BY <1>2, <1>6, InvFacts, SMTT(30) DEF SamplesExact
  <2> SUFFICES ASSUME NEW w \in live
               PROVE  /\ sample_counts'[w] = Cardinality(counted'[w])
                      /\ last_sample_times'[w] \in counted'[w]
                      /\ \A t \in counted'[w] : t <= last_sample_times'[w]
                      /\ logical[w].requirement.sample_limit # 0 =>
                           sample_counts'[w] < logical[w].requirement.sample_limit
    BY <1>3, <2>1, ZenonT(30) DEF SamplesExact
  <2>2. CASE w \in hit
    BY <1>2, <1>3, <2>2, SMTT(30)
  <2>3. CASE w \notin hit
    BY <1>3, <1>7, <2>3, InvFacts, SMTT(30) DEF SamplesExact
  <2> QED  BY <2>2, <2>3, SMTT(30)
<1>10. SamplesAdvance
  BY <1>2, <1>3, InvFacts DEF SamplesAdvance, SampleTypes
<1>11. IdsKept
  BY <1>3, <1>6, InvFacts, WatchLimitsAssumption, SMTT(30) DEF IdsKept
<1>12. WatchInv' /\ NewVersion
  <2>1. CASE gone = {} /\ UNCHANGED <<logical, snapshot>>
    <3>1. TypeOK'
      BY <1>3, <1>8, <2>1, SMTT(30) DEF WatchInv, TypeOK, SampleTypes
    <3>2. ManagerInv'
      BY <1>3, <1>9, <2>1, SMTT(30) DEF WatchInv, ManagerInv, SamplesExact
    <3>3. SnapshotCurrent' /\ WatchesCurrent'
      BY <1>3, <2>1 DEF WatchInv, SnapshotCurrent, WatchesCurrent, Stuck
    <3>4. EveryWatchServed' /\ EffectiveTimingConsistent' /\ LimitsRespected'
      BY <2>1, SMTT(30) DEF WatchInv, EveryWatchServed, EffectiveTimingConsistent, LimitsRespected
    <3> QED  BY <2>1, <1>9, <3>1, <3>2, <3>3, <3>4 DEF WatchInv, NewVersion
  <2>2. CASE /\ PublishAccepts(next, heartbeat_baseline)
             /\ Swap(next, heartbeat_baseline, catalog.generation)
    <3>1. /\ CurrentWatches(next, catalog')
          /\ CurrentBaseline(heartbeat_baseline, catalog')
      BY <1>3, <1>5, <2>2, InvFacts DEF PublishAccepts, CurrentWatches
    <3>2. DOMAIN next \subseteq 1..(next_watch_id' - 1) /\ next_watch_id' \in 1..MaxWatchId
      BY <1>3, <1>5, InvFacts, SMTT(30)
    <3>3. WatchInv' /\ snapshot'.version = snapshot.version + 1
      BY <1>3, <1>5, <1>8, <1>9, <2>2, <3>1, <3>2, InvFacts, PublishInv
    <3> QED  BY <3>3, SMTT(30) DEF NewVersion
  <2> QED  BY <1>4, <2>1, <2>2
<1> QED  BY <1>10, <1>11, <1>12, SMTT(30) DEF GoodStep

-----------------------------------------------------------------------------
(* The theorems *)

LEMMA InitInv == Init => WatchInv
<1> SUFFICES ASSUME Init PROVE WatchInv
  OBVIOUS
<1>0. logical = [w \in {} |-> 0] /\ DOMAIN logical = {}
  BY DEF Init
<1>1. /\ snapshot.version = 0 /\ snapshot.generation = 0
      /\ snapshot.logical_watches = logical
      /\ snapshot.effective_watches = Effective(logical, {})
      /\ catalog.generation = 0 /\ heartbeat_baseline = {}
  BY SMTT(30) DEF Init, BuildSnapshot
<1>2. Effective(logical, {}) = {}
  BY <1>0, SMTT(30) DEF Effective
<1>3. TypeOK
  <2>1. catalog \in CatalogType
    BY ZenonT(60) DEF Init, CatalogType
  <2>2. /\ logical \in [DOMAIN logical -> Watch]
        /\ next_watch_id = 1 /\ DOMAIN logical \subseteq 1..(next_watch_id - 1)
    BY <1>0 DEF Init
  <2>3. 1 \in 1..MaxWatchId /\ 0 \in 0..MaxVersion
    BY WatchLimitsAssumption
  <2>4. SampleTypes
    BY DEF Init, SampleTypes
  <2> QED  BY <1>1, <2>1, <2>2, <2>3, <2>4, ZenonT(30) DEF TypeOK, SampleTypes, CatalogType
<1>4. ManagerInv
  BY <1>0, <1>1 DEF Init, ManagerInv
<1>5. SnapshotCurrent
  BY <1>1 DEF Init, SnapshotCurrent, BuildSnapshot
<1>6. WatchesCurrent
  BY <1>0, <1>1 DEF WatchesCurrent
<1>7. EveryWatchServed /\ EffectiveTimingConsistent
  BY <1>0, <1>1, <1>2 DEF EveryWatchServed, AllServed, EffectiveTimingConsistent
<1>8. LimitsRespected
  <2>1. Cardinality({}) = 0
    BY FS_EmptySet
  <2>2. DOMAIN snapshot.logical_watches = {} /\ snapshot.effective_watches = {}
    BY <1>0, <1>1, <1>2
  <2>3. /\ Cardinality(DOMAIN snapshot.logical_watches) = 0
        /\ Cardinality(snapshot.effective_watches) = 0
    BY <2>1, <2>2, Zenon
  <2> QED  BY <2>3, WatchLimitsAssumption DEF LimitsRespected
<1>9. SamplesExact
  BY <1>0 DEF Init, SamplesExact
<1> QED  BY <1>3, <1>4, <1>5, <1>6, <1>7, <1>8, <1>9 DEF WatchInv

LEMMA StutterStep ==
  ASSUME WatchInv, UNCHANGED vars
  PROVE  GoodStep
<1>1. WatchInv'
  BY DEF vars, WatchInv, TypeOK, ManagerInv, SnapshotCurrent, WatchesCurrent, Stuck,
         EveryWatchServed, EffectiveTimingConsistent, LimitsRespected, SamplesExact
<1>2. NewVersion /\ IdsKept
  BY InvFacts, WatchLimitsAssumption DEF vars, NewVersion, IdsKept
<1>3. SamplesAdvance
  BY InvFacts DEF vars, SamplesAdvance, SampleTypes
<1> QED  BY <1>1, <1>2, <1>3, SMTT(30) DEF GoodStep

LEMMA NextStep ==
  ASSUME WatchInv, [Next]_vars
  PROVE  GoodStep
<1>1. CASE \E g \in 1..MaxGeneration, c \in Catalogs : ActivateCatalog(g, c)
  BY <1>1, ActivateCatalogStep
<1>2. CASE \/ \E t \in Timings : SetFirmwareHeartbeatBaseline(t)
           \/ ClearFirmwareHeartbeatBaseline
  BY <1>2, BaselineStep
<1>3. CASE \E o \in Owners, r \in Requirements, g \in 1..MaxGeneration, e \in Entities :
             Create(o, r, g, e)
  BY <1>3, CreateStep
<1>4. CASE \E o \in Owners, w \in 1..MaxWatchId : Destroy(o, w)
  BY <1>4, RemoveStep DEF Destroy
<1>5. CASE \E o \in Owners : RemoveOwner(o)
  BY <1>5, RemoveStep DEF RemoveOwner
<1>6. CASE \E ids \in SUBSET (1..MaxWatchId), first \in 0..MaxTime, period \in Periods,
              count \in 1..MaxSamples : RecordSamples(ids, first, period, count)
  BY <1>6, RecordSamplesStep
<1>7. CASE UNCHANGED vars
  BY <1>7, StutterStep
<1> QED  BY <1>1, <1>2, <1>3, <1>4, <1>5, <1>6, <1>7 DEF Next

(* Every reachable state of the manager satisfies the inductive invariant.  *)
THEOREM WatchCorrect == Spec => []WatchInv
<1>1. WatchInv /\ [Next]_vars => WatchInv'
  BY NextStep DEF GoodStep
<1> QED  BY <1>1, InitInv, PTL DEF Spec

(* The fields of the manager keep their types.                              *)
THEOREM WatchTypeCorrect == Spec => []TypeOK
<1>1. WatchInv => TypeOK
  BY DEF WatchInv
<1> QED  BY <1>1, WatchCorrect, PTL

(* snapshot() is at all times what buildSnapshot makes of the manager's     *)
(* state, unless the version counter has run out.                           *)
THEOREM SnapshotCurrentCorrect == Spec => []SnapshotCurrent
<1>1. WatchInv => SnapshotCurrent
  BY DEF WatchInv
<1> QED  BY <1>1, WatchCorrect, PTL

(* No watch and no baseline outlives the catalog it was created under.      *)
THEOREM WatchesCurrentCorrect == Spec => []WatchesCurrent
<1>1. WatchInv => WatchesCurrent
  BY DEF WatchInv
<1> QED  BY <1>1, WatchCorrect, PTL

(* Merging serves every watch for every metric it asks for.                 *)
THEOREM ServedCorrect == Spec => []EveryWatchServed
<1>1. WatchInv => EveryWatchServed
  BY DEF WatchInv
<1> QED  BY <1>1, WatchCorrect, PTL

(* Merged timings are consistent although they come from different watches. *)
THEOREM TimingCorrect == Spec => []EffectiveTimingConsistent
<1>1. WatchInv => EffectiveTimingConsistent
  BY DEF WatchInv
<1> QED  BY <1>1, WatchCorrect, PTL

(* WatchLimits hold of every published snapshot.                            *)
THEOREM LimitsCorrect == Spec => []LimitsRespected
<1>1. WatchInv => LimitsRespected
  BY DEF WatchInv
<1> QED  BY <1>1, WatchCorrect, PTL

(* A watch's count is the number of distinct scheduled times recorded for   *)
(* it, whatever the order and overlap of the tokens, and is below its       *)
(* limit for as long as the watch lives.                                    *)
THEOREM SamplesCorrect == Spec => []SamplesExact
<1>1. WatchInv => SamplesExact
  BY DEF WatchInv
<1> QED  BY <1>1, WatchCorrect, PTL

(* The snapshot never changes without its version going up by one.          *)
THEOREM VersionCorrect == Spec => VersionAdvances
<1>1. WatchInv /\ [Next]_vars =>
        [snapshot' # snapshot => snapshot'.version = snapshot.version + 1]_vars
  BY NextStep DEF GoodStep, NewVersion
<1> QED  BY <1>1, WatchCorrect, PTL DEF Spec, VersionAdvances

(* A watch id names one watch for ever.                                     *)
THEOREM WatchIdsCorrect == Spec => WatchIdsNeverReused
<1>1. WatchInv /\ [Next]_vars =>
        [/\ next_watch_id' >= next_watch_id
         /\ \A w \in DOMAIN logical' :
              /\ w \in DOMAIN logical => logical'[w] = logical[w]
              /\ w \notin DOMAIN logical => w >= next_watch_id]_vars
  BY NextStep DEF GoodStep, IdsKept
<1> QED  BY <1>1, WatchCorrect, PTL DEF Spec, WatchIdsNeverReused

(* The time of a watch's last sample never moves back.                      *)
THEOREM LastSampleCorrect == Spec => LastSampleNeverMovesBack
<1>1. WatchInv /\ [Next]_vars =>
        [\A w \in DOMAIN last_sample_times \cap DOMAIN last_sample_times' :
           last_sample_times'[w] >= last_sample_times[w]]_vars
  BY NextStep DEF GoodStep, SamplesAdvance
<1> QED  BY <1>1, WatchCorrect, PTL DEF Spec, LastSampleNeverMovesBack

=============================================================================
