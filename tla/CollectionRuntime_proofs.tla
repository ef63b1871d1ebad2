---------------------- MODULE CollectionRuntime_proofs ----------------------
(***************************************************************************)
(* The queue of CollectionCoordinator::Runtime is correct for every set of  *)
(* keys, clients and plans and for every limit.                             *)
(*                                                                         *)
(* First what the operations on the deque do and what enqueueLocked keeps;  *)
(* then, step by step, that the types of the fields and RuntimeInv, which   *)
(* relates the queue, the worker, the callers and their completions, last;  *)
(* then that fresh_waiters counts the callers; and the theorems.  The last  *)
(* part is about the periods runDue passes over and who records them.       *)
(***************************************************************************)
EXTENDS CollectionRuntime, FiniteSetTheorems, WellFoundedInduction, TLAPS

-----------------------------------------------------------------------------
(* Sequences and numbers *)

LEMMA SeqFacts ==
  ASSUME NEW S, NEW s \in Seq(S)
  PROVE  /\ Len(s) \in Nat /\ DOMAIN s = 1..Len(s)
         /\ \A i \in 1..Len(s) : s[i] \in S
         /\ s # <<>> => Len(s) # 0 /\ Head(s) \in S /\ Tail(s) \in Seq(S)
OBVIOUS

LEMMA EmptySeqFact == ASSUME NEW S  PROVE <<>> \in Seq(S)
OBVIOUS

LEMMA AppendFact == ASSUME NEW S, NEW s \in Seq(S), NEW x \in S  PROVE Append(s, x) \in Seq(S)
OBVIOUS

LEMMA ExceptFact ==
  ASSUME NEW S, NEW s \in Seq(S), NEW i \in 1..Len(s), NEW x \in S
  PROVE  [s EXCEPT ![i] = x] \in Seq(S)
OBVIOUS

LEMMA FunctionIsSeq ==
  ASSUME NEW S, NEW n \in Nat, NEW f \in [1..n -> S]
  PROVE  f \in Seq(S) /\ Len(f) = n
OBVIOUS

LEMMA TailFacts ==
  ASSUME NEW S, NEW s \in Seq(S), s # <<>>
  PROVE  /\ Tail(s) \in Seq(S) /\ Len(Tail(s)) = Len(s) - 1
         /\ \A i \in 1..(Len(s) - 1) : Tail(s)[i] = s[i + 1]
OBVIOUS

LEMMA SubSeqFacts ==
  ASSUME NEW S, NEW s \in Seq(S), NEW n \in 0..Len(s)
  PROVE  /\ SubSeq(s, 1, n) \in Seq(S) /\ Len(SubSeq(s, 1, n)) = n
         /\ \A i \in 1..n : SubSeq(s, 1, n)[i] = s[i]
OBVIOUS

LEMMA LeastNumber ==
  ASSUME NEW T \in SUBSET Nat, T # {}
  PROVE  \E i \in T : \A j \in T : ~(j < i)
<1>1. PICK i \in T : \A j \in T : ~(<<j, i>> \in OpToRel(<, Nat))
  BY NatLessThanWellFounded, WFMin, ZenonT(30)
<1> QED  BY <1>1, ZenonT(30) DEF OpToRel

-----------------------------------------------------------------------------
(* The fields of a task used to order the queue are numbers.                *)
LEMMA TaskNumbers == \A u \in Task : u.priority \in Nat /\ u.id \in Nat /\ u.deadline \in Nat
BY DEF Task, Priorities

(* The deque operations *)

(* find_if returns a position for every queue and every task.               *)
LEMMA InsertPositionExists ==
  ASSUME NEW q \in Seq(Task), NEW t \in Task
  PROVE  /\ InsertPosition(q, t) \in 1..(Len(q) + 1)
         /\ \A j \in 1..(InsertPosition(q, t) - 1) : q[j].priority >= t.priority
         /\ InsertPosition(q, t) <= Len(q) =>
              q[InsertPosition(q, t)].priority < t.priority
<1> DEFINE Lower == {i \in 1..Len(q) : q[i].priority < t.priority}
           Good(i) == /\ \A j \in 1..(i - 1) : q[j].priority >= t.priority
                      /\ i <= Len(q) => q[i].priority < t.priority
<1>0. /\ Len(q) \in Nat
      /\ \A i \in 1..Len(q) : q[i] \in Task
  BY SeqFacts, Zenon
<1>p. \A u \in Task : u.priority \in Nat
  BY TaskNumbers, Zenon
<1>1. \E i \in 1..(Len(q) + 1) : Good(i)
  <2>1. CASE Lower = {}
    <3>1. Good(Len(q) + 1)
      BY <1>0, <1>p, <2>1
    <3> QED  BY <3>1, <1>0
  <2>2. CASE Lower # {}
    <3>2. Lower \subseteq Nat
      BY <1>0
    <3>4. PICK i \in Lower : \A j \in Lower : ~ (j < i)
      <4> HIDE DEF Lower
      <4> QED  BY <2>2, <3>2, LeastNumber, Zenon
    <3>5. Good(i)
      BY <3>4, <1>0, <1>p
    <3> QED  BY <3>5, <1>0
  <2> QED  BY <2>1, <2>2, Zenon
<1>2. InsertPosition(q, t) = CHOOSE i \in 1..(Len(q) + 1) : Good(i)
  BY Zenon DEF InsertPosition
<1>3. InsertPosition(q, t) \in 1..(Len(q) + 1) /\ Good(InsertPosition(q, t))
  <2> HIDE DEF Good
  <2> QED  BY <1>1, <1>2, Zenon
<1> QED  BY <1>3, Zenon

(* Inserting adds the task and nothing else, and keeps the order if the     *)
(* task is younger than every queued one.                                  *)
LEMMA InsertTaskProperties ==
  ASSUME NEW q \in Seq(Task), NEW t \in Task
  PROVE  /\ InsertTask(q, t) \in Seq(Task)
         /\ Len(InsertTask(q, t)) = Len(q) + 1
         /\ Elements(InsertTask(q, t)) = Elements(q) \cup {t}
         /\ Ordered(q) /\ (\A u \in Elements(q) : u.id < t.id)
              => Ordered(InsertTask(q, t))
<1> DEFINE p == InsertPosition(q, t)
           r == InsertTask(q, t)
           n == Len(q)
<1>0. /\ n \in Nat /\ DOMAIN q = 1..n
      /\ \A i \in 1..n : q[i] \in Task
  BY SeqFacts, Zenon
<1>1. /\ p \in 1..(n + 1)
      /\ \A j \in 1..(p - 1) : q[j].priority >= t.priority
      /\ p <= n => q[p].priority < t.priority
  BY InsertPositionExists, Zenon
<1> HIDE DEF p
<1>2. r = [i \in 1..(n + 1) |-> IF i < p THEN q[i] ELSE IF i = p THEN t ELSE q[i - 1]]
  BY Zenon DEF InsertTask, p
<1>3. /\ r \in Seq(Task)
      /\ Len(r) = n + 1
      /\ DOMAIN r = 1..(n + 1)
  <2>1. \A i \in 1..(n + 1) :
          (IF i < p THEN q[i] ELSE IF i = p THEN t ELSE q[i - 1]) \in Task
    BY <1>0, <1>1
  <2>2. r \in [1..(n + 1) -> Task]
    BY <2>1, <1>2, Zenon
  <2>3. r \in Seq(Task)
    BY <2>2, <1>0, FunctionIsSeq
  <2> QED  BY <2>2, <2>3, <1>0, SeqFacts
<1> HIDE DEF r
<1>4. Elements(r) = Elements(q) \cup {t}
  <2>1. ASSUME NEW i \in 1..(n + 1)
        PROVE  r[i] \in Elements(q) \cup {t}
    <3>1. CASE i < p
      BY <3>1, <1>0, <1>1, <1>2 DEF Elements
    <3>2. CASE i = p
      BY <3>2, <1>0, <1>1, <1>2
    <3>3. CASE i > p
      <4>1. i - 1 \in 1..n /\ r[i] = q[i - 1]
        BY <3>3, <1>0, <1>1, <1>2
      <4> QED  BY <4>1, <1>0, Zenon DEF Elements
    <3> QED  BY <3>1, <3>2, <3>3, <1>0, <1>1
  <2>2. r[p] = t
    BY <1>0, <1>1, <1>2
  <2>3. ASSUME NEW i \in 1..n
        PROVE  \E j \in 1..(n + 1) : r[j] = q[i]
    <3>1. CASE i < p
      BY <3>1, <1>0, <1>1, <1>2
    <3>2. CASE ~(i < p)
      <4>1. i + 1 \in 1..(n + 1) /\ r[i + 1] = q[i]
        BY <3>2, <1>0, <1>1, <1>2
      <4> QED  BY <4>1, Zenon
    <3> QED  BY <3>1, <3>2, Zenon
  <2> QED  BY <2>1, <2>2, <2>3, <1>0, <1>1, <1>3, ZenonT(30) DEF Elements
<1>5. ASSUME Ordered(q), \A u \in Elements(q) : u.id < t.id
      PROVE  Ordered(r)
  <2>0. \A u \in Task : u.priority \in Nat /\ u.id \in Nat
    BY TaskNumbers, Zenon
  <2>1. \A i \in 1..n : q[i].id < t.id
    BY <1>0, <1>5, Zenon DEF Elements
  <2>2. \A i, j \in 1..n : i < j => Before(q[i], q[j])
    BY <1>0, <1>5, Zenon DEF Ordered
  <2>3. \A i, j \in 1..n : i <= j => q[i].priority >= q[j].priority
    BY <1>0, <2>0, <2>2 DEF Before
  <2>4. \A i \in 1..(p - 1) : Before(q[i], t)
    BY <1>0, <1>1, <2>0, <2>1 DEF Before
  <2>5. \A i \in p..n : Before(t, q[i])
    <3> SUFFICES ASSUME NEW i \in p..n  PROVE Before(t, q[i])
      OBVIOUS
    <3>1. i \in 1..n /\ p \in 1..n /\ p <= i
      BY <1>0, <1>1
    <3>2. q[i].priority <= q[p].priority /\ q[p].priority < t.priority
      BY <3>1, <1>1, <2>3
    <3>3. q[i].priority < t.priority
      BY <3>1, <3>2, <1>0, <2>0
    <3> QED  BY <3>3, <2>0, <3>1, <1>0, Zenon DEF Before
  <2>6. ASSUME NEW i \in 1..(n + 1), NEW j \in 1..(n + 1), i < j
        PROVE  Before(r[i], r[j])
    <3>1. CASE j < p
      <4>1. r[i] = q[i] /\ r[j] = q[j] /\ i \in 1..n /\ j \in 1..n
        BY <3>1, <2>6, <1>0, <1>1, <1>2
      <4> QED  BY <4>1, <2>2, <2>6, Zenon
    <3>2. CASE j = p
      <4>1. r[i] = q[i] /\ r[j] = t /\ i \in 1..(p - 1)
        BY <3>2, <2>6, <1>0, <1>1, <1>2
      <4> QED  BY <4>1, <2>4, Zenon
    <3>3. CASE p < j /\ i < p
      <4>1. r[i] = q[i] /\ r[j] = q[j - 1] /\ i \in 1..n /\ j - 1 \in 1..n
        BY <3>3, <2>6, <1>0, <1>1, <1>2
      <4>2. i \in 1..(p - 1) /\ j - 1 \in p..n
        BY <3>3, <2>6, <1>0, <1>1
      <4>3. i < j - 1
        BY <4>2, <1>0, <1>1
      <4> QED  BY <4>1, <4>3, <2>2, Zenon
    <3>4. CASE p < j /\ i = p
      <4>1. r[i] = t /\ r[j] = q[j - 1] /\ j - 1 \in p..n
        BY <3>4, <2>6, <1>0, <1>1, <1>2
      <4> QED  BY <4>1, <2>5
    <3>5. CASE p < j /\ p < i
      <4>1. r[i] = q[i - 1] /\ r[j] = q[j - 1] /\ i - 1 \in 1..n /\ j - 1 \in 1..n
        BY <3>5, <2>6, <1>0, <1>1, <1>2
      <4>2. i - 1 < j - 1
        BY <2>6, <1>0
      <4> QED  BY <4>1, <4>2, <2>2
    <3> QED  BY <3>1, <3>2, <3>3, <3>4, <3>5, <1>0, <1>1
  <2> QED  BY <2>6, <1>3, Zenon DEF Ordered
<1> QED  BY <1>3, <1>4, <1>5, Zenon DEF r

(* The tasks of an ordered queue are pairwise different.                    *)
LEMMA OrderedDistinct ==
  ASSUME NEW q \in Seq(Task), Ordered(q),
         NEW i \in 1..Len(q), NEW j \in 1..Len(q), q[i] = q[j]
  PROVE  i = j
<1>1. q[i] \in Task /\ q[j] \in Task /\ Len(q) \in Nat
  BY SeqFacts, Zenon
<1>2. i < j => Before(q[i], q[j])
  BY Zenon DEF Ordered
<1>3. j < i => Before(q[j], q[i])
  BY Zenon DEF Ordered
<1>4. ~Before(q[i], q[j]) /\ ~Before(q[j], q[i])
  BY <1>1, TaskNumbers DEF Before
<1> QED  BY <1>1, <1>2, <1>3, <1>4

(* pop_front removes exactly the front.                                    *)
LEMMA PopFrontProperties ==
  ASSUME NEW q \in Seq(Task), q # <<>>, Ordered(q)
  PROVE  /\ Head(q) \in Task
         /\ Head(q) \in Elements(q)
         /\ Tail(q) \in Seq(Task)
         /\ Len(Tail(q)) = Len(q) - 1
         /\ Elements(Tail(q)) = Elements(q) \ {Head(q)}
         /\ Ordered(Tail(q))
<1> DEFINE n == Len(q)
           r == Tail(q)
<1>0. /\ n \in Nat \ {0} /\ DOMAIN q = 1..n
      /\ \A i \in 1..n : q[i] \in Task
  BY SeqFacts, Zenon
<1>1. /\ r \in Seq(Task) /\ Len(r) = n - 1 /\ DOMAIN r = 1..(n - 1)
      /\ \A i \in 1..(n - 1) : r[i] = q[i + 1]
  <2>1. r \in Seq(Task) /\ Len(r) = n - 1 /\ \A i \in 1..Len(r) : r[i] = q[i + 1]
    BY TailFacts, Zenon
  <2> QED  BY <2>1, SeqFacts, Zenon
<1>2. Head(q) = q[1] /\ 1 \in 1..n
  BY <1>0
<1> HIDE DEF r
<1>3. Elements(r) = Elements(q) \ {Head(q)}
  <2>1. ASSUME NEW i \in 1..(n - 1)
        PROVE  r[i] \in Elements(q) \ {Head(q)}
    <3>1. r[i] = q[i + 1] /\ i + 1 \in 1..n /\ i + 1 # 1
      BY <1>0, <1>1
    <3>2. q[i + 1] # q[1]
      BY <3>1, <1>2, OrderedDistinct, Zenon
    <3> QED  BY <3>1, <3>2, <1>0, <1>2 DEF Elements
  <2>2. ASSUME NEW i \in 1..n, q[i] # Head(q)
        PROVE  \E j \in DOMAIN r : r[j] = q[i]
    <3>1. i # 1
      BY <2>2, <1>2, Zenon
    <3>2. i - 1 \in 1..(n - 1) /\ r[i - 1] = q[i]
      BY <3>1, <1>0, <1>1
    <3> QED  BY <3>2, <1>1, Zenon
  <2>3. \A x \in Elements(r) : x \in Elements(q) \ {Head(q)}
    BY <2>1, <1>1, Zenon DEF Elements
  <2>4. \A x \in Elements(q) \ {Head(q)} : x \in Elements(r)
    BY <2>2, <1>0, Zenon DEF Elements
  <2> QED  BY <2>3, <2>4, Zenon
<1>4. Ordered(r)
  <2> SUFFICES ASSUME NEW i \in 1..(n - 1), NEW j \in 1..(n - 1), i < j
               PROVE  Before(r[i], r[j])
    BY <1>1, Zenon DEF Ordered
  <2>1. i + 1 \in 1..n /\ j + 1 \in 1..n /\ i + 1 < j + 1
    BY <1>0
  <2>2. Before(q[i + 1], q[j + 1])
    BY <2>1, Zenon DEF Ordered
  <2> QED  BY <2>2, <1>1, Zenon
<1> QED  BY <1>0, <1>1, <1>2, <1>3, <1>4, ZenonT(30) DEF Elements, r

(* pop_back removes exactly the back.                                      *)
LEMMA PopBackProperties ==
  ASSUME NEW q \in Seq(Task), q # <<>>, Ordered(q)
  PROVE  /\ q[Len(q)] \in Task
         /\ q[Len(q)] \in Elements(q)
         /\ WithoutLast(q) \in Seq(Task)
         /\ Len(WithoutLast(q)) = Len(q) - 1
         /\ Elements(WithoutLast(q)) = Elements(q) \ {q[Len(q)]}
         /\ Ordered(WithoutLast(q))
<1> DEFINE n == Len(q)
           r == WithoutLast(q)
<1>0. /\ n \in Nat \ {0} /\ DOMAIN q = 1..n /\ n \in 1..n
      /\ \A i \in 1..n : q[i] \in Task
  BY SeqFacts
<1>1. /\ r \in Seq(Task) /\ Len(r) = n - 1 /\ DOMAIN r = 1..(n - 1)
      /\ \A i \in 1..(n - 1) : r[i] = q[i]
  <2>1. n - 1 \in 0..Len(q)
    BY <1>0
  <2>2. /\ SubSeq(q, 1, n - 1) \in Seq(Task) /\ Len(SubSeq(q, 1, n - 1)) = n - 1
        /\ \A i \in 1..(n - 1) : SubSeq(q, 1, n - 1)[i] = q[i]
    BY <2>1, SubSeqFacts, ZenonT(30)
  <2>3. r \in Seq(Task) /\ Len(r) = n - 1
    BY <2>2, Zenon DEF WithoutLast
  <2>4. \A i \in 1..(n - 1) : r[i] = q[i]
    BY <2>2, Zenon DEF WithoutLast
  <2> QED  BY <2>3, <2>4, SeqFacts, Zenon
<1> HIDE DEF r
<1>3. Elements(r) = Elements(q) \ {q[n]}
  <2>1. ASSUME NEW i \in 1..(n - 1)
        PROVE  r[i] \in Elements(q) \ {q[n]}
    <3>1. r[i] = q[i]
      BY <1>1, Zenon
    <3>0. i \in 1..n /\ i # n
      <4> HIDE DEF n
      <4> QED  BY <1>0, SMTT(30)
    <3>2. q[i] # q[n]
      BY <3>0, <1>0, OrderedDistinct, ZenonT(30)
    <3> QED  BY <3>1, <3>2, <3>0, <1>0, ZenonT(30) DEF Elements
  <2>2. ASSUME NEW i \in 1..n, q[i] # q[n]
        PROVE  \E j \in DOMAIN r : r[j] = q[i]
    <3>1. i \in 1..(n - 1) /\ r[i] = q[i]
      BY <2>2, <1>0, <1>1
    <3> QED  BY <3>1, <1>1, Zenon
  <2>3. \A x \in Elements(r) : x \in Elements(q) \ {q[n]}
    BY <2>1, <1>1, Zenon DEF Elements
  <2>4. \A x \in Elements(q) \ {q[n]} : x \in Elements(r)
    BY <2>2, <1>0, Zenon DEF Elements
  <2> QED  BY <2>3, <2>4, Zenon
<1>4. Ordered(r)
  BY <1>0, <1>1 DEF Ordered
<1> QED  BY <1>0, <1>1, <1>3, <1>4, ZenonT(30) DEF Elements, r

-----------------------------------------------------------------------------
(* enqueueLocked *)

(* What enqueueLocked does to the queue: the back goes if there is no room, *)
(* the new task comes in, the order and the bound are kept.                 *)
LEMMA EnqueueEffect ==
  ASSUME TypeOK, RuntimeInv, NEW t \in Task, t.id = next_request_id,
         EnqueueLocked(t)
  PROVE  /\ Evicted \subseteq Elements(queue)
         /\ queue' \in Seq(Task)
         /\ Elements(queue)' = (Elements(queue) \ Evicted) \cup {t}
         /\ QueueInOrder'
<1> DEFINE kept == IF Evicted = {} THEN queue ELSE WithoutLast(queue)
<1>0. /\ queue \in Seq(Task) /\ Ordered(queue) /\ Len(queue) <= MaxProviderQueue
      /\ Len(queue) \in Nat /\ MaxProviderQueue \in Nat \ {0}
  BY SeqFacts, LimitAssumption, Zenon DEF TypeOK, RuntimeInv, QueueInOrder
<1>1. /\ Evicted \subseteq Elements(queue)
      /\ kept \in Seq(Task) /\ Ordered(kept)
      /\ Elements(kept) = Elements(queue) \ Evicted
      /\ Len(kept) + 1 <= MaxProviderQueue
  <2>1. CASE Len(queue) = MaxProviderQueue
    <3>1. Evicted = {queue[Len(queue)]} /\ kept = WithoutLast(queue)
      BY <2>1, Zenon DEF Evicted
    <3>2. queue # <<>>
      BY <2>1, <1>0, Zenon
    <3> HIDE DEF kept
    <3> QED  BY <3>1, <3>2, <1>0, PopBackProperties
  <2>2. CASE Len(queue) # MaxProviderQueue
    <3>1. Evicted = {} /\ kept = queue
      BY <2>2, Zenon DEF Evicted
    <3> QED  BY <3>1, <2>2, <1>0
  <2> QED  BY <2>1, <2>2, Zenon
<1>2. queue' = InsertTask(kept, t)
  BY Zenon DEF EnqueueLocked
<1> HIDE DEF kept
<1>3. \A u \in Elements(kept) : u.id < t.id
  BY <1>1, LimitAssumption, SMTT(30) DEF TypeOK, RuntimeInv, IdsInv, Outstanding, Live
<1>4. /\ InsertTask(kept, t) \in Seq(Task)
      /\ Len(InsertTask(kept, t)) = Len(kept) + 1
      /\ Elements(InsertTask(kept, t)) = Elements(kept) \cup {t}
      /\ Ordered(InsertTask(kept, t))
  BY <1>1, <1>3, InsertTaskProperties, ZenonT(30)
<1>5. Elements(queue)' = Elements(kept) \cup {t}
  BY <1>2, <1>4, ZenonT(30) DEF Elements
<1>6. Ordered(queue)' /\ Len(queue)' <= MaxProviderQueue
  BY <1>1, <1>2, <1>4, SMTT(30) DEF Ordered, Before
<1> QED  BY <1>1, <1>2, <1>4, <1>5, <1>6, Zenon DEF QueueInOrder

(* enqueueLocked keeps the queue consistent.                               *)
LEMMA EnqueueInv ==
  ASSUME TypeOK, RuntimeInv, NEW t \in Task, t.id = next_request_id,
         next_request_id < MaxRequestId, next_request_id' = next_request_id + 1,
         t.keys # {}, EnqueueAccepts(t), EnqueueLocked(t),
         UNCHANGED <<now, workerVars, controlVars>>
  PROVE  /\ BusyKeysExact' /\ QueueInOrder'
         /\ fresh_tasks' = {u \in Live' : u.fresh}
         /\ IdsInv' /\ PlaceInv' /\ CompletionInv' /\ ExpiryInv'
         /\ t \in Outstanding'
         /\ \A c \in Clients : client[c].pc = "waiting" =>
              /\ client[c].task \in 1..(next_request_id' - 1)
              /\ completion'[client[c].task] # "none"
              /\ \A u \in Outstanding' : u.id = client[c].task => u.deadline >= client[c].deadline
<1>1. /\ Evicted \subseteq Elements(queue)
      /\ Elements(queue)' = (Elements(queue) \ Evicted) \cup {t}
      /\ QueueInOrder'
  BY EnqueueEffect, Zenon
<1>2. InFlight' = InFlight /\ Finishing' = Finishing /\ cancelled' = cancelled
  BY Zenon DEF InFlight, Finishing, workerVars, controlVars
<1>3. /\ InFlight \cap Elements(queue) = {}
      /\ Finishing \cap Elements(queue) = {}
      /\ cancelled = {}
  BY DEF RuntimeInv, PlaceInv, InFlight, Finishing, TypeOK, EnqueueAccepts
<1>4. Live' = (Live \ Evicted) \cup {t}
  BY <1>1, <1>2, <1>3, Zenon DEF Live
<1>5. Outstanding' = (Outstanding \ Evicted) \cup {t} /\ Evicted \subseteq Live
  BY <1>1, <1>2, <1>3, <1>4, Zenon DEF Outstanding, Live
<1>6. /\ \A u \in Outstanding : u.id \in 1..(next_request_id - 1) /\ u.keys # {}
      /\ \A u, v \in Outstanding : u.id = v.id => u = v
      /\ Live \subseteq Outstanding
      /\ next_request_id \in Nat \ {0} /\ MaxRequestId \in Nat
  <2>1. next_request_id \in Nat \ {0} /\ MaxRequestId \in Nat
    BY LimitAssumption, SMTT(30) DEF TypeOK
  <2>2. Live \subseteq Outstanding
    BY Zenon DEF Outstanding
  <2> QED  BY <2>1, <2>2, Zenon DEF RuntimeInv, IdsInv
<1>7. IdsInv'
  <2>1. \A u \in Outstanding' : u.id \in 1..(next_request_id' - 1) /\ u.keys # {}
    BY <1>5, <1>6
  <2>2. \A u, v \in Outstanding' : u.id = v.id => u = v
    BY <1>5, <1>6
  <2> QED  BY <2>1, <2>2, Zenon DEF IdsInv
<1>8. BusyKeysExact'
  <2>1. /\ busy_keys = UNION {u.keys : u \in Live}
        /\ \A u, v \in Live : u # v => u.keys \cap v.keys = {}
    BY Zenon DEF RuntimeInv, BusyKeysExact
  <2>2. t.keys \cap busy_keys = {}
    BY Zenon DEF EnqueueAccepts, EnqueueBusy
  <2>3. busy_keys' = (busy_keys \ UNION {v.keys : v \in Evicted}) \cup t.keys
    BY Zenon DEF EnqueueLocked, EvictedKeys
  <2>4. busy_keys' = UNION {u.keys : u \in Live'}
    BY <2>1, <2>3, <1>4, <1>5
  <2>5. \A u, v \in Live' : u # v => u.keys \cap v.keys = {}
    BY <2>1, <2>2, <1>4, SMTT(30)
  <2> QED  BY <2>4, <2>5, Zenon DEF BusyKeysExact
<1>9. fresh_tasks' = {u \in Live' : u.fresh}
  BY <1>4, Zenon DEF RuntimeInv, EnqueueLocked
<1>10. PlaceInv'
  <2>1. worker_pc \notin {"wait", "exited"} => worker_task # t
    BY <1>6 DEF TypeOK, Outstanding, Live, InFlight, Finishing
  <2> QED  BY <2>1, <1>1, <1>2, <1>3, Zenon DEF RuntimeInv, PlaceInv, workerVars, controlVars,
                                                EnqueueAccepts
<1>11. \A id \in 1..MaxRequestId :
         completion'[id] = IF t.fresh /\ id = t.id THEN "pending"
                           ELSE IF \E u \in Evicted : u.fresh /\ u.id = id
                                THEN "RESOURCE_EXHAUSTED" ELSE completion[id]
  BY Zenon DEF EnqueueLocked, Complete
<1>12. CompletionInv'
  <2>1. /\ \A id \in 1..MaxRequestId :
            completion[id] = "pending" <=> \E u \in Outstanding : u.fresh /\ u.id = id
        /\ \A id \in next_request_id..MaxRequestId : completion[id] = "none"
    BY Zenon DEF RuntimeInv, CompletionInv
  <2>2. ASSUME NEW id \in 1..MaxRequestId
        PROVE  completion'[id] = "pending" <=> \E u \in Outstanding' : u.fresh /\ u.id = id
    <3>1. CASE id = t.id
      BY <3>1, <2>1, <1>5, <1>6, <1>11
    <3>2. CASE id # t.id /\ \E u \in Evicted : u.fresh /\ u.id = id
      BY <3>2, <2>1, <1>5, <1>6, <1>11, SMTT(30)
    <3>3. CASE id # t.id /\ ~\E u \in Evicted : u.fresh /\ u.id = id
      BY <3>3, <2>1, <1>5, <1>6, <1>11
    <3> QED  BY <3>1, <3>2, <3>3, Zenon
  <2>3. \A id \in next_request_id'..MaxRequestId : completion'[id] = "none"
    BY <2>1, <1>5, <1>6, <1>11
  <2> QED  BY <2>2, <2>3, Zenon DEF CompletionInv
<1>13. ExpiryInv'
  BY Zenon DEF RuntimeInv, ExpiryInv, workerVars
<1>14. ASSUME NEW c \in Clients, client[c].pc = "waiting"
       PROVE  /\ client[c].task \in 1..(next_request_id' - 1)
              /\ completion'[client[c].task] # "none"
              /\ \A u \in Outstanding' : u.id = client[c].task => u.deadline >= client[c].deadline
  <2>1. /\ client[c].task \in 1..(next_request_id - 1)
        /\ completion[client[c].task] # "none"
        /\ \A u \in Outstanding : u.id = client[c].task => u.deadline >= client[c].deadline
    BY <1>14, Zenon DEF RuntimeInv, WaiterInv, Attached
  <2> QED  BY <2>1, <1>5, <1>6, <1>11, SMTT(30)
<1> QED  BY <1>1, <1>5, <1>7, <1>8, <1>9, <1>10, <1>12, <1>13, <1>14, Zenon

-----------------------------------------------------------------------------
(* The steps that leave the queue, the worker and the completions alone      *)

Quiet ==
  /\ now' \in {now, now + 1}
  /\ next_request_id' \in {next_request_id, NextRequestId}
  /\ UNCHANGED <<queueVars, completion, workerVars, shutdown, cancelled>>
  /\ control_pc' = control_pc \/ {control_pc, control_pc'} \cap {"cancelling", "down"} = {}

(* Such a step can only disturb what the waiters know.                      *)
LEMMA QuietStep ==
  ASSUME TypeOK, RuntimeInv, Quiet
  PROVE  /\ BusyKeysExact' /\ QueueInOrder'
         /\ fresh_tasks' = {t \in Live' : t.fresh}
         /\ IdsInv' /\ PlaceInv' /\ CompletionInv' /\ ExpiryInv'
         /\ \A w : w.task \in Nat /\ Attached(w) =>
              /\ w.task \in 1..(next_request_id' - 1)
              /\ completion'[w.task] # "none"
              /\ \A t \in Outstanding' : t.id = w.task => t.deadline >= w.deadline
<1> USE DEF Quiet, queueVars, workerVars
<1>1. /\ Live' = Live /\ Outstanding' = Outstanding
      /\ Elements(queue)' = Elements(queue)
  BY Zenon DEF Live, Outstanding, InFlight, Finishing, Elements
<1>2. /\ next_request_id \in Nat \ {0} /\ next_request_id' \in Nat
      /\ next_request_id <= next_request_id' /\ MaxRequestId \in Nat
  BY LimitAssumption DEF TypeOK, NextRequestId
<1>3. BusyKeysExact'
  BY <1>1, Zenon DEF RuntimeInv, BusyKeysExact
<1>4. QueueInOrder'
  BY DEF RuntimeInv, QueueInOrder, Ordered, Before
<1>5. fresh_tasks' = {t \in Live' : t.fresh}
  BY <1>1, Zenon DEF RuntimeInv
<1>6. IdsInv'
  <2>1. \A t \in Outstanding : t.id \in 1..(next_request_id' - 1) /\ t.keys # {}
    BY <1>2 DEF RuntimeInv, IdsInv
  <2> QED  BY <2>1, <1>1, Zenon DEF RuntimeInv, IdsInv
<1>7. PlaceInv'
  BY <1>1, ZenonT(30) DEF RuntimeInv, PlaceInv
<1>8. CompletionInv'
  <2>1. \A id \in next_request_id'..MaxRequestId : completion[id] = "none"
    BY <1>2 DEF RuntimeInv, CompletionInv
  <2> QED  BY <2>1, <1>1, Zenon DEF RuntimeInv, CompletionInv
<1>9. ExpiryInv'
  BY TaskNumbers DEF TypeOK, RuntimeInv, ExpiryInv
<1>10. ASSUME NEW w, w.task \in Nat, Attached(w)
       PROVE  /\ w.task \in 1..(next_request_id' - 1)
              /\ completion'[w.task] # "none"
              /\ \A t \in Outstanding' : t.id = w.task => t.deadline >= w.deadline
  BY <1>1, <1>2, <1>10 DEF Attached
<1> QED  BY <1>3, <1>4, <1>5, <1>6, <1>7, <1>8, <1>9, <1>10

(* If no caller starts to wait either, the whole invariant is kept.         *)
LEMMA QuietInv ==
  ASSUME TypeOK, RuntimeInv, Quiet,
         \A c \in Clients : client'[c].pc = "waiting" => client'[c] = client[c]
  PROVE  RuntimeInv'
<1>1. WaiterInv'
  <2> SUFFICES ASSUME NEW c \in Clients, client'[c].pc = "waiting"
               PROVE  Attached(client[c])'
    BY Zenon DEF WaiterInv
  <2>1. Attached(client[c]) /\ client[c].task \in Nat /\ client'[c] = client[c]
    BY Zenon DEF RuntimeInv, WaiterInv, TypeOK
  <2>2. /\ client[c].task \in 1..(next_request_id' - 1)
        /\ completion'[client[c].task] # "none"
        /\ \A t \in Outstanding' : t.id = client[c].task => t.deadline >= client[c].deadline
    BY <2>1, QuietStep
  <2> QED  BY <2>1, <2>2 DEF Attached
<1> QED  BY <1>1, QuietStep, Zenon DEF RuntimeInv

-----------------------------------------------------------------------------
(* Types *)

(* The job runDue is at, its due time and the number of its due periods.    *)
LEMMA JobTypes ==
  ASSUME TypeOK, InJobs, JobIsDue
  PROVE  /\ CurrentJob \in Job /\ CurrentJob.keys # {}
         /\ FirstDue \in Nat
         /\ Steps \in Nat \ {0}
         /\ CurrentJob.period * Steps \in Nat
         /\ CurrentJob.period * (Steps - 1) \in Nat
<1>1. /\ sched.plan \in Plan /\ sched.now \in Nat
      /\ next_due \in Seq(Nat) /\ sched.job \in DOMAIN next_due
      /\ sched.job \in DOMAIN sched.plan.jobs /\ sched.now >= FirstDue
  BY Zenon DEF TypeOK, SchedulerState, InJobs, JobIsDue
<1>2. sched.plan.jobs \in PlanJobs /\ sched.plan.jobs \in Seq(Job)
  <2>1. sched.plan.jobs \in PlanJobs \cup {<<>>}
    BY <1>1, Zenon DEF Plan
  <2>2. sched.plan.jobs # <<>>
    BY <1>1
  <2> QED  BY <2>1, <2>2, PlanJobsAssumption
<1>3. sched.job \in 1..Len(sched.plan.jobs)
  BY <1>1, <1>2, SeqFacts, SMTT(30)
<1>4. CurrentJob \in Job /\ CurrentJob.keys # {}
  BY <1>2, <1>3, SeqFacts, PlanJobsAssumption, Zenon DEF CurrentJob
<1>5. FirstDue \in Nat
  BY <1>1, SeqFacts, Zenon DEF FirstDue
<1>6. CurrentJob.period \in Nat \ {0}
  BY <1>4, Zenon DEF Job
<1> HIDE DEF CurrentJob, FirstDue
<1>7. \A a \in Nat, b \in Nat \ {0} : a \div b \in Nat
  OBVIOUS
<1>8. Steps \in Nat \ {0}
  <2>1. sched.now - FirstDue \in Nat
    BY <1>1, <1>5
  <2> DEFINE quotient == (sched.now - FirstDue) \div CurrentJob.period
  <2>2. quotient \in Nat
    BY <2>1, <1>6, <1>7
  <2>3. Steps = quotient + 1
    BY Zenon DEF Steps
  <2> HIDE DEF quotient
  <2> QED  BY <2>2, <2>3
<1>9. \A a, b \in Nat : a * b \in Nat
  OBVIOUS
<1> QED  BY <1>4, <1>5, <1>6, <1>8, <1>9

LEMMA ScheduledTaskType ==
  ASSUME TypeOK, InJobs, JobIsDue, AllocatedId # 0
  PROVE  /\ ScheduledTask \in Task /\ ScheduledTask.keys # {}
         /\ ScheduledTask.id = next_request_id /\ ~ScheduledTask.fresh
         /\ next_request_id < MaxRequestId
         /\ NextRequestId = next_request_id + 1
<1>1. /\ next_request_id < MaxRequestId /\ AllocatedId = next_request_id
      /\ NextRequestId = next_request_id + 1 /\ next_request_id \in Nat
  BY LimitAssumption DEF TypeOK, AllocatedId, NextRequestId
<1>2. sched.plan.version \in Nat /\ sched.job \in Nat
  BY Zenon DEF TypeOK, SchedulerState, Plan
<1>3. /\ CurrentJob \in Job /\ CurrentJob.keys # {}
      /\ FirstDue \in Nat /\ CurrentJob.period * (Steps - 1) \in Nat
  BY JobTypes, Zenon
<1> DEFINE ahead == CurrentJob.period * (Steps - 1)
<1> HIDE DEF ahead
<1>4. /\ FirstDue + ahead + CurrentJob.freshness \in Nat
      /\ FirstDue + ahead \in Nat
  BY <1>3 DEF Job, ahead
<1>5. ScheduledTask =
        [id |-> next_request_id, keys |-> CurrentJob.keys,
         priority |-> CurrentJob.priority,
         deadline |-> FirstDue + ahead + CurrentJob.freshness,
         fresh |-> FALSE, generation |-> 0, version |-> sched.plan.version,
         job |-> sched.job, scheduled |-> FirstDue + ahead]
  BY <1>1, Zenon DEF ScheduledTask, ahead
<1>6. ScheduledTask \in Task
  BY <1>1, <1>2, <1>3, <1>4, <1>5, Zenon DEF Task, Job
<1> QED  BY <1>1, <1>3, <1>5, <1>6

LEMMA LogicalResultType ==
  ASSUME TypeOK, InJobs, JobIsDue, NEW n \in Nat
  PROVE  LogicalResult(n) \subseteq Slot
<1>1. FirstDue \in Nat /\ CurrentJob.period \in Nat
  BY JobTypes, Zenon DEF Job
<1>2. sched.plan.version \in Nat /\ sched.job \in Nat
  BY Zenon DEF TypeOK, SchedulerState, Plan
<1>3. \A k \in 0..(n - 1) : FirstDue + k * CurrentJob.period \in Nat
  <2>1. \A a, b \in Nat : a * b \in Nat
    OBVIOUS
  <2> QED  BY <2>1, <1>1
<1> QED  BY <1>2, <1>3 DEF LogicalResult, Slot

LEMMA DueTimesType ==
  ASSUME NEW p \in Plan
  PROVE  DueTimes(p) \in Seq(Nat)
<1>1. p.jobs \in Seq(Job) /\ p.created_at \in Nat
  <2>1. p.jobs \in PlanJobs \cup {<<>>} /\ p.created_at \in Nat
    BY Zenon DEF Plan
  <2> QED  BY <2>1, PlanJobsAssumption, EmptySeqFact, Zenon
<1>2. Len(p.jobs) \in Nat /\ \A j \in 1..Len(p.jobs) : p.jobs[j] \in Job
  BY <1>1, SeqFacts, Zenon
<1>3. \A j \in 1..Len(p.jobs) : p.created_at + p.jobs[j].period \in Nat
  <2>1. \A j \in 1..Len(p.jobs) : p.jobs[j].period \in Nat
    BY <1>2, Zenon DEF Job
  <2> QED  BY <2>1, <1>1
<1>4. DueTimes(p) \in [1..Len(p.jobs) -> Nat]
  BY <1>3, Zenon DEF DueTimes
<1> QED  BY <1>2, <1>4, FunctionIsSeq, SMTT(30)

(* A task stands for a slot.                                               *)
LEMMA SlotsOfType ==
  ASSUME NEW tasks \in SUBSET Task
  PROVE  SlotsOf(tasks) \subseteq Slot
<1>1. \A t \in Task : SlotOf(t) \in Slot
  BY Zenon DEF Task, SlotOf, Slot
<1> QED  BY <1>1, Zenon DEF SlotsOf

LEMMA EnqueueTypes ==
  ASSUME TypeOK, RuntimeInv, NEW t \in Task, t.id = next_request_id,
         EnqueueLocked(t)
  PROVE  /\ queue' \in Seq(Task) /\ busy_keys' \subseteq Keys
         /\ fresh_tasks' \subseteq Task
         /\ completion' \in [1..MaxRequestId -> {"none", "pending"} \cup DoneStatuses]
         /\ dropped' \subseteq Slot
<1>1. queue' \in Seq(Task) /\ Evicted \subseteq Elements(queue)
  BY EnqueueEffect, Zenon
<1>2. Elements(queue) \subseteq Task
  BY SeqFacts DEF TypeOK, Elements
<1>3. busy_keys' \subseteq Keys
  <2>1. t.keys \subseteq Keys
    BY Zenon DEF Task
  <2> QED  BY <2>1, Zenon DEF EnqueueLocked, TypeOK
<1>4. fresh_tasks' \subseteq Task
  BY Zenon DEF EnqueueLocked, TypeOK
<1>5. completion' \in [1..MaxRequestId -> {"none", "pending"} \cup DoneStatuses]
  BY Zenon DEF EnqueueLocked, TypeOK, Complete, DoneStatuses
<1>6. dropped' \subseteq Slot
  <2>1. SlotsOf(Evicted) \subseteq Slot
    BY <1>1, <1>2, SlotsOfType, SMTT(30)
  <2> QED  BY <2>1, Zenon DEF EnqueueLocked, TypeOK
<1> QED  BY <1>1, <1>3, <1>4, <1>5, <1>6

(* Every step keeps the types.                                             *)
LEMMA TypeStep ==
  ASSUME TypeOK, RuntimeInv, [Next]_vars,
         \A c \in Clients : WaiterLeaves(c) => fresh_waiters # 0
  PROVE  TypeOK'
<1> USE DEF planVars, dueVars, queueVars, workerVars, controlVars, history
<1>a. /\ NextRequestId \in 1..MaxRequestId /\ AllocatedId \in Nat
  BY LimitAssumption DEF TypeOK, NextRequestId, AllocatedId
<1>b. Elements(queue) \subseteq Task
  BY SeqFacts DEF TypeOK, Elements
<1>c. \A tasks, status : status \in DoneStatuses =>
        Complete(tasks, status) \in [1..MaxRequestId -> {"none", "pending"} \cup DoneStatuses]
  BY Zenon DEF TypeOK, Complete
<1>d. NoTask \in Task
  BY DEF NoTask, Task, Priorities
<1>e. ASSUME NEW pc \in SchedulerPcs
      PROVE  SchedulerAt(pc) \in SchedulerState
  <2>1. NoPlan \in Plan
    BY Zenon DEF NoPlan, Plan
  <2>2. <<>> \in Results
    BY EmptySeqFact, Zenon DEF Results
  <2> QED  BY <2>1, <2>2, Zenon DEF SchedulerAt, SchedulerState
<1>1. CASE Tick
  BY <1>1 DEF TypeOK, Tick
<1>2. ASSUME NEW jobs \in PlanJobs, StorePlan(jobs)
      PROVE  TypeOK'
  BY <1>2, SMTT(30) DEF TypeOK, StorePlan, Plan
<1>3. CASE InstallPlan
  <2>1. next_due' \in Seq(Nat) /\ scheduled_plan_version' \in Nat
    BY <1>3, DueTimesType, Zenon DEF TypeOK, InstallPlan, Plan
  <2> QED  BY <2>1, <1>3, ZenonT(60) DEF TypeOK, InstallPlan
<1>4. ASSUME NEW keys \in RouteChoices, ActivateCatalog(keys)
      PROVE  TypeOK'
  BY <1>4, RouteAssumption DEF TypeOK, ActivateCatalog
<1>5. CASE SchedulerCheck
  <2>1. SchedulerAt("exited") \in SchedulerState /\ SchedulerAt("lock") \in SchedulerState
    BY <1>e, Zenon DEF SchedulerPcs
  <2>2. sched' \in SchedulerState
    BY <2>1, <1>5, Zenon DEF TypeOK, SchedulerCheck, SchedulerState
  <2> QED  BY <2>2, <1>5, SMTT(30) DEF TypeOK, SchedulerCheck
<1>6. CASE RunDueStopped
  <2>1. SchedulerAt("sleep") \in SchedulerState
    BY <1>e, Zenon DEF SchedulerPcs
  <2> QED  BY <2>1, <1>6 DEF TypeOK, RunDueStopped
<1>7. CASE RunDueBegin
  <2>1. next_due' \in Seq(Nat) /\ scheduled_plan_version' \in Nat
    BY <1>7, DueTimesType, SMTT(30) DEF TypeOK, SchedulerState, RunDueBegin, Plan
  <2>2. sched' \in SchedulerState
    BY <1>7, Zenon DEF TypeOK, RunDueBegin, SchedulerState, SchedulerPcs
  <2> QED  BY <2>1, <2>2, <1>7, SMTT(30) DEF TypeOK, RunDueBegin
<1>f. /\ sched \in SchedulerState
      /\ \A r \in Results : [sched EXCEPT !.job = sched.job + 1, !.results = r] \in SchedulerState
      /\ [sched EXCEPT !.job = sched.job + 1] \in SchedulerState
  <2>1. sched \in SchedulerState
    BY Zenon DEF TypeOK
  <2>2. sched.job + 1 \in Nat
    BY <2>1 DEF SchedulerState
  <2> QED  BY <2>1, <2>2, Zenon DEF SchedulerState
<1>8. CASE JobNotDue
  <2>1. sched' \in SchedulerState
    BY <1>8, <1>f, Zenon DEF JobNotDue
  <2> QED  BY <2>1, <1>8 DEF TypeOK, JobNotDue
<1>due. ASSUME InJobs, JobIsDue, AdvanceDue
        PROVE  next_due' \in Seq(Nat) /\ next_request_id' \in 1..MaxRequestId
  <2>1. /\ next_due \in Seq(Nat) /\ sched.job \in 1..Len(next_due)
        /\ next_due[sched.job] \in Nat
    BY <1>due, SeqFacts DEF TypeOK, JobIsDue
  <2>2. CurrentJob.period * Steps \in Nat
    BY <1>due, JobTypes, Zenon
  <2>3. next_due[sched.job] + CurrentJob.period * Steps \in Nat
    BY <2>1, <2>2, SMTT(30)
  <2>4. [next_due EXCEPT ![sched.job] = @ + CurrentJob.period * Steps] \in Seq(Nat)
    BY <2>1, <2>3, ExceptFact, Zenon
  <2> QED  BY <2>4, <1>due, <1>a, Zenon DEF AdvanceDue
<1>9. CASE JobEnqueued
  <2>1. /\ ScheduledTask \in Task /\ ScheduledTask.id = next_request_id
    BY <1>9, ScheduledTaskType, Zenon DEF JobEnqueued
  <2>2. /\ queue' \in Seq(Task) /\ busy_keys' \subseteq Keys
        /\ fresh_tasks' \subseteq Task
        /\ completion' \in [1..MaxRequestId -> {"none", "pending"} \cup DoneStatuses]
        /\ dropped' \subseteq Slot
    BY <1>9, <2>1, EnqueueTypes, Zenon DEF JobEnqueued
  <2>3. next_due' \in Seq(Nat) /\ next_request_id' \in 1..MaxRequestId
    BY <1>9, <1>due, Zenon DEF JobEnqueued
  <2>4. LogicalResult(Steps - 1) \in SUBSET Slot
    BY <1>9, JobTypes, LogicalResultType DEF JobEnqueued
  <2>5. Append(sched.results, LogicalResult(Steps - 1)) \in Results
    BY <2>4, AppendFact, Zenon DEF TypeOK, SchedulerState, Results
  <2>6. sched' \in SchedulerState
    <3>1. sched.results \in Results
      BY <1>f, Zenon DEF SchedulerState
    <3>2. sched' = [sched EXCEPT !.job = sched.job + 1,
                      !.results = IF Steps > 1 THEN Append(sched.results, LogicalResult(Steps - 1))
                                  ELSE sched.results]
      BY <1>9 DEF JobEnqueued
    <3> QED  BY <1>f, <2>5, <3>1, <3>2, Zenon
  <2> QED  BY <2>2, <2>3, <2>6, <1>9, SMTT(30) DEF TypeOK, JobEnqueued
<1>10. CASE JobRejected
  <2>3. next_due' \in Seq(Nat) /\ next_request_id' \in 1..MaxRequestId
    BY <1>10, <1>due, Zenon DEF JobRejected
  <2>4. LogicalResult(Steps) \in SUBSET Slot
    BY <1>10, JobTypes, LogicalResultType, SMTT(30) DEF JobRejected
  <2>5. Append(sched.results, LogicalResult(Steps)) \in Results
    BY <2>4, AppendFact DEF TypeOK, SchedulerState, Results
  <2>6. sched' \in SchedulerState
    BY <1>10, <1>f, <2>5, Zenon DEF JobRejected
  <2> QED  BY <2>3, <2>6, <1>10, SMTT(30) DEF TypeOK, JobRejected
<1>11. CASE RunDueUnlock
  <2>1. SchedulerAt("sleep") \in SchedulerState /\ SchedulerAt("results") \in SchedulerState
    BY <1>e, Zenon DEF SchedulerPcs
  <2>2. sched' \in SchedulerState
    BY <2>1, <1>11, Zenon DEF TypeOK, RunDueUnlock, SchedulerState
  <2> QED  BY <2>2, <1>11, SMTT(30) DEF TypeOK, RunDueUnlock
<1>12. CASE NoteResult
  <2>1. SchedulerAt("sleep") \in SchedulerState
    BY <1>e, Zenon DEF SchedulerPcs
  <2>2. Head(sched.results) \subseteq Slot /\ Tail(sched.results) \in Results
    BY <1>12, SeqFacts DEF TypeOK, NoteResult, SchedulerState, Results
  <2>3. sched' \in SchedulerState
    BY <2>1, <2>2, <1>12, Zenon DEF TypeOK, NoteResult, SchedulerState
  <2> QED  BY <2>2, <2>3, <1>12, SMTT(30) DEF TypeOK, NoteResult
<1>13. CASE SchedulerWake
  <2>1. SchedulerAt("exited") \in SchedulerState /\ SchedulerAt("check") \in SchedulerState
    BY <1>e, Zenon DEF SchedulerPcs
  <2>2. sched' \in SchedulerState
    BY <2>1, <1>13, Zenon DEF SchedulerWake
  <2> QED  BY <2>2, <1>13, SMTT(30) DEF TypeOK, SchedulerWake
<1>14. ASSUME NEW c \in Clients, NEW keys \in SUBSET Keys, NEW deadline \in 1..(MaxTime + 1),
              FreshReadJoin(c, keys, deadline)
       PROVE  TypeOK'
  <2>1. PICK t \in Registered(keys) : Wait(c, t.id, deadline)
    BY <1>14, Zenon DEF FreshReadJoin
  <2>2. t.id \in Nat /\ deadline \in Nat
    BY LimitAssumption, TaskNumbers DEF Registered, TypeOK
  <2> QED  BY <2>1, <2>2, <1>14, SMTT(30) DEF TypeOK, FreshReadJoin, Wait
<1>15. ASSUME NEW c \in Clients, NEW keys \in SUBSET Keys, NEW deadline \in 1..(MaxTime + 1),
              FreshReadEnqueue(c, keys, deadline)
       PROVE  TypeOK'
  <2> DEFINE t == FreshTask(keys, deadline)
  <2>1. AllocatedId = next_request_id /\ deadline \in Nat
    BY <1>15, LimitAssumption DEF FreshReadEnqueue, AllocatedId
  <2>2. t \in Task /\ t.id = next_request_id
    BY <2>1, <1>a, SMTT(30) DEF FreshTask, Task, Priorities, KNormal, TypeOK
  <2>3. /\ queue' \in Seq(Task) /\ busy_keys' \subseteq Keys
        /\ fresh_tasks' \subseteq Task
        /\ completion' \in [1..MaxRequestId -> {"none", "pending"} \cup DoneStatuses]
        /\ dropped' \subseteq Slot
    BY <1>15, <2>2, EnqueueTypes, Zenon DEF FreshReadEnqueue
  <2>4. /\ fresh_waiters' \in Nat
        /\ client' \in [Clients -> [pc : {"idle", "waiting", "leaving"}, task : Nat,
                                    deadline : Nat]]
    BY <1>15, <2>1, <1>a, SMTT(30) DEF TypeOK, FreshReadEnqueue, Wait
  <2> QED  BY <2>3, <2>4, <1>15, <1>a, SMTT(30) DEF TypeOK, FreshReadEnqueue
<1>16. ASSUME NEW c \in Clients, NEW keys \in SUBSET Keys, NEW deadline \in 1..(MaxTime + 1),
              FreshReadRefused(c, keys, deadline)
       PROVE  TypeOK'
  BY <1>16, <1>a, SMTT(30) DEF TypeOK, FreshReadRefused
<1>17. ASSUME NEW c \in Clients, WaiterWakes(c)
       PROVE  TypeOK'
  BY <1>17, ZenonT(60) DEF TypeOK, WaiterWakes
<1>18. ASSUME NEW c \in Clients, WaiterLeaves(c)
       PROVE  TypeOK'
  <2>1. fresh_waiters # 0
    BY <1>18, Zenon
  <2> QED  BY <2>1, <1>18, SMTT(30) DEF TypeOK, WaiterLeaves
<1>19. CASE WorkerPop
  <2>1. queue \in Seq(Task) /\ queue # <<>> /\ Ordered(queue)
    BY <1>19, Zenon DEF TypeOK, WorkerPop, RuntimeInv, QueueInOrder
  <2>2. Head(queue) \in Task /\ Tail(queue) \in Seq(Task)
    BY <2>1, PopFrontProperties, Zenon
  <2> QED  BY <2>2, <1>19, SMTT(30) DEF TypeOK, WorkerPop
<1>20. CASE WorkerExit
  BY <1>20, Zenon DEF TypeOK, WorkerExit
<1>21. CASE WorkerRead
  BY <1>21 DEF TypeOK, WorkerRead, RunStatuses
<1>22. CASE WorkerNote
  <2>1. SlotOf(worker_task) \in Slot
    BY Zenon DEF TypeOK, Task, SlotOf, Slot
  <2> QED  BY <2>1, <1>22, SMTT(30) DEF TypeOK, WorkerNote
<1>23. CASE WorkerRelease
  BY <1>23, <1>d, SMTT(30) DEF TypeOK, WorkerRelease, ReleaseTaskLocked, RunStatuses
<1>24. CASE WorkerComplete
  <2>1. completion' \in [1..MaxRequestId -> {"none", "pending"} \cup DoneStatuses]
    BY <1>24, <1>c DEF TypeOK, WorkerComplete, DoneStatuses
  <2> QED  BY <2>1, <1>24, <1>d, Zenon DEF TypeOK, WorkerComplete, RunStatuses
<1>25. CASE StartScheduler
  <2>1. SchedulerAt("check") \in SchedulerState
    BY <1>e, SMTT(30) DEF SchedulerPcs
  <2> QED  BY <2>1, <1>25, Zenon DEF TypeOK, StartScheduler
<1>26. CASE StopScheduler
  BY <1>26 DEF TypeOK, StopScheduler, RequestStop
<1>27. CASE ShutdownAll
  BY <1>27, SMTT(30) DEF TypeOK, ShutdownAll, RequestStop
<1>28. CASE SchedulerJoined
  BY <1>28, Zenon DEF TypeOK, SchedulerJoined
<1>29. CASE CancelQueued
  <2>1. SlotsOf(Elements(queue)) \subseteq Slot
    BY <1>b, SlotsOfType, SMTT(30)
  <2>2. queue' \in Seq(Task)
    BY <1>29, EmptySeqFact, SMTT(30) DEF CancelQueued
  <2> QED  BY <2>1, <2>2, <1>b, <1>29, SMTT(30) DEF TypeOK, CancelQueued
<1>30. ASSUME NEW t \in cancelled, CompleteCancelled(t)
       PROVE  TypeOK'
  <2>1. completion' \in [1..MaxRequestId -> {"none", "pending"} \cup DoneStatuses]
    BY <1>30, <1>c, SMTT(30) DEF CompleteCancelled, DoneStatuses
  <2> QED  BY <2>1, <1>30, ZenonT(30) DEF TypeOK, CompleteCancelled
<1>31. CASE WorkerJoined
  BY <1>31, Zenon DEF TypeOK, WorkerJoined
<1>32. CASE UNCHANGED vars
  BY <1>32, SMTT(30) DEF TypeOK, vars
<1> QED  BY <1>1, <1>2, <1>3, <1>4, <1>5, <1>6, <1>7, <1>8, <1>9, <1>10, <1>11,
             <1>12, <1>13, <1>14, <1>15, <1>16, <1>17, <1>18, <1>19, <1>20,
             <1>21, <1>22, <1>23, <1>24, <1>25, <1>26, <1>27, <1>28, <1>29,
             <1>30, <1>31, <1>32, SMTT(30)
         DEF Next, Scheduler, RunDue, Worker, Client, FreshRead, Shutdown

-----------------------------------------------------------------------------
(* The steps that finish tasks *)

(* Setting the completion of the tasks that stop being outstanding, and of   *)
(* no other, keeps what is said of ids, completions and waiters.             *)
LEMMA FinishStep ==
  ASSUME TypeOK, RuntimeInv, NEW done \in SUBSET Outstanding,
         NEW status \in DoneStatuses,
         Outstanding' = Outstanding \ done,
         UNCHANGED <<next_request_id, client>>,
         \A id \in 1..MaxRequestId :
           completion'[id] = IF \E t \in done : t.fresh /\ t.id = id
                             THEN status ELSE completion[id]
  PROVE  IdsInv' /\ CompletionInv' /\ WaiterInv'
<1>1. /\ \A t \in Outstanding : t.id \in 1..(next_request_id - 1) /\ t.keys # {}
      /\ \A t, u \in Outstanding : t.id = u.id => t = u
      /\ \A id \in 1..MaxRequestId :
           completion[id] = "pending" <=> \E t \in Outstanding : t.fresh /\ t.id = id
      /\ \A id \in next_request_id..MaxRequestId : completion[id] = "none"
  BY Zenon DEF RuntimeInv, IdsInv, CompletionInv
<1>2. next_request_id \in 1..MaxRequestId /\ MaxRequestId \in Nat
  BY LimitAssumption, Zenon DEF TypeOK
<1>3. status \notin {"none", "pending"}
  BY Zenon DEF DoneStatuses, RunStatuses
<1>4. IdsInv'
  BY <1>1, Zenon DEF IdsInv
<1>5. ASSUME NEW id \in 1..MaxRequestId
      PROVE  completion'[id] = "pending" <=> \E t \in Outstanding' : t.fresh /\ t.id = id
  <2>1. CASE \E t \in done : t.fresh /\ t.id = id
    BY <2>1, <1>1, <1>3
  <2>2. CASE ~\E t \in done : t.fresh /\ t.id = id
    BY <2>2, <1>1
  <2> QED  BY <2>1, <2>2, Zenon
<1>6. \A id \in next_request_id'..MaxRequestId : completion'[id] = "none"
  BY <1>1, <1>2
<1>7. WaiterInv'
  <2> SUFFICES ASSUME NEW c \in Clients, client'[c].pc = "waiting"
               PROVE  Attached(client[c])'
    BY Zenon DEF WaiterInv
  <2>1. Attached(client[c]) /\ client'[c] = client[c]
    BY Zenon DEF RuntimeInv, WaiterInv
  <2>2. client[c].task \in 1..MaxRequestId
    BY <2>1, <1>2 DEF Attached
  <2>3. completion'[client[c].task] # "none"
    BY <2>1, <2>2, <1>3, Zenon DEF Attached
  <2> QED  BY <2>1, <2>3, Zenon DEF Attached
<1> QED  BY <1>4, <1>5, <1>6, <1>7, Zenon DEF CompletionInv

(* Releasing tasks keeps the busy keys and the registry exact.               *)
LEMMA ReleaseStep ==
  ASSUME RuntimeInv, NEW gone \in SUBSET Live,
         Live' = Live \ gone,
         busy_keys' = busy_keys \ UNION {t.keys : t \in gone},
         fresh_tasks' = fresh_tasks \ gone
  PROVE  BusyKeysExact' /\ fresh_tasks' = {t \in Live' : t.fresh}
<1>1. /\ busy_keys = UNION {t.keys : t \in Live}
      /\ \A t, u \in Live : t # u => t.keys \cap u.keys = {}
      /\ fresh_tasks = {t \in Live : t.fresh}
  BY Zenon DEF RuntimeInv, BusyKeysExact
<1>2. busy_keys' = UNION {t.keys : t \in Live'}
  BY <1>1
<1>3. \A t, u \in Live' : t # u => t.keys \cap u.keys = {}
  BY <1>1, Zenon
<1>4. fresh_tasks' = {t \in Live' : t.fresh}
  BY <1>1, Zenon
<1> QED  BY <1>2, <1>3, <1>4, Zenon DEF BusyKeysExact

LEMMA WorkerPopInv == TypeOK /\ RuntimeInv /\ WorkerPop => RuntimeInv'
<1> SUFFICES ASSUME TypeOK, RuntimeInv, WorkerPop  PROVE RuntimeInv'
  OBVIOUS
<1> USE DEF controlVars
<1>1. /\ Head(queue) \in Elements(queue)
      /\ Tail(queue) \in Seq(Task) /\ Ordered(Tail(queue))
      /\ Len(Tail(queue)) = Len(queue) - 1
      /\ Elements(Tail(queue)) = Elements(queue) \ {Head(queue)}
  BY PopFrontProperties, Zenon DEF TypeOK, RuntimeInv, QueueInOrder, WorkerPop
<1> DEFINE rest == Tail(queue)
<1>r. queue' = rest
  BY Zenon DEF WorkerPop
<1> HIDE DEF rest
<1>2. Elements(queue)' = Elements(queue) \ {Head(queue)}
  <2>1. Elements(queue)' = Elements(rest)
    BY <1>r, Zenon DEF Elements
  <2> QED  BY <2>1, <1>1, Zenon DEF rest
<1>3. InFlight = {} /\ Finishing = {} /\ Finishing' = {} /\ InFlight' = {Head(queue)}
  BY Zenon DEF WorkerPop, InFlight, Finishing
<1>4. Live' = Live
  BY <1>1, <1>2, <1>3, Zenon DEF Live
<1>5. Outstanding' = Outstanding
  BY <1>3, <1>4, Zenon DEF Outstanding, WorkerPop
<1>6. BusyKeysExact' /\ fresh_tasks' = {t \in Live' : t.fresh}
  BY <1>4, Zenon DEF RuntimeInv, BusyKeysExact, WorkerPop
<1>7. QueueInOrder'
  <2>1. Len(queue)' <= MaxProviderQueue
    BY <1>1, SeqFacts, LimitAssumption DEF TypeOK, RuntimeInv, QueueInOrder, WorkerPop
  <2>2. Ordered(queue)'
    <3>1. Ordered(rest)
      BY <1>1, Zenon DEF rest
    <3> QED  BY <3>1, <1>r DEF Ordered, Before
  <2> QED  BY <2>1, <2>2, Zenon DEF QueueInOrder
<1>8. IdsInv' /\ CompletionInv' /\ WaiterInv'
  BY <1>5, Zenon DEF RuntimeInv, IdsInv, CompletionInv, WaiterInv, Attached, WorkerPop
<1>9. PlaceInv'
  BY <1>1, <1>2, Zenon DEF RuntimeInv, PlaceInv, WorkerPop
<1>10. ExpiryInv'
  BY Zenon DEF RuntimeInv, ExpiryInv, WorkerPop
<1> QED  BY <1>6, <1>7, <1>8, <1>9, <1>10, Zenon DEF RuntimeInv

(* The worker's steps that keep its task, and its exit.                      *)
LEMMA WorkerKeepsTaskInv ==
  TypeOK /\ RuntimeInv /\ (WorkerExit \/ WorkerRead \/ WorkerNote) => RuntimeInv'
<1> SUFFICES ASSUME TypeOK, RuntimeInv, WorkerExit \/ WorkerRead \/ WorkerNote
             PROVE  RuntimeInv'
  OBVIOUS
<1>0. /\ UNCHANGED <<now, queueVars, fresh_waiters, next_request_id, completion,
                     worker_task, client, controlVars>>
      /\ \/ /\ worker_pc = "wait" /\ worker_pc' = "exited" /\ shutdown
            /\ worker_status' = worker_status
         \/ worker_pc = "read" /\ worker_pc' \in {"note", "release"}
            /\ worker_status' = IF now > worker_task.deadline THEN "TIMEOUT" ELSE "RESULT"
         \/ worker_pc = "note" /\ worker_pc' = "release" /\ worker_status' = worker_status
  BY Zenon DEF WorkerExit, WorkerRead, WorkerNote, workerVars
<1>1. Elements(queue)' = Elements(queue)
  BY <1>0, Zenon DEF Elements, queueVars
<1>2. InFlight' = InFlight /\ Finishing' = Finishing
  BY <1>0, ZenonT(60) DEF InFlight, Finishing
<1>3. Live' = Live /\ Outstanding' = Outstanding
  BY <1>0, <1>1, <1>2, SMTT(30) DEF Live, Outstanding, controlVars
<1>4. BusyKeysExact' /\ fresh_tasks' = {t \in Live' : t.fresh}
  BY <1>0, <1>3, ZenonT(60) DEF RuntimeInv, BusyKeysExact, queueVars
<1>5. QueueInOrder'
  BY <1>0 DEF RuntimeInv, QueueInOrder, Ordered, Before, queueVars
<1>6. IdsInv' /\ CompletionInv' /\ WaiterInv'
  BY <1>0, <1>3, Zenon DEF RuntimeInv, IdsInv, CompletionInv, WaiterInv, Attached
<1>7. PlaceInv'
  BY <1>0, <1>1, Zenon DEF RuntimeInv, PlaceInv, queueVars, controlVars
<1>8. ExpiryInv'
  BY <1>0, Zenon DEF RuntimeInv, ExpiryInv
<1> QED  BY <1>4, <1>5, <1>6, <1>7, <1>8 DEF RuntimeInv

LEMMA WorkerReleaseInv == TypeOK /\ RuntimeInv /\ WorkerRelease => RuntimeInv'
<1> SUFFICES ASSUME TypeOK, RuntimeInv, WorkerRelease  PROVE RuntimeInv'
  OBVIOUS
<1> USE DEF controlVars
<1> DEFINE done == IF worker_task.fresh THEN {} ELSE {worker_task}
<1>0. /\ worker_task \notin Elements(queue) \cup cancelled
      /\ InFlight = {worker_task} /\ InFlight' = {} /\ Finishing = {}
      /\ UNCHANGED <<queue, cancelled>> /\ Elements(queue)' = Elements(queue)
  BY Zenon DEF RuntimeInv, PlaceInv, WorkerRelease, InFlight, Finishing, Elements
<1>1. Live' = Live \ {worker_task} /\ worker_task \in Live
  BY <1>0, Zenon DEF Live
<1>2. Finishing' = IF worker_task.fresh THEN {worker_task} ELSE {}
  BY Zenon DEF Finishing, WorkerRelease
<1>3. Outstanding' = Outstanding \ done /\ done \subseteq Outstanding
  BY <1>0, <1>1, <1>2, Zenon DEF Outstanding
<1>4. BusyKeysExact' /\ fresh_tasks' = {t \in Live' : t.fresh}
  <2> DEFINE gone == {worker_task}
  <2>1. busy_keys' = busy_keys \ UNION {t.keys : t \in gone}
    BY Zenon DEF WorkerRelease, ReleaseTaskLocked
  <2>2. fresh_tasks' = fresh_tasks \ gone
    BY Zenon DEF WorkerRelease, ReleaseTaskLocked
  <2>3. Live' = Live \ gone /\ gone \in SUBSET Live
    BY <1>1, Zenon
  <2> HIDE DEF gone
  <2> QED  BY <2>1, <2>2, <2>3, ReleaseStep, Zenon
<1>5. IdsInv' /\ CompletionInv' /\ WaiterInv'
  <2>1. "TIMEOUT" \in DoneStatuses
    BY Zenon DEF DoneStatuses, RunStatuses
  <2>2. \A t \in done : ~t.fresh
    OBVIOUS
  <2> HIDE DEF done
  <2>3. UNCHANGED <<next_request_id, client, completion>>
    BY Zenon DEF WorkerRelease
  <2> QED  BY <1>3, <2>1, <2>2, <2>3, FinishStep, Zenon
<1>6. QueueInOrder'
  BY <1>0 DEF RuntimeInv, QueueInOrder, Ordered, Before
<1>7. PlaceInv'
  BY <1>0, Zenon DEF RuntimeInv, PlaceInv, WorkerRelease
<1>8. ExpiryInv'
  BY Zenon DEF RuntimeInv, ExpiryInv, WorkerRelease
<1> QED  BY <1>4, <1>5, <1>6, <1>7, <1>8 DEF RuntimeInv

LEMMA WorkerCompleteInv == TypeOK /\ RuntimeInv /\ WorkerComplete => RuntimeInv'
<1> SUFFICES ASSUME TypeOK, RuntimeInv, WorkerComplete  PROVE RuntimeInv'
  OBVIOUS
<1> USE DEF controlVars, queueVars
<1>0. /\ worker_task \notin Elements(queue) \cup cancelled
      /\ InFlight = {} /\ InFlight' = {} /\ Finishing = {worker_task} /\ Finishing' = {}
      /\ UNCHANGED <<queue, cancelled>> /\ Elements(queue)' = Elements(queue)
  BY Zenon DEF RuntimeInv, PlaceInv, WorkerComplete, InFlight, Finishing, Elements
<1>1. Live' = Live
  BY <1>0, Zenon DEF Live
<1>2. Outstanding' = Outstanding \ {worker_task} /\ {worker_task} \subseteq Outstanding
  BY <1>0, <1>1 DEF Outstanding, Live
<1>3. IdsInv' /\ CompletionInv' /\ WaiterInv'
  <2> DEFINE done == {worker_task}
  <2>1. worker_status \in DoneStatuses
    BY Zenon DEF TypeOK, DoneStatuses
  <2>2. \A id \in 1..MaxRequestId :
           completion'[id] = IF \E t \in done : t.fresh /\ t.id = id
                             THEN worker_status ELSE completion[id]
    BY Zenon DEF WorkerComplete, Complete
  <2>4. Outstanding' = Outstanding \ done /\ done \in SUBSET Outstanding
    BY <1>2, Zenon
  <2> HIDE DEF done
  <2>3. UNCHANGED <<next_request_id, client>>
    BY Zenon DEF WorkerComplete
  <2> QED  BY <2>1, <2>2, <2>3, <2>4, FinishStep
<1>4. BusyKeysExact' /\ fresh_tasks' = {t \in Live' : t.fresh}
  BY <1>1, Zenon DEF RuntimeInv, BusyKeysExact, WorkerComplete
<1>6. QueueInOrder'
  BY <1>0 DEF RuntimeInv, QueueInOrder, Ordered, Before
<1>7. PlaceInv'
  BY <1>0, Zenon DEF RuntimeInv, PlaceInv, WorkerComplete
<1>8. ExpiryInv'
  BY SMTT(30) DEF RuntimeInv, ExpiryInv, WorkerComplete
<1> QED  BY <1>3, <1>4, <1>6, <1>7, <1>8 DEF RuntimeInv

LEMMA CancelQueuedInv == TypeOK /\ RuntimeInv /\ CancelQueued => RuntimeInv'
<1> SUFFICES ASSUME TypeOK, RuntimeInv, CancelQueued  PROVE RuntimeInv'
  OBVIOUS
<1> USE DEF workerVars
<1> DEFINE gone == Elements(queue)
<1>0. /\ cancelled = {} /\ cancelled' = gone /\ Elements(queue)' = {}
      /\ InFlight' = InFlight /\ Finishing' = Finishing
      /\ InFlight \cap gone = {} /\ ~shutdown
  BY DEF RuntimeInv, PlaceInv, CancelQueued, InFlight, Finishing, Elements, TypeOK
<1>1. Live' = Live \ gone /\ gone \in SUBSET Live /\ Live' = InFlight
  BY <1>0, Zenon DEF Live
<1>2. Outstanding' = Outstanding
  BY <1>0, <1>1, Zenon DEF Outstanding, Live
<1>3. BusyKeysExact' /\ fresh_tasks' = {t \in Live' : t.fresh}
  <2>1. busy_keys' = busy_keys \ UNION {t.keys : t \in gone}
    BY Zenon DEF CancelQueued
  <2>2. fresh_tasks' = fresh_tasks \ gone
    BY Zenon DEF CancelQueued
  <2> HIDE DEF gone
  <2> QED  BY <1>1, <2>1, <2>2, ReleaseStep, Zenon
<1>4. QueueInOrder'
  <2>1. queue' = <<>>
    BY Zenon DEF CancelQueued
  <2>2. Len(queue') = 0 /\ 1..Len(queue') = {}
    BY <2>1
  <2>3. Len(queue') <= MaxProviderQueue
    BY <2>2, LimitAssumption
  <2>4. Ordered(queue')
    BY <2>2, ZenonT(60) DEF Ordered
  <2> QED  BY <2>3, <2>4, Zenon DEF QueueInOrder
<1>5. IdsInv' /\ CompletionInv' /\ WaiterInv'
  <2>1. UNCHANGED <<next_request_id, completion, client>>
    BY Zenon DEF CancelQueued
  <2>2. IdsInv' /\ CompletionInv'
    BY <1>2, <2>1, Zenon DEF RuntimeInv, IdsInv, CompletionInv
  <2>3. WaiterInv'
    BY <1>2, <2>1, Zenon DEF RuntimeInv, WaiterInv, Attached
  <2> QED  BY <2>2, <2>3, Zenon
<1>6. PlaceInv'
  BY <1>0, Zenon DEF RuntimeInv, PlaceInv, CancelQueued
<1>7. ExpiryInv'
  BY Zenon DEF RuntimeInv, ExpiryInv, CancelQueued
<1> QED  BY <1>3, <1>4, <1>5, <1>6, <1>7, Zenon DEF RuntimeInv

LEMMA CompleteCancelledInv ==
  ASSUME TypeOK, RuntimeInv, NEW t \in cancelled, CompleteCancelled(t)
  PROVE  RuntimeInv'
<1> USE DEF workerVars, queueVars
<1> DEFINE done == {t}
<1>0. /\ cancelled' = cancelled \ done /\ queue = <<>> /\ UNCHANGED queue
      /\ Elements(queue) = {} /\ Elements(queue)' = {}
      /\ InFlight' = InFlight /\ Finishing' = Finishing
      /\ t \notin InFlight /\ t \notin Finishing
  BY DEF RuntimeInv, PlaceInv, CompleteCancelled, InFlight, Finishing, Elements
<1>1. Live' = Live /\ t \notin Live
  BY <1>0, Zenon DEF Live
<1>2. Outstanding' = Outstanding \ done /\ done \in SUBSET Outstanding
  BY <1>0, <1>1, Zenon DEF Outstanding
<1>3. IdsInv' /\ CompletionInv' /\ WaiterInv'
  <2>1. "NOT_INITIALIZED" \in DoneStatuses
    BY Zenon DEF DoneStatuses
  <2>2. \A id \in 1..MaxRequestId :
           completion'[id] = IF \E u \in done : u.fresh /\ u.id = id
                             THEN "NOT_INITIALIZED" ELSE completion[id]
    BY Zenon DEF CompleteCancelled, Complete
  <2>3. UNCHANGED <<next_request_id, client>>
    BY Zenon DEF CompleteCancelled
  <2> HIDE DEF done
  <2> QED  BY <1>2, <2>1, <2>2, <2>3, FinishStep, SMTT(30)
<1>4. BusyKeysExact' /\ fresh_tasks' = {u \in Live' : u.fresh}
  BY <1>1, Zenon DEF RuntimeInv, BusyKeysExact, CompleteCancelled
<1>5. QueueInOrder'
  BY <1>0 DEF RuntimeInv, QueueInOrder, Ordered, Before
<1>6. PlaceInv'
  BY <1>0, Zenon DEF RuntimeInv, PlaceInv, CompleteCancelled
<1>7. ExpiryInv'
  BY Zenon DEF RuntimeInv, ExpiryInv, CompleteCancelled
<1> QED  BY <1>3, <1>4, <1>5, <1>6, <1>7 DEF RuntimeInv

LEMMA WorkerJoinedInv == TypeOK /\ RuntimeInv /\ WorkerJoined => RuntimeInv'
<1> SUFFICES ASSUME TypeOK, RuntimeInv, WorkerJoined  PROVE RuntimeInv'
  OBVIOUS
<1> USE DEF workerVars, queueVars
<1>1. Live' = Live /\ Outstanding' = Outstanding /\ Elements(queue)' = Elements(queue)
  BY Zenon DEF WorkerJoined, Live, Outstanding, InFlight, Finishing, Elements
<1>2. BusyKeysExact' /\ fresh_tasks' = {u \in Live' : u.fresh}
  BY <1>1, Zenon DEF RuntimeInv, BusyKeysExact, WorkerJoined
<1>3. QueueInOrder'
  BY DEF RuntimeInv, QueueInOrder, Ordered, Before, WorkerJoined
<1>4. IdsInv' /\ CompletionInv' /\ WaiterInv'
  BY <1>1, Zenon DEF RuntimeInv, IdsInv, CompletionInv, WaiterInv, Attached, WorkerJoined
<1>5. PlaceInv' /\ ExpiryInv'
  BY <1>1, Zenon DEF RuntimeInv, PlaceInv, ExpiryInv, WorkerJoined
<1> QED  BY <1>2, <1>3, <1>4, <1>5, Zenon DEF RuntimeInv

-----------------------------------------------------------------------------
(* The steps that bring a task or a waiter in *)

LEMMA JobEnqueuedInv == TypeOK /\ RuntimeInv /\ JobEnqueued => RuntimeInv'
<1> SUFFICES ASSUME TypeOK, RuntimeInv, JobEnqueued  PROVE RuntimeInv'
  OBVIOUS
<1> DEFINE t == ScheduledTask
<1>1. /\ t \in Task /\ t.keys # {} /\ t.id = next_request_id
      /\ next_request_id < MaxRequestId /\ next_request_id' = next_request_id + 1
  BY ScheduledTaskType, Zenon DEF JobEnqueued, AdvanceDue
<1>2. /\ EnqueueAccepts(t) /\ EnqueueLocked(t)
      /\ UNCHANGED <<now, workerVars, controlVars, client>>
  BY Zenon DEF JobEnqueued
<1> HIDE DEF t
<1>3. /\ BusyKeysExact' /\ QueueInOrder'
      /\ fresh_tasks' = {u \in Live' : u.fresh}
      /\ IdsInv' /\ PlaceInv' /\ CompletionInv' /\ ExpiryInv'
      /\ \A c \in Clients : client[c].pc = "waiting" =>
           /\ client[c].task \in 1..(next_request_id' - 1)
           /\ completion'[client[c].task] # "none"
           /\ \A u \in Outstanding' : u.id = client[c].task => u.deadline >= client[c].deadline
  BY <1>1, <1>2, EnqueueInv, Zenon
<1>4. WaiterInv'
  BY <1>2, <1>3, Zenon DEF WaiterInv, Attached
<1> QED  BY <1>3, <1>4, Zenon DEF RuntimeInv

LEMMA FreshReadEnqueueInv ==
  ASSUME TypeOK, RuntimeInv, NEW c \in Clients, NEW keys \in SUBSET Keys,
         NEW deadline \in 1..(MaxTime + 1), FreshReadEnqueue(c, keys, deadline)
  PROVE  RuntimeInv'
<1> DEFINE t == FreshTask(keys, deadline)
<1>1. /\ AllocatedId = next_request_id /\ deadline \in Nat
      /\ next_request_id < MaxRequestId /\ next_request_id' = next_request_id + 1
      /\ next_request_id \in Nat \ {0} /\ MaxRequestId \in Nat
  BY LimitAssumption, SMTT(30) DEF FreshReadEnqueue, AllocatedId, NextRequestId, TypeOK
<1>2. t \in Task /\ t.keys # {} /\ t.id = next_request_id /\ t.fresh /\ t.deadline = deadline
  BY <1>1, SMTT(30) DEF FreshTask, Task, Priorities, KNormal, TypeOK, FreshReadEnqueue,
                        FreshReadAdmitted
<1>3. /\ EnqueueAccepts(t) /\ EnqueueLocked(t)
      /\ UNCHANGED <<now, workerVars, controlVars>>
      /\ client' = [client EXCEPT ![c] = [pc |-> "waiting", task |-> next_request_id,
                                          deadline |-> deadline]]
  BY <1>1, Zenon DEF FreshReadEnqueue, Wait
<1> HIDE DEF t
<1>4. /\ BusyKeysExact' /\ QueueInOrder'
      /\ fresh_tasks' = {u \in Live' : u.fresh}
      /\ IdsInv' /\ PlaceInv' /\ CompletionInv' /\ ExpiryInv' /\ t \in Outstanding'
      /\ \A d \in Clients : client[d].pc = "waiting" =>
           /\ client[d].task \in 1..(next_request_id' - 1)
           /\ completion'[client[d].task] # "none"
           /\ \A u \in Outstanding' : u.id = client[d].task => u.deadline >= client[d].deadline
  BY <1>1, <1>2, <1>3, EnqueueInv, ZenonT(30)
<1>5. WaiterInv'
  <2> SUFFICES ASSUME NEW d \in Clients, client'[d].pc = "waiting"
               PROVE  Attached(client[d])'
    BY Zenon DEF WaiterInv
  <2>1. CASE d = c
    <3>1. client'[d].task = next_request_id /\ client'[d].deadline = deadline
      BY <2>1, <1>3, SMTT(30) DEF TypeOK
    <3>2. completion'[next_request_id] = "pending"
      <4>1. next_request_id \in 1..MaxRequestId /\ t.fresh /\ t.id = next_request_id
        BY <1>1, <1>2
      <4>2. completion' = [id \in 1..MaxRequestId |->
                             IF t.fresh /\ id = t.id THEN "pending"
                             ELSE Complete(Evicted, "RESOURCE_EXHAUSTED")[id]]
        BY <1>3, ZenonT(30) DEF EnqueueLocked
      <4> HIDE DEF Complete, Evicted
      <4> QED  BY <4>1, <4>2, Zenon
    <3>3. \A u \in Outstanding' : u.id = next_request_id => u.deadline >= deadline
      <4>1. \A u \in Outstanding' : u.id = t.id => u = t
        BY <1>4, Zenon DEF IdsInv
      <4> QED  BY <1>1, <1>2, <4>1
    <3> QED  BY <3>1, <3>2, <3>3, <1>1, SMTT(30) DEF Attached
  <2>2. CASE d # c
    <3>1. client'[d] = client[d]
      BY <2>2, <1>3, Zenon DEF TypeOK
    <3> QED  BY <3>1, <1>4, Zenon DEF Attached
  <2> QED  BY <2>1, <2>2, SMTT(30)
<1> QED  BY <1>4, <1>5 DEF RuntimeInv

LEMMA FreshReadJoinInv ==
  ASSUME TypeOK, RuntimeInv, NEW c \in Clients, NEW keys \in SUBSET Keys,
         NEW deadline \in 1..(MaxTime + 1), FreshReadJoin(c, keys, deadline)
  PROVE  RuntimeInv'
<1>1. PICK t \in Registered(keys) : t.deadline >= deadline /\ Wait(c, t.id, deadline)
  BY Zenon DEF FreshReadJoin
<1>2. t \in Outstanding /\ t.fresh /\ t.id \in 1..(next_request_id - 1) /\ t.id \in Nat
      /\ t.id \in 1..MaxRequestId
  <2>1. t \in Live /\ t.fresh
    BY <1>1, Zenon DEF Registered, RuntimeInv
  <2>2. t \in Outstanding
    BY <2>1, Zenon DEF Outstanding
  <2>3. t.id \in 1..(next_request_id - 1)
    BY <2>2, Zenon DEF RuntimeInv, IdsInv
  <2>4. next_request_id \in 1..MaxRequestId /\ MaxRequestId \in Nat
    BY LimitAssumption, Zenon DEF TypeOK
  <2> QED  BY <2>1, <2>2, <2>3, <2>4
<1> DEFINE w == [pc |-> "waiting", task |-> t.id, deadline |-> deadline]
<1>3. Attached(w) /\ w.task \in Nat
  <2>1. completion[t.id] = "pending"
    BY <1>2, Zenon DEF RuntimeInv, CompletionInv
  <2>2. \A u \in Outstanding : u.id = t.id => u.deadline >= deadline
    BY <1>1, <1>2, Zenon DEF RuntimeInv, IdsInv
  <2> QED  BY <1>2, <2>1, <2>2, Zenon DEF Attached
<1>4. Quiet
  BY Zenon DEF FreshReadJoin, Quiet, controlVars
<1>5. /\ BusyKeysExact' /\ QueueInOrder'
      /\ fresh_tasks' = {u \in Live' : u.fresh}
      /\ IdsInv' /\ PlaceInv' /\ CompletionInv' /\ ExpiryInv'
      /\ \A x : x.task \in Nat /\ Attached(x) =>
           /\ x.task \in 1..(next_request_id' - 1)
           /\ completion'[x.task] # "none"
           /\ \A u \in Outstanding' : u.id = x.task => u.deadline >= x.deadline
  BY <1>4, QuietStep, Zenon
<1>6. client' = [client EXCEPT ![c] = w]
  BY <1>1, Zenon DEF Wait
<1> HIDE DEF w
<1>7. WaiterInv'
  <2> SUFFICES ASSUME NEW d \in Clients, client'[d].pc = "waiting"
               PROVE  Attached(client[d])'
    BY ZenonT(30) DEF WaiterInv
  <2>1. PICK x : client'[d] = x /\ x.task \in Nat /\ Attached(x)
    <3>1. CASE d = c
      BY <3>1, <1>3, <1>6 DEF TypeOK
    <3>2. CASE d # c
      BY <3>2, <1>6, Zenon DEF TypeOK, RuntimeInv, WaiterInv
    <3> QED  BY <3>1, <3>2, ZenonT(30)
  <2> QED  BY <2>1, <1>5, ZenonT(30) DEF Attached
<1> QED  BY <1>5, <1>7, Zenon DEF RuntimeInv

-----------------------------------------------------------------------------
(* Every step keeps the inductive invariant.                                *)
LEMMA RuntimeStep ==
  ASSUME TypeOK, RuntimeInv, [Next]_vars
  PROVE  RuntimeInv'
<1> USE DEF planVars, dueVars, queueVars, workerVars, controlVars, history
<1>q. ASSUME Quiet, UNCHANGED client  PROVE RuntimeInv'
  BY <1>q, QuietInv, Zenon
<1>1. CASE Tick
  BY <1>1, <1>q, Zenon DEF Tick, Quiet
<1>2. ASSUME NEW jobs \in PlanJobs, StorePlan(jobs)  PROVE RuntimeInv'
  BY <1>2, <1>q, Zenon DEF StorePlan, Quiet
<1>3. CASE InstallPlan
  BY <1>3, <1>q, Zenon DEF InstallPlan, Quiet
<1>4. ASSUME NEW keys \in RouteChoices, ActivateCatalog(keys)  PROVE RuntimeInv'
  BY <1>4, <1>q, Zenon DEF ActivateCatalog, Quiet
<1>5. CASE SchedulerCheck \/ RunDueStopped \/ RunDueBegin \/ JobNotDue
  BY <1>5, <1>q, Zenon DEF SchedulerCheck, RunDueStopped, RunDueBegin, JobNotDue, Quiet
<1>6. CASE JobRejected
  BY <1>6, <1>q, Zenon DEF JobRejected, AdvanceDue, Quiet
<1>7. CASE RunDueUnlock \/ NoteResult \/ SchedulerWake
  BY <1>7, <1>q, Zenon DEF RunDueUnlock, NoteResult, SchedulerWake, Quiet
<1>8. ASSUME NEW c \in Clients, NEW keys \in SUBSET Keys, NEW deadline \in 1..(MaxTime + 1),
             FreshReadRefused(c, keys, deadline)
      PROVE  RuntimeInv'
  BY <1>8, <1>q, Zenon DEF FreshReadRefused, Quiet
<1>9. ASSUME NEW c \in Clients, WaiterWakes(c) \/ WaiterLeaves(c)  PROVE RuntimeInv'
  <2>1. Quiet
    BY <1>9, Zenon DEF WaiterWakes, WaiterLeaves, Quiet
  <2>2. \A d \in Clients : client'[d].pc = "waiting" => client'[d] = client[d]
    BY <1>9, SMTT(30) DEF WaiterWakes, WaiterLeaves, TypeOK
  <2> QED  BY <2>1, <2>2, QuietInv, Zenon
<1>10. CASE StartScheduler
  BY <1>10, <1>q, Zenon DEF StartScheduler, Quiet
<1>11. CASE StopScheduler
  BY <1>11, <1>q, Zenon DEF StopScheduler, RequestStop, Quiet
<1>12. CASE ShutdownAll
  BY <1>12, <1>q, Zenon DEF ShutdownAll, RequestStop, Quiet
<1>13. CASE SchedulerJoined
  BY <1>13, <1>q, Zenon DEF SchedulerJoined, Quiet
<1>14. CASE UNCHANGED vars
  BY <1>14, <1>q, Zenon DEF vars, Quiet
<1>15. CASE RunDue
  BY <1>15, <1>5, <1>6, <1>7, JobEnqueuedInv DEF RunDue
<1>16. CASE Scheduler
  BY <1>16, <1>5, <1>7, <1>15 DEF Scheduler
<1>17. CASE Worker
  BY <1>17, WorkerPopInv, WorkerKeepsTaskInv, WorkerReleaseInv, WorkerCompleteInv, Zenon DEF Worker
<1>18. ASSUME NEW c \in Clients, Client(c)  PROVE RuntimeInv'
  BY <1>18, <1>8, <1>9, FreshReadJoinInv, FreshReadEnqueueInv DEF Client, FreshRead
<1>19. CASE Shutdown
  BY <1>19, <1>13, CancelQueuedInv, WorkerJoinedInv, CompleteCancelledInv, Zenon DEF Shutdown
<1> QED  BY <1>1, <1>2, <1>3, <1>4, <1>10, <1>11, <1>12, <1>14, <1>16, <1>17, <1>18, <1>19
         DEF Next

-----------------------------------------------------------------------------
(* fresh_waiters counts the callers *)

(* The callers inside freshRead are finitely many.                          *)
Inside == {c \in Clients : client[c].pc # "idle"}

LEMMA InsideFinite == IsFiniteSet(Inside) /\ (Inside = {} <=> Cardinality(Inside) = 0)
<1>1. IsFiniteSet(Inside)
  BY ClientsAssumption, FS_Subset, Zenon DEF Inside
<1> QED  BY <1>1, FS_EmptySet, Zenon

(* A caller that leaves is counted.                                         *)
LEMMA LeaverCounted ==
  ASSUME WaitersCounted, NEW c \in Clients, WaiterLeaves(c)
  PROVE  fresh_waiters # 0
<1>1. c \in Inside
  BY Zenon DEF WaiterLeaves, Inside
<1> QED  BY <1>1, InsideFinite, Zenon DEF WaitersCounted, Inside

LEMMA WaiterCountStep ==
  ASSUME TypeOK, WaitersCounted, [Next]_vars
  PROVE  WaitersCounted'
<1> USE DEF queueVars, workerVars, controlVars
<1>0. /\ fresh_waiters = Cardinality(Inside) /\ fresh_waiters <= MaxFreshWaiters
      /\ IsFiniteSet(Inside) /\ MaxFreshWaiters \in Nat /\ fresh_waiters \in Nat
  BY InsideFinite, LimitAssumption DEF WaitersCounted, Inside, TypeOK
<1>1. ASSUME NEW c \in Clients, NEW id, NEW deadline, client[c].pc = "idle",
             fresh_waiters < MaxFreshWaiters, Wait(c, id, deadline)
      PROVE  WaitersCounted'
  <2>1. Inside' = Inside \cup {c} /\ c \notin Inside
    BY <1>1, SMTT(30) DEF TypeOK, Inside, Wait
  <2>2. Cardinality(Inside') = Cardinality(Inside) + 1
    BY <2>1, <1>0, FS_AddElement, Zenon
  <2> QED  BY <2>2, <1>0, <1>1 DEF WaitersCounted, Wait, Inside
<1>2. ASSUME NEW c \in Clients, WaiterLeaves(c)
      PROVE  WaitersCounted'
  <2>1. Inside' = Inside \ {c} /\ c \in Inside
    BY <1>2, Zenon DEF TypeOK, Inside, WaiterLeaves
  <2>2. Cardinality(Inside') = Cardinality(Inside) - 1
    BY <2>1, <1>0, FS_RemoveElement, Zenon
  <2> QED  BY <2>2, <1>0, <1>2 DEF WaitersCounted, WaiterLeaves, Inside
<1>3. ASSUME UNCHANGED fresh_waiters, Inside' = Inside
      PROVE  WaitersCounted'
  <2>1. fresh_waiters' = Cardinality(Inside') /\ fresh_waiters' <= MaxFreshWaiters
    BY <1>0, <1>3, Zenon
  <2> QED  BY <2>1, Zenon DEF WaitersCounted, Inside
<1>4. ASSUME UNCHANGED <<client, fresh_waiters>>
      PROVE  WaitersCounted'
  BY <1>4, <1>3, Zenon DEF Inside
<1>5. ASSUME NEW c \in Clients, WaiterWakes(c)
      PROVE  WaitersCounted'
  <2>1. Inside' = Inside
    BY <1>5, Zenon DEF TypeOK, Inside, WaiterWakes
  <2> QED  BY <2>1, <1>3, <1>5, Zenon DEF WaiterWakes
<1>6. ASSUME NEW c \in Clients, FreshRead(c)
      PROVE  WaitersCounted'
  <2>1. PICK keys \in SUBSET Keys, deadline \in 1..(MaxTime + 1) :
          \/ FreshReadJoin(c, keys, deadline)
          \/ FreshReadEnqueue(c, keys, deadline)
          \/ FreshReadRefused(c, keys, deadline)
    BY <1>6, Zenon DEF FreshRead
  <2>2. CASE FreshReadJoin(c, keys, deadline)
    BY <2>2, <1>1, Zenon DEF FreshReadJoin, FreshReadAdmitted
  <2>3. CASE FreshReadEnqueue(c, keys, deadline)
    BY <2>3, <1>1, Zenon DEF FreshReadEnqueue, FreshReadAdmitted
  <2>4. CASE FreshReadRefused(c, keys, deadline)
    BY <2>4, <1>4, Zenon DEF FreshReadRefused
  <2> QED  BY <2>1, <2>2, <2>3, <2>4
<1>7. CASE Tick \/ InstallPlan \/ StartScheduler \/ StopScheduler \/ ShutdownAll
  BY <1>7, <1>4, Zenon DEF Tick, InstallPlan, StartScheduler, StopScheduler, ShutdownAll,
                           RequestStop
<1>8. ASSUME NEW jobs, StorePlan(jobs)  PROVE WaitersCounted'
  BY <1>8, <1>4, Zenon DEF StorePlan
<1>9. ASSUME NEW keys, ActivateCatalog(keys)  PROVE WaitersCounted'
  BY <1>9, <1>4, Zenon DEF ActivateCatalog
<1>10. CASE Scheduler
  <2>1. CASE SchedulerCheck \/ SchedulerWake \/ RunDueStopped \/ RunDueBegin
    BY <2>1, <1>4, Zenon DEF SchedulerCheck, SchedulerWake, RunDueStopped, RunDueBegin
  <2>2. CASE JobNotDue \/ JobEnqueued
    BY <2>2, <1>4, Zenon DEF JobNotDue, JobEnqueued
  <2>3. CASE JobRejected \/ RunDueUnlock \/ NoteResult
    BY <2>3, <1>4, Zenon DEF JobRejected, RunDueUnlock, NoteResult
  <2> QED  BY <1>10, <2>1, <2>2, <2>3, SMTT(30) DEF Scheduler, RunDue
<1>11. CASE Worker
  BY <1>11, <1>4, Zenon DEF Worker, WorkerPop, WorkerExit, WorkerRead, WorkerNote,
       WorkerRelease, WorkerComplete
<1>12. CASE Shutdown
  <2>1. CASE SchedulerJoined \/ CancelQueued \/ WorkerJoined
    BY <2>1, <1>4, Zenon DEF SchedulerJoined, CancelQueued, WorkerJoined
  <2>2. ASSUME NEW t \in cancelled, CompleteCancelled(t)  PROVE WaitersCounted'
    BY <2>2, <1>4, Zenon DEF CompleteCancelled
  <2> QED  BY <1>12, <2>1, <2>2, SMTT(30) DEF Shutdown
<1>13. CASE UNCHANGED vars
  BY <1>13, <1>4, Zenon DEF vars
<1> QED  BY <1>2, <1>5, <1>6, <1>7, <1>8, <1>9, <1>10, <1>11, <1>12, <1>13, SMTT(30)
         DEF Next, Client

(* The constructor leaves an empty runtime.                                 *)
LEMMA InitInv == Init => TypeOK /\ RuntimeInv /\ WaitersCounted
<1> SUFFICES ASSUME Init  PROVE TypeOK /\ RuntimeInv /\ WaitersCounted
  BY SMTT(30)
<1>1. NoTask \in Task
  BY SMTT(30) DEF NoTask, Task, Priorities
<1>2. SchedulerAt("off") \in SchedulerState
  <2>1. NoPlan \in Plan /\ <<>> \in Results
    BY EmptySeqFact, Zenon DEF NoPlan, Plan, Results
  <2> QED  BY <2>1, Zenon DEF SchedulerAt, SchedulerState, SchedulerPcs
<1>3. TypeOK
  <2>1. queue \in Seq(Task) /\ next_due \in Seq(Nat) /\ plan \in Plan
    BY EmptySeqFact, Zenon DEF Init, NoPlan, Plan
  <2>2. sched \in SchedulerState /\ worker_task \in Task /\ worker_status \in RunStatuses
    BY <1>1, <1>2, Zenon DEF Init, RunStatuses
  <2>3. /\ completion \in [1..MaxRequestId -> {"none", "pending"} \cup DoneStatuses]
        /\ next_request_id \in 1..MaxRequestId
    BY LimitAssumption DEF Init
  <2>4. /\ client \in [Clients -> [pc : {"idle", "waiting", "leaving"}, task : Nat, deadline : Nat]]
        /\ route \in [generation : Nat, keys : SUBSET Keys]
    BY Zenon DEF Init
  <2>5. /\ busy_keys \subseteq Keys /\ fresh_tasks \subseteq Task /\ cancelled \subseteq Task
        /\ noted \subseteq Slot /\ dropped \subseteq Slot
    BY Zenon DEF Init
  <2>6. now \in Nat /\ scheduled_plan_version \in Nat /\ fresh_waiters \in Nat
    BY Zenon DEF Init
  <2>7. /\ installing \in BOOLEAN /\ scheduler_stop \in BOOLEAN
        /\ scheduler_running \in BOOLEAN /\ shutdown \in BOOLEAN
    BY Zenon DEF Init
  <2>8. worker_pc = "wait" /\ control_pc = "idle"
    BY Zenon DEF Init
  <2> QED  BY <2>1, <2>2, <2>3, <2>4, <2>5, <2>6, <2>7, <2>8 DEF TypeOK
<1>4. Live = {} /\ Outstanding = {} /\ Elements(queue) = {}
  BY SMTT(30) DEF Init, Live, Outstanding, InFlight, Finishing, Elements
<1>5. BusyKeysExact /\ QueueInOrder /\ fresh_tasks = {t \in Live : t.fresh}
  BY <1>4, LimitAssumption, SMTT(30) DEF Init, BusyKeysExact, QueueInOrder, Ordered
<1>6. IdsInv /\ PlaceInv /\ CompletionInv
  BY <1>4, LimitAssumption, Zenon DEF Init, IdsInv, PlaceInv, CompletionInv
<1>7. WaiterInv /\ ExpiryInv
  BY Zenon DEF Init, WaiterInv, ExpiryInv
<1>8. WaitersCounted
  <2>1. Inside = {}
    BY Zenon DEF Init, Inside
  <2>2. Cardinality(Inside) = 0
    BY <2>1, InsideFinite, Zenon
  <2> QED  BY <2>2, LimitAssumption DEF Init, WaitersCounted, Inside
<1> QED  BY <1>3, <1>5, <1>6, <1>7, <1>8 DEF RuntimeInv

(* The inductive invariant holds in every reachable state: the state of the  *)
(* queue, of the worker, of the waiters and of their completions stays       *)
(* consistent for every plan, every set of callers and every limit.          *)
THEOREM RuntimeCorrect == Spec => [](TypeOK /\ RuntimeInv /\ WaitersCounted)
<1>1. TypeOK /\ RuntimeInv /\ WaitersCounted /\ [Next]_vars
        => (TypeOK /\ RuntimeInv /\ WaitersCounted)'
  BY TypeStep, RuntimeStep, WaiterCountStep, LeaverCounted, Zenon
<1> QED  BY InitInv, <1>1, PTL DEF Spec

(* Every variable of the runtime keeps its type; in particular               *)
(* fresh_waiters, an unsigned count, never goes below zero.                  *)
THEOREM TypeCorrect == Spec => []TypeOK
BY RuntimeCorrect, PTL

(* busy_keys is exactly the keys of the tasks queued or in flight, and no    *)
(* two of those tasks share a key: enqueueLocked and releaseTaskLocked       *)
(* never let the same key be read twice at a time nor leave it blocked.      *)
THEOREM BusyKeysCorrect == Spec => []BusyKeysExact
<1>1. RuntimeInv => BusyKeysExact
  BY Zenon DEF RuntimeInv
<1> QED  BY <1>1, RuntimeCorrect, PTL

(* The provider queue is bounded and in order of priority and age.           *)
THEOREM QueueOrderCorrect == Spec => []QueueInOrder
<1>1. RuntimeInv => QueueInOrder
  BY Zenon DEF RuntimeInv
<1> QED  BY <1>1, RuntimeCorrect, PTL

(* fresh_tasks registers exactly the fresh tasks under way, one for a        *)
(* signature.                                                               *)
THEOREM FreshRegistryCorrect == Spec => []FreshRegistryExact
<1>1. RuntimeInv => FreshRegistryExact
  <2> SUFFICES ASSUME RuntimeInv  PROVE FreshRegistryExact
    OBVIOUS
  <2>1. fresh_tasks = {t \in Live : t.fresh} /\ Live \subseteq Outstanding
    BY Zenon DEF RuntimeInv, Outstanding
  <2>2. \A t, u \in Live : t # u => t.keys \cap u.keys = {}
    BY Zenon DEF RuntimeInv, BusyKeysExact
  <2>3. \A t \in Live : t.keys # {}
    BY <2>1, Zenon DEF RuntimeInv, IdsInv
  <2> QED  BY <2>1, <2>2, <2>3 DEF FreshRegistryExact
<1> QED  BY <1>1, RuntimeCorrect, PTL

(* A caller of freshRead that waits has its answer, or somebody is left who  *)
(* will give it: no path through eviction, shutdown or the worker loses a    *)
(* completion, and none that returns stays in the count of fresh_waiters.    *)
THEOREM NoOrphanWaiterCorrect == Spec => []NoOrphanWaiter
<1>1. TypeOK /\ RuntimeInv /\ WaitersCounted => NoOrphanWaiter
  <2> SUFFICES ASSUME TypeOK, RuntimeInv, NEW c \in Clients, client[c].pc = "waiting",
                      completion[client[c].task] \notin DoneStatuses
               PROVE  completion[client[c].task] = "pending" /\ Completable(client[c].task)
    BY Zenon DEF NoOrphanWaiter
  <2> DEFINE id == client[c].task
  <2>1. id \in 1..MaxRequestId /\ completion[id] # "none"
    BY LimitAssumption DEF TypeOK, RuntimeInv, WaiterInv, Attached
  <2>2. completion[id] = "pending"
    BY <2>1, Zenon DEF TypeOK
  <2>3. PICK t \in Outstanding : t.fresh /\ t.id = id
    BY <2>1, <2>2, Zenon DEF RuntimeInv, CompletionInv
  <2>4. Completable(id)
    BY <2>3, Zenon DEF Completable, Outstanding, Finishing
  <2> QED  BY <2>2, <2>4, Zenon
<1> QED  BY <1>1, RuntimeCorrect, PTL

(* A task the worker gives up as expired has no waiter that still had time:  *)
(* joining a task under way never shortens a caller's deadline.              *)
THEOREM ExpiryCorrect == Spec => []ExpiredTaskHasNoPatientWaiter
<1>1. TypeOK /\ RuntimeInv => ExpiredTaskHasNoPatientWaiter
  <2> SUFFICES ASSUME TypeOK, RuntimeInv, worker_status = "TIMEOUT", NEW c \in Clients,
                      client[c].pc = "waiting", client[c].task = worker_task.id
               PROVE  client[c].deadline < now
    BY Zenon DEF ExpiredTaskHasNoPatientWaiter
  <2>1. worker_pc \in {"note", "release", "complete"} /\ now > worker_task.deadline
    BY Zenon DEF RuntimeInv, ExpiryInv
  <2>2. worker_task \in Outstanding
    BY <2>1, Zenon DEF Outstanding, Live, InFlight, Finishing
  <2>3. worker_task.deadline >= client[c].deadline
    BY <2>2, Zenon DEF RuntimeInv, WaiterInv, Attached
  <2>4. client[c].deadline \in Nat /\ worker_task.deadline \in Nat /\ now \in Nat
    BY TaskNumbers, Zenon DEF TypeOK
  <2> QED  BY <2>1, <2>3, <2>4
<1> QED  BY <1>1, RuntimeCorrect, PTL

(* fresh_waiters is the number of callers inside freshRead, within its limit. *)
THEOREM WaitersCountedCorrect == Spec => []WaitersCounted
BY RuntimeCorrect, PTL

(* When shutdownAll returns no task is left and every waiter is answered.    *)
THEOREM ShutdownCorrect == Spec => []ShutdownLeavesNothing
<1>1. TypeOK /\ RuntimeInv => ShutdownLeavesNothing
  <2> SUFFICES ASSUME TypeOK, RuntimeInv, control_pc = "down"
               PROVE  /\ queue = <<>> /\ busy_keys = {} /\ fresh_tasks = {}
                      /\ \A c \in Clients : client[c].pc = "waiting" =>
                           completion[client[c].task] \in DoneStatuses
    BY Zenon DEF ShutdownLeavesNothing
  <2>1. queue = <<>> /\ cancelled = {} /\ worker_pc = "exited"
    BY Zenon DEF RuntimeInv, PlaceInv
  <2>2. Live = {} /\ Outstanding = {}
    BY <2>1 DEF Live, Outstanding, InFlight, Finishing, Elements
  <2>3. busy_keys = {} /\ fresh_tasks = {}
    BY <2>2, Zenon DEF RuntimeInv, BusyKeysExact
  <2>4. ASSUME NEW c \in Clients, client[c].pc = "waiting"
        PROVE  completion[client[c].task] \in DoneStatuses
    <3>1. client[c].task \in 1..MaxRequestId /\ completion[client[c].task] # "none"
      BY <2>4, LimitAssumption, SMTT(30) DEF TypeOK, RuntimeInv, WaiterInv, Attached
    <3>2. completion[client[c].task] # "pending"
      BY <3>1, <2>2, Zenon DEF RuntimeInv, CompletionInv
    <3> QED  BY <3>1, <3>2, Zenon DEF TypeOK
  <2> QED  BY <2>1, <2>3, <2>4, Zenon
<1> QED  BY <1>1, RuntimeCorrect, PTL

(* Only the completions of outstanding tasks are ever set, and an            *)
(* outstanding task's completion is pending: no answer is replaced by        *)
(* another one.                                                             *)
THEOREM CompletionFinalCorrect == Spec => CompletionFinal
<1> DEFINE Kept == \A id \in 1..MaxRequestId :
                     completion[id] \in DoneStatuses => completion'[id] = completion[id]
<1>1. ASSUME TypeOK, RuntimeInv, Next  PROVE Kept
  <2> USE DEF queueVars, workerVars, controlVars
  <2>p. /\ \A t \in Outstanding :
             t.fresh => completion[t.id] = "pending" /\ t.id \in 1..MaxRequestId
        /\ "pending" \notin DoneStatuses /\ "none" \notin DoneStatuses
        /\ completion[next_request_id] = "none"
    <3>1. next_request_id \in 1..MaxRequestId /\ MaxRequestId \in Nat
      BY <1>1, LimitAssumption, Zenon DEF TypeOK
    <3>2. \A t \in Outstanding : t.id \in 1..(next_request_id - 1)
      BY <1>1, Zenon DEF RuntimeInv, IdsInv
    <3>3. \A t \in Outstanding : t.id \in 1..MaxRequestId
      BY <3>1, <3>2
    <3> QED  BY <1>1, <3>1, <3>3, SMTT(30) DEF RuntimeInv, CompletionInv, DoneStatuses, RunStatuses
  <2>e. ASSUME NEW t \in Task, t.id = next_request_id, EnqueueLocked(t)  PROVE Kept
    <3>1. Evicted \subseteq Outstanding
      BY <1>1, <2>e, EnqueueEffect, Zenon DEF Outstanding, Live
    <3>2. \A id \in 1..MaxRequestId :
            completion'[id] = IF t.fresh /\ id = t.id THEN "pending"
                              ELSE IF \E u \in Evicted : u.fresh /\ u.id = id
                                   THEN "RESOURCE_EXHAUSTED" ELSE completion[id]
      BY <2>e, Zenon DEF EnqueueLocked, Complete
    <3> QED  BY <3>1, <3>2, <2>p, <2>e
  <2>1. CASE JobEnqueued
    BY <2>1, <2>e, <1>1, ScheduledTaskType, Zenon DEF JobEnqueued
  <2>2. ASSUME NEW c \in Clients, FreshRead(c)  PROVE Kept
    <3>1. PICK keys \in SUBSET Keys, deadline \in 1..(MaxTime + 1) :
            \/ FreshReadJoin(c, keys, deadline)
            \/ FreshReadEnqueue(c, keys, deadline)
            \/ FreshReadRefused(c, keys, deadline)
      BY <2>2, Zenon DEF FreshRead
    <3>2. CASE FreshReadEnqueue(c, keys, deadline)
      <4>1. AllocatedId = next_request_id /\ deadline \in Nat /\ next_request_id \in Nat
        BY <3>2, <1>1, LimitAssumption, SMTT(30) DEF FreshReadEnqueue, AllocatedId, TypeOK
      <4>2. FreshTask(keys, deadline) \in Task /\ FreshTask(keys, deadline).id = next_request_id
        BY <4>1, <1>1, SMTT(30) DEF FreshTask, Task, Priorities, KNormal, TypeOK
      <4> QED  BY <3>2, <4>2, <2>e, Zenon DEF FreshReadEnqueue
    <3> QED  BY <3>1, <3>2, Zenon DEF FreshReadJoin, FreshReadRefused
  <2>3. CASE WorkerComplete
    <3>1. worker_task \in Outstanding
      BY <2>3, Zenon DEF WorkerComplete, Outstanding, Finishing
    <3> QED  BY <3>1, <2>3, <2>p, Zenon DEF WorkerComplete, Complete
  <2>4. ASSUME NEW t \in cancelled, CompleteCancelled(t)  PROVE Kept
    <3>1. t \in Outstanding
      BY Zenon DEF Outstanding
    <3> QED  BY <3>1, <2>4, <2>p, Zenon DEF CompleteCancelled, Complete
  <2>5. ASSUME UNCHANGED completion  PROVE Kept
    BY <2>5, Zenon
  <2> HIDE DEF Kept
  <2>6. CASE Tick \/ InstallPlan \/ StartScheduler \/ StopScheduler \/ ShutdownAll
    BY <2>6, <2>5, Zenon DEF Tick, InstallPlan, StartScheduler, StopScheduler, ShutdownAll,
                             RequestStop
  <2>7. ASSUME NEW jobs, StorePlan(jobs)  PROVE Kept
    BY <2>7, <2>5, Zenon DEF StorePlan
  <2>8. ASSUME NEW keys, ActivateCatalog(keys)  PROVE Kept
    BY <2>8, <2>5, Zenon DEF ActivateCatalog
  <2>9. CASE SchedulerCheck \/ SchedulerWake \/ RunDueStopped \/ RunDueBegin \/ JobNotDue
    BY <2>9, <2>5, Zenon DEF SchedulerCheck, SchedulerWake, RunDueStopped, RunDueBegin, JobNotDue
  <2>10. CASE JobRejected \/ RunDueUnlock \/ NoteResult
    BY <2>10, <2>5 DEF JobRejected, RunDueUnlock, NoteResult
  <2>11. CASE WorkerPop \/ WorkerExit \/ WorkerRead \/ WorkerNote \/ WorkerRelease
    BY <2>11, <2>5, Zenon DEF WorkerPop, WorkerExit, WorkerRead, WorkerNote, WorkerRelease
  <2>12. CASE SchedulerJoined \/ CancelQueued \/ WorkerJoined
    BY <2>12, <2>5, ZenonT(30) DEF SchedulerJoined, CancelQueued, WorkerJoined
  <2>13. ASSUME NEW c \in Clients, WaiterWakes(c) \/ WaiterLeaves(c)  PROVE Kept
    BY <2>13, <2>5, Zenon DEF WaiterWakes, WaiterLeaves
  <2> QED  BY <1>1, <2>1, <2>2, <2>3, <2>4, <2>6, <2>7, <2>8, <2>9, <2>10, <2>11, <2>12, <2>13,
              Zenon
           DEF Next, Scheduler, RunDue, Worker, Client, Shutdown
<1>2. TypeOK /\ RuntimeInv /\ [Next]_vars => [Kept]_vars
  BY <1>1, Zenon
<1> QED  BY <1>2, RuntimeCorrect, PTL DEF Spec, CompletionFinal

-----------------------------------------------------------------------------
(* Every period is accounted for *)

(* The due time of a job of plan p is one of the job's own times.           *)
DueOk(p) ==
  \A j \in DOMAIN next_due \cap DOMAIN p.jobs :
    next_due[j] > p.created_at /\ (next_due[j] - p.created_at) % p.jobs[j].period = 0

(* A version stands for one plan, and the due times are those of the plan   *)
(* whose version is scheduled, as far as anyone still has it.               *)
PlanInv ==
  /\ scheduled_plan_version <= plan.version /\ sched.plan.version <= plan.version
  /\ sched.plan.version = plan.version => sched.plan = plan
  /\ plan.version = 0 => plan = NoPlan
  /\ sched.pc = "jobs" => sched.plan.version = scheduled_plan_version
  /\ \A p \in {plan, sched.plan} : p.version = scheduled_plan_version => DueOk(p)

(* Nothing that is still to be recorded is put away.                        *)
HandInv ==
  /\ sched.pc \notin {"jobs", "results"} => sched.results = <<>>
  /\ sched.pc \notin {"off", "exited"} => scheduler_running
  /\ worker_pc = "release" /\ ~worker_task.fresh => SlotOf(worker_task) \in noted

PeriodInv == PlanInv /\ HandInv /\ EveryPeriodAccounted

Accounted == noted \cup Pending \cup dropped

(* A number without remainder is a multiple, and the other way round.       *)
LEMMA Quotient ==
  ASSUME NEW d \in Nat \ {0}, NEW a \in Nat, a % d = 0  PROVE \E k \in Nat : a = k * d
BY SMTT(20)

LEMMA Multiple == ASSUME NEW d \in Nat \ {0}, NEW k \in Nat  PROVE (k * d) % d = 0
BY SMTT(20)

(* Multiples of a period, from one of them up to n periods later.           *)
LEMMA NextMultiple ==
  ASSUME NEW d \in Nat \ {0}, NEW a \in Nat, NEW n \in Nat, a % d = 0
  PROVE  (a + d * n) % d = 0
<1>1. PICK k \in Nat : a = k * d
  BY Quotient
<1>2. PICK m \in Nat : m = k + n /\ a + d * n = m * d
  BY <1>1
<1>3. (m * d) % d = 0
  BY Multiple
<1> QED  BY <1>2, <1>3, Zenon

(* Two multiples of d less than n times d apart are k times d apart, for    *)
(* some k < n.                                                              *)
Between(a, b, d, n) ==
  /\ d \in Nat \ {0} /\ a \in Nat /\ b \in Nat /\ n \in Nat
  /\ a % d = 0 /\ b % d = 0 /\ a <= b /\ b < a + d * n
StepsLater(a, b, d, n) == \E k \in 0..(n - 1) : b = a + k * d

LEMMA MultiplesBetween ==
  ASSUME NEW a, NEW b, NEW d, NEW n, Between(a, b, d, n)  PROVE StepsLater(a, b, d, n)
<1>0. /\ d \in Nat \ {0} /\ a \in Nat /\ b \in Nat /\ n \in Nat
      /\ a % d = 0 /\ b % d = 0 /\ a <= b /\ b < a + d * n
  BY Zenon DEF Between
<1>1. PICK i \in Nat : a = i * d
  BY <1>0, Quotient, Zenon
<1>2. PICK j \in Nat : b = j * d
  BY <1>0, Quotient, Zenon
<1>3. i <= j /\ j * d < (i + n) * d
  BY <1>0, <1>1, <1>2
<1>4. j < i + n
  BY <1>0, <1>3
<1>5. j - i \in 0..(n - 1) /\ b = a + (j - i) * d
  BY <1>0, <1>1, <1>2, <1>3, <1>4
<1> QED  BY <1>5, Zenon DEF StepsLater

(* There is none between zero and the period itself.                        *)
LEMMA NoMultipleBelow ==
  ASSUME NEW d \in Nat \ {0}, NEW a \in Nat, 0 < a, a < d  PROVE a % d # 0
BY SMTT(30)

(* The members of a sequence, when it grows or loses its head.              *)
LEMMA ElementsAppend ==
  ASSUME NEW S, NEW q \in Seq(S), NEW x \in S
  PROVE  Elements(Append(q, x)) = Elements(q) \cup {x}
<1>1. PICK r : r = Append(q, x)
  BY Zenon
<1>2. /\ Len(q) \in Nat /\ DOMAIN q = 1..Len(q) /\ DOMAIN r = 1..(Len(q) + 1)
      /\ \A i \in 1..Len(q) : r[i] = q[i]
      /\ r[Len(q) + 1] = x
  BY <1>1
<1>3. \A i : i \in DOMAIN r <=> i \in DOMAIN q \/ i = Len(q) + 1
  BY <1>2
<1> QED  BY <1>1, <1>2, <1>3, Zenon DEF Elements

LEMMA ElementsHead ==
  ASSUME NEW S, NEW q \in Seq(S), q # <<>>
  PROVE  \A x \in Elements(q) : x = Head(q) \/ (Len(q) # 1 /\ x \in Elements(Tail(q)))
<1>0. DOMAIN q = 1..Len(q)
  OBVIOUS
<1>1. SUFFICES ASSUME NEW x \in Elements(q)
               PROVE  x = Head(q) \/ (Len(q) # 1 /\ x \in Elements(Tail(q)))
  BY Zenon
<1>i. PICK i \in 1..Len(q) : x = q[i]
  BY <1>0, Zenon DEF Elements
<1>2. CASE i = 1
  BY <1>i, <1>2, SMTT(30)
<1>3. CASE i # 1
  <2>1. i - 1 \in DOMAIN Tail(q) /\ Tail(q)[i - 1] = q[i] /\ Len(q) # 1
    BY <1>i, <1>3, SMTT(30)
  <2> QED  BY <1>i, <2>1, Zenon DEF Elements
<1> QED  BY <1>2, <1>3, Zenon

(* enqueueLocked accounts for the task it evicts.                           *)
LEMMA EnqueueAccounts ==
  ASSUME TypeOK, RuntimeInv, NEW t \in Task, EnqueueAccepts(t), EnqueueLocked(t),
         t.id = next_request_id,
         UNCHANGED workerVars, noted' = noted,
         Elements(sched.results) \subseteq Elements(sched.results)'
  PROVE  Accounted \subseteq Accounted' /\ (~t.fresh => SlotOf(t) \in Accounted')
<1>1. Elements(queue)' = (Elements(queue) \ Evicted) \cup {t} /\ InFlight' = InFlight
  BY EnqueueEffect, Zenon DEF InFlight, workerVars
<1>2. /\ SlotsOf(Live) \subseteq SlotsOf(Live') \cup SlotsOf(Evicted)
      /\ ~t.fresh => SlotOf(t) \in SlotsOf(Live')
  BY <1>1, Zenon DEF Live, SlotsOf
<1>3. dropped' = dropped \cup SlotsOf(Evicted)
  BY Zenon DEF EnqueueLocked
<1>4. UNION Elements(sched.results) \subseteq UNION Elements(sched.results)'
  BY Zenon
<1> QED  BY <1>2, <1>3, <1>4, Zenon DEF Accounted, Pending

(* p is a plan whose period s has been passed.                              *)
Passes(s, p) ==
  /\ s.job \in DOMAIN p.jobs /\ s.scheduled < next_due[s.job] /\ s.scheduled > p.created_at
  /\ (s.scheduled - p.created_at) % p.jobs[s.job].period = 0

(* As long as the due times stay no more periods pass, whichever plan is    *)
(* stored or loaded.                                                        *)
LEMMA PassedKept ==
  ASSUME UNCHANGED dueVars,
         \A p \in {plan', sched'.plan} :
           p \in {plan, sched.plan} \/ p.jobs = <<>> \/ p.version # scheduled_plan_version
  PROVE  PassedSlots' \subseteq PassedSlots
<1>1. SUFFICES ASSUME NEW s, s \in PassedSlots'  PROVE s \in PassedSlots
  BY Zenon
<1>2. /\ s \in [version : {scheduled_plan_version'}, job : DOMAIN next_due', scheduled : 0..MaxTime]
      /\ \E p \in {plan', sched'.plan} : p.version = scheduled_plan_version' /\ Passes(s, p)'
  BY <1>1, Zenon DEF PassedSlots, Passes
<1>3. next_due' = next_due /\ scheduled_plan_version' = scheduled_plan_version
  BY Zenon DEF dueVars
<1>4. PICK p \in {plan', sched'.plan} : p.version = scheduled_plan_version /\ Passes(s, p)
  BY <1>2, <1>3, Zenon DEF Passes
<1>5. p \in {plan, sched.plan}
  <2>1. p.jobs # <<>>
    BY <1>4 DEF Passes
  <2> QED  BY <1>4, <2>1, Zenon
<1> QED  BY <1>2, <1>3, <1>4, <1>5, Zenon DEF PassedSlots, Passes

(* When the due times are set anew no period has been passed.               *)
LEMMA DueReset ==
  ASSUME NEW q \in Plan, next_due' = DueTimes(q), scheduled_plan_version' = q.version,
         \A p \in {plan', sched'.plan} : p.version = q.version => p = q
  PROVE  /\ PassedSlots' = {}
         /\ \A p \in {plan', sched'.plan} : p.version = scheduled_plan_version' => DueOk(p)'
<1>1. /\ q.created_at \in Nat /\ Len(q.jobs) \in Nat /\ DOMAIN q.jobs = 1..Len(q.jobs)
      /\ \A j \in DOMAIN q.jobs : q.jobs[j].period \in Nat \ {0}
  <2>1. q.jobs \in Seq(Job) /\ q.created_at \in Nat
    <3>1. q.jobs \in PlanJobs \cup {<<>>} /\ q.created_at \in Nat
      BY Zenon DEF Plan
    <3> QED  BY <3>1, PlanJobsAssumption, EmptySeqFact, Zenon
  <2>2. \A x \in Job : x.period \in Nat \ {0}
    BY Zenon DEF Job
  <2>3. PICK s \in Seq(Job) : s = q.jobs
    BY <2>1, Zenon
  <2>4. Len(s) \in Nat /\ DOMAIN s = 1..Len(s) /\ \A j \in 1..Len(s) : s[j] \in Job
    BY SeqFacts, Zenon
  <2> QED  BY <2>1, <2>2, <2>3, <2>4, Zenon
<1>2. /\ DOMAIN next_due' = DOMAIN q.jobs
      /\ \A j \in DOMAIN q.jobs : next_due'[j] = q.created_at + q.jobs[j].period
  BY <1>1, Zenon DEF DueTimes
<1>3. ASSUME NEW s, s \in PassedSlots'  PROVE FALSE
  <2>1. /\ s \in [version : {scheduled_plan_version'}, job : DOMAIN next_due',
                  scheduled : 0..MaxTime]
        /\ \E p \in {plan', sched'.plan} : p.version = scheduled_plan_version' /\ Passes(s, p)'
    BY <1>3, Zenon DEF PassedSlots, Passes
  <2>2. Passes(s, q)'
    BY <2>1, Zenon
  <2>3. PICK j, x, d : j = s.job /\ x = s.scheduled - q.created_at /\ d = q.jobs[j].period
    BY Zenon
  <2>4. s.scheduled \in Nat /\ j \in DOMAIN q.jobs
    BY <1>2, <2>1, <2>3
  <2>5. PICK t \in Nat, c \in Nat : t = s.scheduled /\ c = q.created_at
    BY <1>1, <2>4, Zenon
  <2>6. d \in Nat \ {0} /\ t < c + d /\ t > c /\ x = t - c /\ x % d = 0
    BY <1>1, <1>2, <2>2, <2>3, <2>4, <2>5, Zenon DEF Passes
  <2>7. x \in Nat /\ 0 < x /\ x < d
    BY <2>6, SMTT(30)
  <2> QED  BY <2>6, <2>7, NoMultipleBelow, Zenon
<1>4. ASSUME NEW j \in DOMAIN q.jobs
      PROVE  /\ next_due'[j] > q.created_at
             /\ (next_due'[j] - q.created_at) % q.jobs[j].period = 0
  <2>1. PICK c, d, x : c = q.created_at /\ d = q.jobs[j].period /\ x = next_due'[j]
    BY Zenon
  <2>2. c \in Nat /\ d \in Nat \ {0} /\ x = c + d
    BY <1>1, <1>2, <2>1, Zenon
  <2>3. x > c /\ (x - c) % d = 0
    BY <2>2
  <2> QED  BY <2>1, <2>3, Zenon
<1>5. DueOk(q)'
  BY <1>4, Zenon DEF DueOk
<1> QED  BY <1>3, <1>5, Zenon

(* The plan of the pass is the one the due times belong to.                 *)
LEMMA PlanOfPass ==
  ASSUME PlanInv, InJobs
  PROVE  /\ DueOk(sched.plan)
         /\ \A p \in {plan, sched.plan} : p.version = scheduled_plan_version => p = sched.plan
<1>1. sched.plan.version = scheduled_plan_version
  BY Zenon DEF PlanInv, InJobs
<1> QED  BY <1>1, Zenon DEF PlanInv

(* When a job's due time advances, the periods passed are the ones of its   *)
(* LogicalResult.                                                           *)
LEMMA JobAdvances ==
  ASSUME TypeOK, PlanInv, InJobs, JobIsDue, AdvanceDue,
         UNCHANGED <<plan, scheduled_plan_version>>, sched'.plan = sched.plan
  PROVE  /\ PassedSlots' \subseteq PassedSlots \cup LogicalResult(Steps)
         /\ \A p \in {plan', sched'.plan} : p.version = scheduled_plan_version' => DueOk(p)'
<1>1. PICK q, j, d, f, n, c : /\ q = sched.plan /\ j = sched.job /\ d = q.jobs[j].period
                              /\ f = next_due[j] /\ n = Steps /\ c = q.created_at
  BY Zenon
<1>2. /\ d \in Nat \ {0} /\ f \in Nat /\ n \in Nat \ {0} /\ c \in Nat /\ d * n \in Nat
      /\ j \in DOMAIN next_due /\ j \in DOMAIN q.jobs
  <2>1. CurrentJob \in Job /\ FirstDue \in Nat /\ Steps \in Nat \ {0}
    BY JobTypes, Zenon
  <2>2. d \in Nat \ {0} /\ f \in Nat /\ n \in Nat \ {0}
    BY <1>1, <2>1, SMTT(30) DEF CurrentJob, FirstDue, Job
  <2>3. c \in Nat
    BY <1>1, Zenon DEF TypeOK, SchedulerState, Plan
  <2>4. j \in DOMAIN next_due /\ j \in DOMAIN q.jobs
    BY <1>1, Zenon DEF JobIsDue, InJobs
  <2>5. d * n \in Nat
    BY <2>2
  <2> QED  BY <2>2, <2>3, <2>4, <2>5, Zenon
<1>3. /\ DueOk(q) /\ q.version = scheduled_plan_version
      /\ \A p \in {plan', sched'.plan} : p.version = scheduled_plan_version' => p = q
  <2>1. \A p \in {plan, sched.plan} : p.version = scheduled_plan_version => p = sched.plan
    BY PlanOfPass, Zenon
  <2>2. DueOk(q)
    BY <1>1, PlanOfPass, Zenon
  <2> QED  BY <1>1, <2>1, <2>2, Zenon DEF PlanInv, InJobs
<1>4. c < f /\ f - c \in Nat /\ (f - c) % d = 0
  <2>1. f > c /\ (f - c) % d = 0
    BY <1>1, <1>2, <1>3, Zenon DEF DueOk
  <2> QED  BY <1>2, <2>1, SMTT(30)
<1>5. /\ DOMAIN next_due' = DOMAIN next_due /\ next_due'[j] = f + d * n
      /\ \A i \in DOMAIN next_due : i # j => next_due'[i] = next_due[i]
  BY <1>1, <1>2, Zenon DEF AdvanceDue, CurrentJob
<1>6. DueOk(q)'
  <2>1. ((f - c) + d * n) % d = 0
    BY <1>2, <1>4, NextMultiple, Zenon
  <2>2. f + d * n > c /\ (f + d * n) - c = (f - c) + d * n
    BY <1>2, <1>4
  <2>3. f + d * n > c /\ ((f + d * n) - c) % d = 0
    BY <2>1, <2>2, Zenon
  <2>4. next_due'[j] > c /\ (next_due'[j] - c) % q.jobs[j].period = 0
    BY <1>1, <1>5, <2>3, Zenon
  <2>5. \A i \in DOMAIN next_due \cap DOMAIN q.jobs :
          next_due'[i] > c /\ (next_due'[i] - c) % q.jobs[i].period = 0
    BY <1>1, <1>3, <1>5, <2>4, ZenonT(60) DEF DueOk
  <2> QED  BY <1>1, <1>5, <2>5, Zenon DEF DueOk
<1>7. ASSUME NEW s, s \in PassedSlots', s \notin PassedSlots  PROVE s \in LogicalResult(Steps)
  <2>1. /\ s \in [version : {scheduled_plan_version'}, job : DOMAIN next_due',
                  scheduled : 0..MaxTime]
        /\ \E p \in {plan', sched'.plan} : p.version = scheduled_plan_version' /\ Passes(s, p)'
    BY <1>7, Zenon DEF PassedSlots, Passes
  <2>2. Passes(s, q)'
    BY <1>3, <2>1, Zenon
  <2>3. s \in [version : {scheduled_plan_version}, job : DOMAIN next_due, scheduled : 0..MaxTime]
    BY <1>5, <2>1, Zenon
  <2>4. ~Passes(s, q)
    BY <1>1, <1>3, <1>7, <2>3, Zenon DEF PassedSlots, Passes
  <2>5. s.job = j /\ ~(s.scheduled < f)
    BY <1>1, <1>5, <2>2, <2>3, <2>4, Zenon DEF Passes
  <2>6. s.scheduled < f + d * n /\ s.scheduled > c /\ (s.scheduled - c) % d = 0
    BY <1>1, <1>5, <2>2, <2>5, Zenon DEF Passes
  <2>7. PICK x \in Nat : x = s.scheduled
    BY <2>3
  <2>8. /\ f - c \in Nat /\ x - c \in Nat /\ f - c <= x - c /\ x - c < (f - c) + d * n
        /\ (x - c) % d = 0
    BY <1>2, <1>4, <2>5, <2>6, <2>7, SMTT(30)
  <2>9. StepsLater(f - c, x - c, d, n)
    <3>1. n \in Nat
      BY <1>2
    <3>2. Between(f - c, x - c, d, n)
      BY <1>2, <1>4, <2>8, <3>1, Zenon DEF Between
    <3> QED  BY <3>2, MultiplesBetween, Zenon
  <2>10. PICK k \in 0..(n - 1) : x = f + k * d
    <3>1. PICK k \in 0..(n - 1) : x - c = (f - c) + k * d
      BY <2>9, Zenon DEF StepsLater
    <3>2. k * d \in Int
      BY <1>2, <3>1
    <3>3. x = f + k * d
      BY <1>2, <2>7, <3>1, <3>2
    <3> QED  BY <3>3, Zenon
  <2>11. s = [version |-> q.version, job |-> j, scheduled |-> f + k * d]
    BY <1>3, <2>3, <2>5, <2>7, <2>10, Zenon
  <2> QED  BY <1>1, <2>11, Zenon DEF LogicalResult, CurrentJob, FirstDue
<1> QED  BY <1>3, <1>6, <1>7, Zenon

(* The task stands for the last of the periods, the rest of them are left   *)
(* to the scheduler.                                                        *)
LEMMA LastPeriod ==
  ASSUME TypeOK, InJobs, JobIsDue
  PROVE  LogicalResult(Steps) \subseteq LogicalResult(Steps - 1) \cup {SlotOf(ScheduledTask)}
<1>1. PICK d, f, n : d = CurrentJob.period /\ f = FirstDue /\ n = Steps
  BY Zenon
<1>2. d \in Nat /\ f \in Nat /\ n \in Nat \ {0}
  <2>1. CurrentJob \in Job /\ FirstDue \in Nat /\ Steps \in Nat \ {0}
    BY JobTypes, Zenon
  <2> QED  BY <1>1, <2>1 DEF Job
<1>3. SlotOf(ScheduledTask) =
        [version |-> sched.plan.version, job |-> sched.job, scheduled |-> f + d * (n - 1)]
  BY <1>1, Zenon DEF SlotOf, ScheduledTask
<1>4. ASSUME NEW k \in 0..(n - 1)
      PROVE  k \in 0..((n - 1) - 1) \/ f + k * d = f + d * (n - 1)
  BY <1>2
<1>5. (Steps - 1) - 1 = (n - 1) - 1
  BY <1>1, Zenon
<1> QED  BY <1>1, <1>3, <1>4, <1>5, Zenon DEF LogicalResult

(* What is accounted for stays so if what is taken away was recorded or     *)
(* given up.                                                                *)
LEMMA AccountsKept ==
  ASSUME EveryPeriodAccounted, PassedSlots' \subseteq PassedSlots,
         noted \subseteq noted', dropped \subseteq dropped',
         SlotsOf(Live) \subseteq SlotsOf(Live') \cup noted' \cup dropped',
         \A x \in Elements(sched.results) : x \in Elements(sched'.results) \/ x \subseteq noted'
  PROVE  EveryPeriodAccounted'
<1>1. UNION Elements(sched.results) \subseteq (UNION Elements(sched'.results)) \cup noted'
  <2>1. SUFFICES ASSUME NEW s, NEW x \in Elements(sched.results), s \in x
                 PROVE  s \in (UNION Elements(sched'.results)) \cup noted'
    BY Zenon
  <2>2. x \in Elements(sched'.results) \/ x \subseteq noted'
    BY Zenon
  <2> QED  BY <2>1, <2>2, Zenon
<1>2. noted \cup Pending \cup dropped \subseteq (noted \cup Pending \cup dropped)'
  BY <1>1, Zenon DEF Pending
<1> QED  BY <1>2, Zenon DEF EveryPeriodAccounted

(* Loading a plan and letting go of it leave the plans in order.            *)
LEMMA PlansKept ==
  ASSUME TypeOK, PlanInv, UNCHANGED <<plan, dueVars>>, sched'.plan \in {plan, sched.plan, NoPlan},
         sched'.pc = "jobs" => sched.pc = "jobs" /\ sched'.plan = sched.plan
  PROVE  PlanInv' /\ PassedSlots' \subseteq PassedSlots
<1>1. /\ plan' = plan /\ next_due' = next_due
      /\ scheduled_plan_version' = scheduled_plan_version
  BY Zenon DEF dueVars
<1>2. NoPlan.version = 0 /\ NoPlan.jobs = <<>>
  BY SMTT(30) DEF NoPlan
<1>3. plan.version \in Nat
  BY Zenon DEF TypeOK, Plan
<1>4. \A p : DueOk(p)' <=> DueOk(p)
  BY <1>1, Zenon DEF DueOk
<1>5. DueOk(NoPlan)
  BY <1>2 DEF DueOk
<1>6. PassedSlots' \subseteq PassedSlots
  BY <1>1, <1>2, PassedKept, Zenon
<1>7. \A p \in {plan', sched'.plan} : p.version = scheduled_plan_version' => DueOk(p)'
  BY <1>1, <1>4, <1>5, Zenon DEF PlanInv
<1>8. /\ sched'.plan.version <= plan.version
      /\ sched'.plan.version = plan.version => sched'.plan = plan
  <2>1. CASE sched'.plan = NoPlan
    BY <1>2, <1>3, <2>1, SMTT(30) DEF PlanInv
  <2>2. CASE sched'.plan = plan
    BY <1>3, <2>2
  <2>3. CASE sched'.plan = sched.plan
    BY <2>3, Zenon DEF PlanInv
  <2> QED  BY <2>1, <2>2, <2>3, Zenon
<1> QED  BY <1>1, <1>6, <1>7, <1>8, Zenon DEF PlanInv

(* The steps that leave the plans, the due times and the scheduler alone.   *)
LEMMA PlanlessKeeps ==
  ASSUME TypeOK, PeriodInv, UNCHANGED <<plan, dueVars, sched>>,
         sched.pc \notin {"off", "exited"} /\ scheduler_running => scheduler_running',
         noted \subseteq noted', dropped \subseteq dropped',
         SlotsOf(Live) \subseteq SlotsOf(Live') \cup noted' \cup dropped',
         worker_pc' = "release" /\ ~worker_task'.fresh => SlotOf(worker_task') \in noted'
  PROVE  PeriodInv'
<1>1. PlanInv' /\ PassedSlots' \subseteq PassedSlots
  BY PlansKept, Zenon DEF PeriodInv
<1>2. EveryPeriodAccounted'
  BY <1>1, AccountsKept, Zenon DEF PeriodInv
<1> QED  BY <1>1, <1>2, Zenon DEF PeriodInv, HandInv

(* The steps of the scheduler that leave queue, worker and due times alone. *)
LEMMA SchedulerKeeps ==
  ASSUME TypeOK, PeriodInv, UNCHANGED <<plan, dueVars, queueVars, workerVars, dropped>>,
         sched'.plan \in {plan, sched.plan, NoPlan},
         sched'.pc = "jobs" => sched.pc = "jobs" /\ sched'.plan = sched.plan,
         sched'.pc \notin {"jobs", "results"} => sched'.results = <<>>,
         sched'.pc \notin {"off", "exited"} => scheduler_running',
         noted \subseteq noted',
         \A x \in Elements(sched.results) : x \in Elements(sched'.results) \/ x \subseteq noted'
  PROVE  PeriodInv'
<1>1. PlanInv' /\ PassedSlots' \subseteq PassedSlots
  BY PlansKept, Zenon DEF PeriodInv
<1>2. /\ Live' = Live /\ worker_pc' = worker_pc /\ worker_task' = worker_task
      /\ dropped' = dropped
  BY Zenon DEF Live, InFlight, Elements, queueVars, workerVars
<1>3. EveryPeriodAccounted'
  BY <1>1, <1>2, AccountsKept, Zenon DEF PeriodInv
<1> QED  BY <1>1, <1>2, <1>3, Zenon DEF PeriodInv, HandInv

(* A new plan gets a version of its own.                                    *)
LEMMA StorePlanPeriods ==
  ASSUME TypeOK, PeriodInv, NEW jobs, StorePlan(jobs)  PROVE PeriodInv'
<1>1. /\ plan' = [version |-> plan.version + 1, created_at |-> now, jobs |-> jobs]
      /\ UNCHANGED <<dueVars, queueVars, workerVars, sched, controlVars, history>>
  BY Zenon DEF StorePlan
<1>2. /\ plan.version \in Nat /\ scheduled_plan_version \in Nat /\ sched.plan.version \in Nat
  BY Zenon DEF TypeOK, Plan, SchedulerState
<1>3. plan'.version = plan.version + 1
  BY <1>1, SMTT(30)
<1>4. /\ plan'.version # scheduled_plan_version /\ plan'.version # 0
      /\ scheduled_plan_version <= plan'.version /\ sched.plan.version <= plan'.version
      /\ sched.plan.version # plan'.version
  BY <1>2, <1>3 DEF PeriodInv, PlanInv
<1>5. PassedSlots' \subseteq PassedSlots
  BY <1>1, <1>4, PassedKept, Zenon
<1>6. PlanInv'
  <2>1. \A p : DueOk(p)' <=> DueOk(p)
    BY <1>1, Zenon DEF DueOk, dueVars
  <2>2. \A p \in {plan', sched'.plan} : p.version = scheduled_plan_version' => DueOk(p)'
    BY <1>1, <1>4, <2>1, Zenon DEF PeriodInv, PlanInv, dueVars
  <2> QED  BY <1>1, <1>4, <2>2, Zenon DEF PeriodInv, PlanInv, dueVars
<1>7. Live' = Live
  BY <1>1, Zenon DEF Live, InFlight, Elements, queueVars, workerVars
<1>8. EveryPeriodAccounted'
  BY <1>1, <1>5, <1>7, AccountsKept, Zenon DEF PeriodInv, history
<1> QED  BY <1>1, <1>6, <1>8, Zenon DEF PeriodInv, HandInv, workerVars, controlVars, history

(* Installing a plan, and a pass with another plan than the scheduled one.  *)
LEMMA ResetKeeps ==
  ASSUME TypeOK, PeriodInv, NEW q \in {plan, sched.plan},
         next_due' = DueTimes(q), scheduled_plan_version' = q.version, plan' = plan,
         sched'.plan = sched.plan, sched'.results = sched.results,
         sched'.pc = "jobs" => sched.pc \in {"lock", "jobs"} /\ q = sched.plan,
         sched'.pc # "jobs" => sched'.pc = sched.pc,
         UNCHANGED <<queueVars, workerVars, controlVars, history>>
  PROVE  PeriodInv'
<1>1. plan \in Plan /\ sched.plan \in Plan
  BY Zenon DEF TypeOK, SchedulerState
<1>2. \A p \in {plan', sched'.plan} : p.version = q.version => p = q
  BY Zenon DEF PeriodInv, PlanInv
<1>3. /\ PassedSlots' = {}
      /\ \A p \in {plan', sched'.plan} : p.version = scheduled_plan_version' => DueOk(p)'
  BY <1>1, <1>2, DueReset, Zenon
<1>4. q.version <= plan.version
  BY <1>1 DEF PeriodInv, PlanInv, Plan
<1>5. PlanInv'
  BY <1>3, <1>4, Zenon DEF PeriodInv, PlanInv
<1>6. EveryPeriodAccounted'
  BY <1>3, Zenon DEF EveryPeriodAccounted
<1>7. HandInv'
  BY Zenon DEF PeriodInv, HandInv, workerVars, controlVars, history
<1> QED  BY <1>5, <1>6, <1>7, Zenon DEF PeriodInv

(* A job that is due: what its pass adds to the periods passed is handed    *)
(* on, in the task or in the results.                                       *)
LEMMA JobKeeps ==
  ASSUME TypeOK, PeriodInv, InJobs, JobIsDue, AdvanceDue,
         UNCHANGED <<plan, scheduled_plan_version, workerVars, noted, controlVars>>,
         sched'.pc = sched.pc, sched'.plan = sched.plan,
         Accounted \subseteq Accounted', LogicalResult(Steps) \subseteq Accounted'
  PROVE  PeriodInv'
<1>1. /\ PassedSlots' \subseteq PassedSlots \cup LogicalResult(Steps)
      /\ \A p \in {plan', sched'.plan} : p.version = scheduled_plan_version' => DueOk(p)'
  BY JobAdvances, Zenon DEF PeriodInv
<1>2. PlanInv'
  BY <1>1, Zenon DEF PeriodInv, PlanInv
<1>3. EveryPeriodAccounted'
  BY <1>1, Zenon DEF PeriodInv, EveryPeriodAccounted, Accounted
<1>4. HandInv'
  BY Zenon DEF PeriodInv, HandInv, InJobs, workerVars, controlVars
<1> QED  BY <1>2, <1>3, <1>4, Zenon DEF PeriodInv

(* runDue, job due and task accepted: the last period goes with the task,   *)
(* the others are left among the results.                                   *)
LEMMA JobEnqueuedPeriods ==
  ASSUME TypeOK, RuntimeInv, PeriodInv, JobEnqueued  PROVE PeriodInv'
<1>1. /\ InJobs /\ JobIsDue /\ AllocatedId # 0 /\ AdvanceDue
      /\ EnqueueAccepts(ScheduledTask) /\ EnqueueLocked(ScheduledTask)
      /\ sched' = [sched EXCEPT !.job = @ + 1,
                      !.results = IF Steps > 1 THEN Append(@, LogicalResult(Steps - 1)) ELSE @]
      /\ UNCHANGED <<plan, scheduled_plan_version, workerVars, noted, controlVars>>
  BY Zenon DEF JobEnqueued, planVars
<1>2. PICK r : r = IF Steps > 1 THEN Append(sched.results, LogicalResult(Steps - 1))
                   ELSE sched.results
  BY Zenon
<1>3. sched'.pc = sched.pc /\ sched'.plan = sched.plan /\ sched'.results = r
  BY <1>1, <1>2 DEF TypeOK, SchedulerState
<1>4. /\ Steps \in Nat \ {0} /\ Steps - 1 \in Nat /\ LogicalResult(Steps - 1) \subseteq Slot
      /\ sched.results \in Seq(SUBSET Slot)
  <2>1. Steps \in Nat \ {0}
    BY <1>1, JobTypes, Zenon
  <2>2. Steps - 1 \in Nat
    BY <2>1
  <2> QED  BY <1>1, <2>1, <2>2, LogicalResultType, Zenon DEF TypeOK, SchedulerState, Results
<1>5. Elements(sched.results) \subseteq Elements(r)
      /\ LogicalResult(Steps - 1) \subseteq UNION Elements(r)
  <2>1. CASE Steps > 1
    <3>1. PICK S : S = SUBSET Slot
      BY Zenon
    <3>2. PICK q \in Seq(S), x \in S : q = sched.results /\ x = LogicalResult(Steps - 1)
      BY <1>4, <3>1
    <3>3. Elements(Append(q, x)) = Elements(q) \cup {x}
      BY ElementsAppend
    <3>4. Elements(r) = Elements(sched.results) \cup {LogicalResult(Steps - 1)}
      BY <1>2, <2>1, <3>2, <3>3, Zenon
    <3> QED  BY <3>4, Zenon
  <2>2. CASE ~(Steps > 1)
    <3>1. r = sched.results
      BY <1>2, <2>2, Zenon
    <3>2. Steps - 1 = 0
      BY <1>4, <2>2
    <3>3. LogicalResult(0) = {}
      BY DEF LogicalResult
    <3> QED  BY <3>1, <3>2, <3>3, Zenon
  <2> QED  BY <2>1, <2>2, Zenon
<1>6. ScheduledTask \in Task /\ ScheduledTask.id = next_request_id /\ ~ScheduledTask.fresh
  BY <1>1, ScheduledTaskType, Zenon
<1>7. Accounted \subseteq Accounted' /\ SlotOf(ScheduledTask) \in Accounted'
  <2>1. Elements(sched.results) \subseteq Elements(sched'.results)
    BY <1>3, <1>5, Zenon
  <2> QED  BY <1>1, <1>6, <2>1, EnqueueAccounts, Zenon
<1>8. LogicalResult(Steps - 1) \subseteq Accounted'
  BY <1>3, <1>5, Zenon DEF Accounted, Pending
<1>9. LogicalResult(Steps) \subseteq Accounted'
  BY <1>1, <1>7, <1>8, LastPeriod, Zenon
<1> QED  BY <1>1, <1>3, <1>7, <1>9, JobKeeps, Zenon

(* runDue, job due and no task: all periods are left among the results.     *)
LEMMA JobRejectedPeriods ==
  ASSUME TypeOK, PeriodInv, JobRejected  PROVE PeriodInv'
<1>1. /\ InJobs /\ JobIsDue /\ AdvanceDue
      /\ sched' = [sched EXCEPT !.job = @ + 1, !.results = Append(@, LogicalResult(Steps))]
      /\ UNCHANGED <<plan, scheduled_plan_version, queueVars, workerVars, controlVars, history>>
  BY Zenon DEF JobRejected, planVars
<1>2. PICK r : r = Append(sched.results, LogicalResult(Steps))
  BY Zenon
<1>3. sched'.pc = sched.pc /\ sched'.plan = sched.plan /\ sched'.results = r
  BY <1>1, <1>2 DEF TypeOK, SchedulerState
<1>4. LogicalResult(Steps) \subseteq Slot /\ sched.results \in Seq(SUBSET Slot)
  <2>1. Steps \in Nat
    BY <1>1, JobTypes, Zenon
  <2> QED  BY <1>1, <2>1, LogicalResultType, Zenon DEF TypeOK, SchedulerState, Results
<1>5. Elements(sched'.results) = Elements(sched.results) \cup {LogicalResult(Steps)}
  <2>1. PICK S : S = SUBSET Slot
    BY Zenon
  <2>2. PICK q \in Seq(S), x \in S : q = sched.results /\ x = LogicalResult(Steps)
    BY <1>4, <2>1
  <2>3. Elements(Append(q, x)) = Elements(q) \cup {x}
    BY ElementsAppend
  <2> QED  BY <1>2, <1>3, <2>2, <2>3, Zenon
<1>6. Live' = Live /\ noted' = noted /\ dropped' = dropped
  BY <1>1, Zenon DEF Live, InFlight, Elements, queueVars, workerVars, history
<1>7. Accounted \subseteq Accounted' /\ LogicalResult(Steps) \subseteq Accounted'
  BY <1>5, <1>6, Zenon DEF Accounted, Pending
<1> QED  BY <1>1, <1>3, <1>6, <1>7, JobKeeps, Zenon

(* runDue takes the mutex, with the plan it loaded before.                  *)
LEMMA RunDueBeginPeriods ==
  ASSUME TypeOK, PeriodInv, RunDueBegin  PROVE PeriodInv'
<1>1. /\ sched.pc = "lock" /\ plan' = plan /\ scheduled_plan_version' = sched.plan.version
      /\ next_due' = IF scheduled_plan_version # sched.plan.version
                        THEN DueTimes(sched.plan) ELSE next_due
      /\ sched' = [sched EXCEPT !.pc = "jobs", !.job = 1]
      /\ UNCHANGED <<queueVars, workerVars, controlVars, history>>
  BY Zenon DEF RunDueBegin, planVars
<1>2. sched'.pc = "jobs" /\ sched'.plan = sched.plan /\ sched'.results = sched.results
  BY <1>1 DEF TypeOK, SchedulerState
<1>3. CASE scheduled_plan_version # sched.plan.version
  BY <1>1, <1>2, <1>3, ResetKeeps, Zenon
<1>4. CASE scheduled_plan_version = sched.plan.version
  <2>1. next_due' = next_due /\ scheduled_plan_version' = scheduled_plan_version
    BY <1>1, <1>4, Zenon
  <2>2. \A p : DueOk(p)' <=> DueOk(p)
    BY <2>1, Zenon DEF DueOk
  <2>3. PlanInv'
    BY <1>1, <1>2, <1>4, <2>1, <2>2, Zenon DEF PeriodInv, PlanInv
  <2>4. PassedSlots' \subseteq PassedSlots
    BY <1>1, <1>2, <2>1, PassedKept, Zenon DEF dueVars
  <2>5. Live' = Live /\ noted' = noted /\ dropped' = dropped
    BY <1>1, Zenon DEF Live, InFlight, Elements, queueVars, workerVars, history
  <2>6. EveryPeriodAccounted'
    BY <1>2, <2>4, <2>5, AccountsKept, Zenon DEF PeriodInv
  <2>7. HandInv'
    BY <1>1, <1>2, Zenon DEF PeriodInv, HandInv, workerVars, controlVars, history
  <2> QED  BY <2>3, <2>6, <2>7, Zenon DEF PeriodInv
<1> QED  BY <1>3, <1>4, Zenon

(* installPlan schedules the stored plan.                                   *)
LEMMA InstallPlanPeriods ==
  ASSUME TypeOK, PeriodInv, InstallPlan  PROVE PeriodInv'
<1>1. /\ sched.pc # "jobs" /\ plan' = plan /\ sched' = sched
      /\ scheduled_plan_version' = plan.version /\ next_due' = DueTimes(plan)
      /\ UNCHANGED <<queueVars, workerVars, controlVars, history>>
  BY Zenon DEF InstallPlan, MutexFree
<1> QED  BY <1>1, ResetKeeps, Zenon

(* schedulerLoop apart from the jobs.                                       *)
LEMMA SchedulerPeriods ==
  ASSUME TypeOK, PeriodInv,
         \/ SchedulerCheck \/ SchedulerWake \/ RunDueStopped \/ JobNotDue
         \/ RunDueUnlock \/ NoteResult \/ StartScheduler
  PROVE  PeriodInv'
<1>1. \A pc : /\ SchedulerAt(pc).pc = pc /\ SchedulerAt(pc).plan = NoPlan
              /\ SchedulerAt(pc).results = <<>>
  BY DEF SchedulerAt
<1>2. Elements(<<>>) = {}
  BY DEF Elements
<1>3. sched.pc \notin {"off", "exited"} => scheduler_running
  BY Zenon DEF PeriodInv, HandInv
<1>4. sched.pc \notin {"jobs", "results"} => sched.results = <<>>
  BY Zenon DEF PeriodInv, HandInv
<1>5. CASE SchedulerCheck \/ SchedulerWake \/ RunDueStopped
  <2>1. /\ UNCHANGED <<plan, dueVars, queueVars, workerVars, dropped>>
        /\ noted' = noted /\ scheduler_running' = scheduler_running
        /\ sched.pc \in {"check", "sleep", "lock"}
    BY <1>5 DEF SchedulerCheck, SchedulerWake, RunDueStopped, planVars, controlVars, history
  <2>2. /\ sched'.plan \in {plan, NoPlan} /\ sched'.results = <<>>
        /\ sched'.pc \in {"exited", "lock", "sleep", "check"}
    <3>1. CASE SchedulerCheck
      <4>1. sched' = SchedulerAt("exited") \/
            sched' = [SchedulerAt("lock") EXCEPT !.plan = plan, !.now = now]
        BY <3>1, Zenon DEF SchedulerCheck
      <4>2. CASE sched' = SchedulerAt("exited")
        BY <1>1, <4>2, Zenon
      <4>3. CASE sched' = [SchedulerAt("lock") EXCEPT !.plan = plan, !.now = now]
        <5>1. sched' = [pc |-> "lock", plan |-> plan, now |-> now, job |-> 0, results |-> <<>>]
          BY <4>3, Zenon DEF SchedulerAt
        <5> QED  BY <5>1
      <4> QED  BY <4>1, <4>2, <4>3, Zenon
    <3>2. CASE SchedulerWake
      BY <1>1, <3>2, Zenon DEF SchedulerWake
    <3>3. CASE RunDueStopped
      BY <1>1, <3>3, Zenon DEF RunDueStopped
    <3> QED  BY <1>5, <3>1, <3>2, <3>3, Zenon
  <2>3. /\ sched'.pc # "jobs" /\ sched.results = <<>> /\ scheduler_running
    BY <1>3, <1>4, <2>1, <2>2, Zenon
  <2> QED  BY <1>2, <2>1, <2>2, <2>3, SchedulerKeeps, Zenon
<1>6. CASE StartScheduler
  <2>1. /\ UNCHANGED <<plan, dueVars, queueVars, workerVars, dropped>>
        /\ noted' = noted /\ scheduler_running' /\ ~scheduler_running
        /\ sched' = SchedulerAt("check")
    BY <1>6, Zenon DEF StartScheduler, planVars, history
  <2>2. sched.results = <<>>
    BY <1>3, <1>4, <2>1, Zenon
  <2> QED  BY <1>1, <1>2, <2>1, <2>2, SchedulerKeeps, Zenon
<1>7. CASE JobNotDue
  <2>1. /\ UNCHANGED <<plan, dueVars, queueVars, workerVars, dropped>>
        /\ noted' = noted /\ scheduler_running' = scheduler_running
        /\ sched' = [sched EXCEPT !.job = @ + 1] /\ sched.pc = "jobs"
    BY <1>7, Zenon DEF JobNotDue, InJobs, planVars, controlVars, history
  <2>2. sched'.pc = sched.pc /\ sched'.plan = sched.plan /\ sched'.results = sched.results
    BY <2>1, SMTT(30) DEF TypeOK, SchedulerState
  <2> QED  BY <1>3, <2>1, <2>2, SchedulerKeeps, Zenon
<1>8. CASE RunDueUnlock
  <2>1. /\ UNCHANGED <<plan, dueVars, queueVars, workerVars, dropped>>
        /\ noted' = noted /\ scheduler_running' = scheduler_running /\ sched.pc = "jobs"
        /\ sched' = IF sched.results = <<>> THEN SchedulerAt("sleep")
                    ELSE [SchedulerAt("results") EXCEPT !.results = sched.results]
    BY <1>8, Zenon DEF RunDueUnlock, planVars, controlVars, history
  <2>2. /\ sched'.pc \in {"sleep", "results"} /\ sched'.plan = NoPlan
        /\ sched'.results = sched.results /\ (sched'.pc = "sleep" => sched'.results = <<>>)
    BY <2>1 DEF SchedulerAt
  <2>3. sched'.pc # "jobs" /\ scheduler_running
    BY <1>3, <2>1, <2>2, Zenon
  <2> QED  BY <2>1, <2>2, <2>3, SchedulerKeeps, Zenon
<1>9. CASE NoteResult
  <2>1. /\ UNCHANGED <<plan, dueVars, queueVars, workerVars, dropped>>
        /\ noted' = noted \cup Head(sched.results) /\ scheduler_running' = scheduler_running
        /\ sched.pc = "results" /\ sched.results # <<>>
        /\ sched' = IF Len(sched.results) = 1 THEN SchedulerAt("sleep")
                    ELSE [sched EXCEPT !.results = Tail(@)]
    BY <1>9, Zenon DEF NoteResult, planVars, controlVars, history
  <2>2. /\ sched'.pc \in {"sleep", "results"} /\ sched'.plan \in {NoPlan, sched.plan}
        /\ sched'.pc = "sleep" => sched'.results = <<>>
        /\ Len(sched.results) # 1 => sched'.results = Tail(sched.results)
    BY <2>1 DEF SchedulerAt, TypeOK, SchedulerState
  <2>3. sched'.pc # "jobs" /\ scheduler_running
    BY <1>3, <2>1, <2>2, Zenon
  <2>4. \A x \in Elements(sched.results) : x \in Elements(sched'.results) \/ x \subseteq noted'
    <3>1. \A x \in Elements(sched.results) :
            \/ x = Head(sched.results)
            \/ Len(sched.results) # 1 /\ x \in Elements(Tail(sched.results))
      BY <2>1, ElementsHead, Zenon DEF TypeOK, SchedulerState, Results
    <3> QED  BY <2>1, <2>2, <3>1, Zenon
  <2> QED  BY <2>1, <2>2, <2>3, <2>4, SchedulerKeeps, Zenon
<1> QED  BY <1>5, <1>6, <1>7, <1>8, <1>9, Zenon

(* The worker, the callers and the control thread.                          *)
LEMMA OtherPeriods ==
  ASSUME TypeOK, RuntimeInv, PeriodInv,
         \/ Worker \/ Shutdown \/ StopScheduler \/ ShutdownAll \/ Tick
         \/ \E keys \in RouteChoices : ActivateCatalog(keys)
         \/ \E c \in Clients : Client(c)
         \/ UNCHANGED vars
  PROVE  PeriodInv'
<1>0. UNCHANGED <<plan, dueVars, sched>>
  <2>1. CASE Tick \/ StopScheduler \/ ShutdownAll \/ UNCHANGED vars
    BY <2>1, Zenon DEF Tick, StopScheduler, ShutdownAll, RequestStop, vars, planVars
  <2>2. CASE Worker
    BY <2>2, Zenon DEF Worker, WorkerPop, WorkerExit, WorkerRead, WorkerNote,
         WorkerRelease, WorkerComplete, planVars
  <2>3. CASE Shutdown
    BY <2>3, Zenon DEF Shutdown, SchedulerJoined, CancelQueued, WorkerJoined,
         CompleteCancelled, planVars
  <2>4. CASE \E keys \in RouteChoices : ActivateCatalog(keys)
    BY <2>4, Zenon DEF ActivateCatalog, planVars
  <2>5. CASE \E c \in Clients : Client(c)
    BY <2>5, ZenonT(60) DEF Client, FreshRead, FreshReadJoin, FreshReadEnqueue, FreshReadRefused,
         WaiterWakes, WaiterLeaves, planVars
  <2> QED  BY <2>1, <2>2, <2>3, <2>4, <2>5, Zenon
<1>1. ASSUME UNCHANGED <<queue, workerVars, history, scheduler_running>>  PROVE PeriodInv'
  <2>1. Live' = Live /\ worker_pc' = worker_pc /\ worker_task' = worker_task
    BY <1>1, Zenon DEF Live, InFlight, Elements, workerVars
  <2>2. noted' = noted /\ dropped' = dropped /\ scheduler_running' = scheduler_running
    BY <1>1, Zenon DEF history
  <2>3. worker_pc' = "release" /\ ~worker_task'.fresh => SlotOf(worker_task') \in noted'
    BY <2>1, <2>2, Zenon DEF PeriodInv, HandInv
  <2> QED  BY <2>1, <2>2, <2>3, <1>0, PlanlessKeeps, Zenon
<1>2. CASE Tick \/ StopScheduler \/ ShutdownAll \/ UNCHANGED vars
  BY <1>1, <1>2, Zenon DEF Tick, StopScheduler, ShutdownAll, RequestStop, vars, queueVars,
                           controlVars
<1>3. ASSUME NEW keys, ActivateCatalog(keys)  PROVE PeriodInv'
  BY <1>1, <1>3, Zenon DEF ActivateCatalog, queueVars, controlVars
<1>4. ASSUME NEW c \in Clients, Client(c)  PROVE PeriodInv'
  <2>1. CASE WaiterWakes(c) \/ WaiterLeaves(c)
    BY <1>1, <2>1, Zenon DEF WaiterWakes, WaiterLeaves, queueVars, controlVars
  <2>2. CASE FreshRead(c)
    <3>1. PICK keys \in SUBSET Keys, deadline \in 1..(MaxTime + 1) :
            \/ FreshReadJoin(c, keys, deadline)
            \/ FreshReadEnqueue(c, keys, deadline)
            \/ FreshReadRefused(c, keys, deadline)
      BY <2>2, Zenon DEF FreshRead
    <3>2. CASE FreshReadJoin(c, keys, deadline) \/ FreshReadRefused(c, keys, deadline)
      BY <1>1, <3>2, Zenon DEF FreshReadJoin, FreshReadRefused, queueVars, controlVars
    <3>3. CASE FreshReadEnqueue(c, keys, deadline)
      <4>1. PICK t : t = FreshTask(keys, deadline)
        BY Zenon
      <4>2. /\ EnqueueAccepts(t) /\ EnqueueLocked(t) /\ AllocatedId # 0
            /\ noted' = noted /\ UNCHANGED workerVars /\ scheduler_running' = scheduler_running
        BY <3>3, <4>1, Zenon DEF FreshReadEnqueue, controlVars
      <4>3. AllocatedId = next_request_id /\ deadline \in Nat /\ next_request_id \in Nat
        BY <4>2, LimitAssumption, SMTT(30) DEF AllocatedId, TypeOK
      <4>4. t \in Task /\ t.id = next_request_id
        BY <4>1, <4>3, SMTT(30) DEF FreshTask, Task, Priorities, KNormal, TypeOK
      <4>5. Elements(queue)' = (Elements(queue) \ Evicted) \cup {t}
        BY <4>2, <4>4, EnqueueEffect, Zenon
      <4>6. dropped' = dropped \cup SlotsOf(Evicted)
        BY <4>2, Zenon DEF EnqueueLocked
      <4>7. /\ InFlight' = InFlight /\ worker_pc' = worker_pc /\ worker_task' = worker_task
        BY <4>2, Zenon DEF InFlight, workerVars
      <4>8. SlotsOf(Live) \subseteq SlotsOf(Live') \cup dropped'
        BY <4>5, <4>6, <4>7, Zenon DEF Live, SlotsOf
      <4>9. worker_pc' = "release" /\ ~worker_task'.fresh => SlotOf(worker_task') \in noted'
        BY <4>2, <4>7, Zenon DEF PeriodInv, HandInv
      <4> QED  BY <4>2, <4>6, <4>8, <4>9, <1>0, PlanlessKeeps, Zenon
    <3> QED  BY <3>1, <3>2, <3>3, Zenon
  <2> QED  BY <1>4, <2>1, <2>2, Zenon DEF Client
<1>5. CASE Worker
  <2>1. ASSUME dropped' = dropped, noted \subseteq noted',
               scheduler_running' = scheduler_running,
               \A t \in Live : t \in Live' \/ (~t.fresh => SlotOf(t) \in noted'),
               worker_pc' = "release" /\ ~worker_task'.fresh => SlotOf(worker_task') \in noted'
        PROVE  PeriodInv'
    <3>1. SlotsOf(Live) \subseteq SlotsOf(Live') \cup noted'
      BY <2>1, Zenon DEF SlotsOf
    <3> QED  BY <2>1, <3>1, <1>0, PlanlessKeeps, Zenon
  <2>2. CASE WorkerPop
    <3>1. /\ queue # <<>> /\ worker_pc = "wait" /\ queue' = Tail(queue)
          /\ worker_task' = Head(queue) /\ worker_pc' = "read"
          /\ UNCHANGED <<noted, dropped, scheduler_running>>
      BY <2>2, Zenon DEF WorkerPop, history, controlVars
    <3>2. Elements(Tail(queue)) = Elements(queue) \ {Head(queue)}
      BY <3>1, PopFrontProperties, Zenon DEF TypeOK, RuntimeInv, QueueInOrder
    <3>3. InFlight = {} /\ InFlight' = {Head(queue)}
      BY <3>1, SMTT(30) DEF InFlight
    <3>4. Elements(queue)' = Elements(Tail(queue))
      BY <3>1, Zenon DEF Elements
    <3>5. Live \subseteq Live'
      BY <3>2, <3>3, <3>4, Zenon DEF Live
    <3>6. worker_pc' # "release"
      BY <3>1
    <3> QED  BY <2>1, <3>1, <3>5, <3>6, Zenon
  <2>3. CASE WorkerExit
    <3>1. /\ worker_pc = "wait" /\ worker_pc' = "exited"
          /\ UNCHANGED <<queue, noted, dropped, scheduler_running>>
      BY <2>3, Zenon DEF WorkerExit, queueVars, history, controlVars
    <3>2. InFlight = {} /\ worker_pc' # "release"
      BY <3>1 DEF InFlight
    <3>3. Live \subseteq Live'
      BY <3>1, <3>2, Zenon DEF Live, Elements
    <3> QED  BY <2>1, <3>1, <3>2, <3>3, Zenon
  <2>4. CASE WorkerRead
    <3>1. /\ worker_pc = "read" /\ worker_pc' = IF worker_task.fresh THEN "release" ELSE "note"
          /\ UNCHANGED <<queue, worker_task, noted, dropped, scheduler_running>>
      BY <2>4, Zenon DEF WorkerRead, queueVars, history, controlVars
    <3>2. InFlight' = InFlight /\ (worker_pc' = "release" => worker_task.fresh)
      BY <3>1 DEF InFlight
    <3>3. Live \subseteq Live'
      BY <3>1, <3>2, Zenon DEF Live, Elements
    <3> QED  BY <2>1, <3>1, <3>2, <3>3, Zenon
  <2>5. CASE WorkerNote
    <3>1. /\ worker_pc = "note" /\ worker_pc' = "release"
          /\ noted' = noted \cup {SlotOf(worker_task)}
          /\ UNCHANGED <<queue, worker_task, dropped, scheduler_running>>
      BY <2>5, Zenon DEF WorkerNote, queueVars, controlVars
    <3>2. InFlight' = InFlight
      BY <3>1 DEF InFlight
    <3>3. Live \subseteq Live'
      BY <3>1, <3>2, Zenon DEF Live, Elements
    <3> QED  BY <2>1, <3>1, <3>3, Zenon
  <2>6. CASE WorkerRelease
    <3>1. /\ worker_pc = "release" /\ worker_pc' \in {"complete", "wait"}
          /\ UNCHANGED <<queue, noted, dropped, scheduler_running>>
      BY <2>6, Zenon DEF WorkerRelease, history, controlVars
    <3>2. InFlight = {worker_task} /\ worker_pc' # "release"
      BY <3>1 DEF InFlight
    <3>3. ~worker_task.fresh => SlotOf(worker_task) \in noted'
      BY <3>1, Zenon DEF PeriodInv, HandInv
    <3>4. \A t \in Live : t \in Live' \/ t = worker_task
      BY <3>1, <3>2, Zenon DEF Live, Elements
    <3> QED  BY <2>1, <3>1, <3>2, <3>3, <3>4, Zenon
  <2>7. CASE WorkerComplete
    <3>1. /\ worker_pc = "complete" /\ worker_pc' = "wait"
          /\ UNCHANGED <<queue, noted, dropped, scheduler_running>>
      BY <2>7, Zenon DEF WorkerComplete, queueVars, history, controlVars
    <3>2. InFlight = {} /\ worker_pc' # "release"
      BY <3>1 DEF InFlight
    <3>3. Live \subseteq Live'
      BY <3>1, <3>2, Zenon DEF Live, Elements
    <3> QED  BY <2>1, <3>1, <3>2, <3>3, Zenon
  <2> QED  BY <1>5, <2>2, <2>3, <2>4, <2>5, <2>6, <2>7, Zenon DEF Worker
<1>6. CASE Shutdown
  <2>1. CASE SchedulerJoined
    <3>1. /\ sched.pc = "exited" /\ UNCHANGED <<queue, workerVars, noted, dropped>>
      BY <2>1, Zenon DEF SchedulerJoined, queueVars, history
    <3>2. Live' = Live /\ worker_pc' = worker_pc /\ worker_task' = worker_task
      BY <3>1, Zenon DEF Live, InFlight, Elements, workerVars
    <3>3. worker_pc' = "release" /\ ~worker_task'.fresh => SlotOf(worker_task') \in noted'
      BY <3>1, <3>2, Zenon DEF PeriodInv, HandInv
    <3> QED  BY <3>1, <3>2, <3>3, <1>0, PlanlessKeeps, Zenon
  <2>2. CASE CancelQueued
    <3>1. /\ dropped' = dropped \cup SlotsOf(Elements(queue)) /\ noted' = noted
          /\ UNCHANGED <<workerVars, scheduler_running>>
      BY <2>2, Zenon DEF CancelQueued
    <3>2. /\ InFlight' = InFlight /\ worker_pc' = worker_pc /\ worker_task' = worker_task
          /\ scheduler_running' = scheduler_running
      BY <3>1, Zenon DEF InFlight, workerVars
    <3>3. SlotsOf(Live) \subseteq SlotsOf(Live') \cup dropped'
      BY <3>1, <3>2, Zenon DEF Live, SlotsOf
    <3>4. worker_pc' = "release" /\ ~worker_task'.fresh => SlotOf(worker_task') \in noted'
      BY <3>1, <3>2, Zenon DEF PeriodInv, HandInv
    <3>5. dropped \subseteq dropped' /\ noted \subseteq noted'
      BY <3>1, Zenon
    <3> QED  BY <1>0, <3>2, <3>3, <3>4, <3>5, PlanlessKeeps, Zenon
  <2>3. CASE WorkerJoined
    BY <1>1, <2>3, Zenon DEF WorkerJoined, queueVars
  <2>4. ASSUME NEW t \in cancelled, CompleteCancelled(t)  PROVE PeriodInv'
    BY <1>1, <2>4, Zenon DEF CompleteCancelled, queueVars
  <2> QED  BY <1>6, <2>1, <2>2, <2>3, <2>4, Zenon DEF Shutdown
<1> QED  BY <1>2, <1>3, <1>4, <1>5, <1>6, Zenon

(* Every step keeps the accounts, and they are right at first.              *)
LEMMA PeriodStep ==
  ASSUME TypeOK, RuntimeInv, PeriodInv, [Next]_vars  PROVE PeriodInv'
<1>1. CASE \E jobs \in PlanJobs : StorePlan(jobs)
  BY <1>1, StorePlanPeriods, Zenon
<1>2. CASE InstallPlan
  BY <1>2, InstallPlanPeriods, Zenon
<1>3. CASE Scheduler \/ StartScheduler
  BY <1>3, SchedulerPeriods, RunDueBeginPeriods, JobEnqueuedPeriods, JobRejectedPeriods, Zenon
     DEF Scheduler, RunDue
<1>4. CASE \/ Worker \/ Shutdown \/ StopScheduler \/ ShutdownAll \/ Tick
           \/ \E keys \in RouteChoices : ActivateCatalog(keys)
           \/ \E c \in Clients : Client(c)
           \/ UNCHANGED vars
  BY <1>4, OtherPeriods, Zenon
<1> QED  BY <1>1, <1>2, <1>3, <1>4, Zenon DEF Next

LEMMA PeriodInit == Init => PeriodInv
<1> SUFFICES ASSUME Init  PROVE PeriodInv
  BY Zenon
<1>1. /\ plan = NoPlan /\ scheduled_plan_version = 0 /\ next_due = <<>> /\ worker_pc = "wait"
      /\ sched.plan = NoPlan /\ sched.pc = "off" /\ sched.results = <<>>
  BY SMTT(30) DEF Init, SchedulerAt
<1>2. DOMAIN next_due = {}
  BY <1>1
<1>3. DueOk(NoPlan) /\ PassedSlots = {}
  BY <1>2, Zenon DEF DueOk, PassedSlots
<1>4. NoPlan.version = 0
  BY SMTT(30) DEF NoPlan
<1>5. PlanInv
  BY <1>1, <1>3, <1>4 DEF PlanInv
<1>6. HandInv
  BY <1>1 DEF HandInv
<1> QED  BY <1>3, <1>5, <1>6, Zenon DEF PeriodInv, EveryPeriodAccounted

(* A period that came due is never forgotten: it is recorded as a logical   *)
(* sample, or is about to be by the worker or the scheduler, or its task    *)
(* was removed from the queue by eviction or shutdown.  So it is however    *)
(* late runDue runs, and with a plan replaced between the load of plan_ and *)
(* the pass over its jobs.                                                  *)
THEOREM EveryPeriodAccountedCorrect == Spec => []EveryPeriodAccounted
<1>1. TypeOK /\ RuntimeInv /\ PeriodInv /\ [Next]_vars => PeriodInv'
  BY PeriodStep, Zenon
<1>2. PeriodInv => EveryPeriodAccounted
  BY Zenon DEF PeriodInv
<1> QED  BY PeriodInit, RuntimeCorrect, <1>1, <1>2, PTL DEF Spec

=============================================================================
