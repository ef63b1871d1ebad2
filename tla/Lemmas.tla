------------------------------- MODULE Lemmas -------------------------------
(***************************************************************************)
(* Facts about numbers and sequences that the proofs of several components  *)
(* use.                                                                     *)
(*                                                                         *)
(* A statement for all natural numbers is proved from LeastNatural: the set *)
(* of its counterexamples, if there are any, has a least element.           *)
(***************************************************************************)
EXTENDS Integers, Sequences, FiniteSets, Functions, FiniteSetsExt, Sizes, FiniteSetTheorems,
        WellFoundedInduction, TLAPS

-----------------------------------------------------------------------------
(* Least and greatest *)

(* A non-empty set of natural numbers has a least element.                  *)
LEMMA LeastNatural ==
  ASSUME NEW T \in SUBSET Nat, T # {}
  PROVE  \E i \in T : \A j \in T : ~(j < i)
<1>1. PICK i \in T : \A j \in T : ~(<<j, i>> \in OpToRel(<, Nat))
  BY NatLessThanWellFounded, WFMin, ZenonT(30)
<1> QED  BY <1>1, ZenonT(30) DEF OpToRel

(* Min chooses it.                                                          *)
LEMMA MinNatural ==
  ASSUME NEW T \in SUBSET Nat, T # {}
  PROVE  Min(T) \in T /\ \A j \in T : Min(T) <= j
<1>1. PICK i \in T : \A j \in T : ~(j < i)
  BY LeastNatural
<1>2. \A j \in T : i <= j
  BY <1>1
<1>3. \E x \in T : \A j \in T : x <= j
  BY <1>2
<1> QED  BY <1>3, Zenon DEF Min

(* Max chooses the greatest element of a set of numbers that has a bound.   *)
LEMMA MaxNatural ==
  ASSUME NEW T \in SUBSET Nat, T # {}, NEW n \in Nat, \A j \in T : j <= n
  PROVE  Max(T) \in T /\ \A j \in T : Max(T) >= j
<1> DEFINE B == {b \in Nat : \A j \in T : j <= b}
<1>1. PICK b \in B : \A c \in B : ~(c < b)
  <2>1. B \in SUBSET Nat /\ n \in B
    OBVIOUS
  <2> HIDE DEF B
  <2> QED  BY <2>1, LeastNatural
<1>2. b \in T
  <2>1. SUFFICES ASSUME b \notin T  PROVE FALSE
    OBVIOUS
  <2>2. \A j \in T : j < b
    BY <2>1
  <2>3. PICK j \in T : j < b
    BY <2>2, Zenon
  <2>4. b - 1 \in Nat
    BY <2>3
  <2>5. \A i \in T : i <= b - 1
    BY <2>2
  <2>6. b - 1 \in B
    BY <2>4, <2>5
  <2> QED  BY <1>1, <2>4, <2>6
<1>3. \E x \in T : \A j \in T : x >= j
  BY <1>1, <1>2
<1> QED  BY <1>3, Zenon DEF Max

(* A finite set of numbers has a bound: its elements can be counted off.    *)
LEMMA FiniteBound ==
  ASSUME NEW T \in SUBSET Nat, IsFiniteSet(T)
  PROVE  \E n \in Nat : \A j \in T : j <= n
<1>1. PICK N \in Nat : ExistsBijection(1..N, T)
  BY FS_CardinalityType, Zenon
<1>2. PICK f \in [1..N -> T] : \A x \in T : \E i \in 1..N : f[i] = x
  BY <1>1, Zenon DEF ExistsBijection, Bijection, Surjection
<1>3. \A i \in 1..N : f[i] \in Nat
  BY Zenon
<1> DEFINE Bounded(n) == \E b \in Nat : \A i \in 1..n : f[i] <= b
           U == {n \in 0..N : ~Bounded(n)}
<1>4. Bounded(0)
  <2>1. 1..0 = {} /\ 0 \in Nat
    OBVIOUS
  <2> QED  BY <2>1, Zenon
<1>5. ASSUME NEW n \in 0..N, n # 0, Bounded(n - 1)  PROVE Bounded(n)
  <2>1. PICK b \in Nat : \A i \in 1..(n - 1) : f[i] <= b
    BY <1>5, Zenon
  <2>2. PICK c \in Nat : b <= c /\ f[n] <= c
    <3>1. f[n] \in Nat
      <4>1. n \in 1..N
        BY <1>5
      <4> QED  BY <1>3, <4>1, Zenon
    <3>2. b <= b + f[n] /\ f[n] <= b + f[n] /\ b + f[n] \in Nat
      BY <3>1
    <3> QED  BY <3>2, Zenon
  <2>3. ASSUME NEW i \in 1..n  PROVE f[i] <= c
    <3>1. CASE i = n
      BY <2>2, <3>1, Zenon
    <3>2. CASE i # n
      <4>1. i \in 1..(n - 1) /\ i \in 1..N
        BY <1>5, <3>2
      <4>3. f[i] \in Nat
        BY <1>3, <4>1, Zenon
      <4>2. f[i] <= b
        BY <2>1, <4>1, Zenon
      <4> QED  BY <2>2, <4>2, <4>3
    <3> QED  BY <3>1, <3>2, Zenon
  <2> QED  BY <2>3, Zenon
<1>6. U = {}
  <2>1. SUFFICES ASSUME U # {}  PROVE FALSE
    BY Zenon
  <2>2. U \in SUBSET Nat
    OBVIOUS
  <2>3. PICK n \in U : \A m \in U : ~(m < n)
    <3> HIDE DEF U
    <3> QED  BY <2>1, <2>2, LeastNatural, Zenon
  <2>4. n \in 0..N /\ ~Bounded(n) /\ n # 0
    BY <1>4, <2>3, Zenon
  <2>5. n - 1 \in 0..N /\ n - 1 < n
    BY <2>4
  <2>6. ~Bounded(n - 1)
    BY <1>5, <2>4, Zenon
  <2>7. n - 1 \in U
    BY <2>5, <2>6, Zenon
  <2> QED  BY <2>3, <2>5, <2>7, Zenon
<1>7. Bounded(N)
  <2>1. N \in 0..N
    OBVIOUS
  <2> QED  BY <1>6, <2>1, Zenon
<1>8. PICK b \in Nat : \A i \in 1..N : f[i] <= b
  BY <1>7, Zenon
<1> QED  BY <1>2, <1>8, Zenon

(* A set that f numbers has as many elements as there are numbers.          *)
Numbers(f, n, S) ==
  /\ f \in [1..n -> S] /\ \A x \in S : \E i \in 1..n : f[i] = x
  /\ \A i, j \in 1..n : f[i] = f[j] => i = j

LEMMA NumberedSet ==
  ASSUME NEW n \in Nat, NEW f, NEW S, Numbers(f, n, S)
  PROVE  IsFiniteSet(S) /\ Cardinality(S) = n
<1>1. f \in Bijection(1..n, S)
  BY DEF Numbers, Bijection, Injection, Surjection, IsInjective
<1>2. IsFiniteSet(1..n) /\ Cardinality(1..n) = IF 1 > n THEN 0 ELSE n - 1 + 1
  BY FS_Interval
<1>3. Cardinality(1..n) = n
  BY <1>2
<1> QED  BY <1>1, <1>2, <1>3, FS_Bijection, Zenon DEF ExistsBijection

-----------------------------------------------------------------------------
(* Functions that are defined by recursion *)

(* f starts with b and goes on from each value to the next by a step.       *)
Iterates(f, V, b, N, step) ==
  f \in [0..N -> V] /\ f[0] = b /\ \A m \in 1..N : f[m] = step[m][f[m - 1]]

(* There is one, whatever its first value and its steps are.                *)
LEMMA Recursion ==
  ASSUME NEW V, NEW b \in V, NEW N \in Nat, NEW step \in [1..N -> [V -> V]]
  PROVE  \E f : Iterates(f, V, b, N, step)
<1> DEFINE P(n) == \E f \in [0..n -> V] :
                     f[0] = b /\ \A m \in 1..n : f[m] = step[m][f[m - 1]]
           T == {n \in 0..N : ~P(n)}
<1>1. P(0)
  <2> DEFINE f == [m \in 0..0 |-> b]
  <2>1. f \in [0..0 -> V] /\ f[0] = b
    OBVIOUS
  <2>2. \A m \in 1..0 : f[m] = step[m][f[m - 1]]
    OBVIOUS
  <2> HIDE DEF f
  <2> QED  BY <2>1, <2>2
<1>2. ASSUME NEW n \in 1..N, P(n - 1)  PROVE P(n)
  <2>1. PICK f \in [0..n - 1 -> V] :
          f[0] = b /\ \A m \in 1..n - 1 : f[m] = step[m][f[m - 1]]
    BY <1>2
  <2> DEFINE g == [m \in 0..n |-> IF m = n THEN step[n][f[n - 1]] ELSE f[m]]
  <2>2. step[n][f[n - 1]] \in V
    BY <2>1
  <2>3. g \in [0..n -> V] /\ g[0] = b
    BY <2>1, <2>2
  <2>4. \A m \in 1..n : g[m] = step[m][g[m - 1]]
    <3> TAKE m \in 1..n
    <3>1. m - 1 \in 0..n - 1 /\ m - 1 # n /\ m - 1 \in 0..n
      OBVIOUS
    <3>2. g[m - 1] = f[m - 1]
      BY <3>1
    <3>3. CASE m = n
      <4>1. g[m] = step[n][f[n - 1]]
        BY <3>3
      <4> HIDE DEF g
      <4> QED  BY <3>2, <3>3, <4>1, Zenon
    <3>4. CASE m # n
      <4>1. m \in 1..n - 1 /\ g[m] = f[m]
        BY <3>4
      <4>2. f[m] = step[m][f[m - 1]]
        BY <2>1, <4>1
      <4> HIDE DEF g
      <4> QED  BY <3>2, <4>1, <4>2, Zenon
    <3> QED  BY <3>3, <3>4
  <2> HIDE DEF g
  <2> QED  BY <2>3, <2>4, Zenon
<1>3. T = {}
  <2>1. SUFFICES ASSUME T # {}  PROVE FALSE
    OBVIOUS
  <2>2. PICK n \in T : \A j \in T : ~(j < n)
    <3>1. T \in SUBSET Nat
      OBVIOUS
    <3> HIDE DEF T
    <3> QED  BY <2>1, <3>1, LeastNatural
  <2>3. n \in 0..N /\ n # 0
    BY <1>1, Zenon
  <2>4. n - 1 \in 0..N /\ n - 1 < n /\ n \in 1..N
    BY <2>3
  <2>5. P(n - 1)
    BY <2>2, <2>4, Zenon
  <2> HIDE DEF P
  <2> QED  BY <1>2, <2>4, <2>5 DEF T
<1> HIDE DEF P
<1>4. P(N)
  BY <1>3 DEF T
<1> QED  BY <1>4 DEF P, Iterates

-----------------------------------------------------------------------------
(* Sums *)

(* s sums up the first N members of f.                                      *)
SumsOf(s, f, N) ==
  /\ s \in [0..N -> Nat] /\ s[0] = 0
  /\ \A n \in 1..N : f[n] \in Nat /\ s[n] = s[n - 1] + f[n]

(* The sums that Total is the last of.                                      *)
LEMMA TotalSums ==
  ASSUME NEW f, NEW N \in Nat, Len(f) = N, \A i \in 1..N : f[i] \in Nat
  PROVE  \E s : SumsOf(s, f, N) /\ Total(f) = s[N]
<1> DEFINE step == [m \in 1..N |-> [v \in Nat |-> v + f[m]]]
           F(s) == [n \in 0..N |-> IF n = 0 THEN 0 ELSE s[n - 1] + f[n]]
<1>1. step \in [1..N -> [Nat -> Nat]]
  OBVIOUS
<1>2. \A m \in 1..N, v \in Nat : step[m][v] = v + f[m]
  OBVIOUS
<1> HIDE DEF step
<1>3. PICK s \in [0..N -> Nat] : s[0] = 0 /\ \A m \in 1..N : s[m] = step[m][s[m - 1]]
  <2>1. \E s : Iterates(s, Nat, 0, N, step)
    BY <1>1, Recursion, Zenon
  <2> QED  BY <2>1, SMTT(20) DEF Iterates
<1>4. \A m \in 1..N : s[m - 1] \in Nat /\ s[m] = s[m - 1] + f[m]
  <2> TAKE m \in 1..N
  <2>1. m - 1 \in 0..N
    OBVIOUS
  <2> QED  BY <1>2, <1>3, <2>1, Zenon
<1>5. s = F(s)
  BY <1>3, <1>4, SMTT(30)
<1> DEFINE g == CHOOSE g : g = F(g)
<1>6. g = F(g) /\ Total(f) = g[N]
  <2>1. \E h : h = F(h)
    BY <1>5, Zenon
  <2>2. g = F(g)
    BY <2>1, Zenon
  <2> QED  BY <2>2, Zenon DEF Total
<1> HIDE DEF g, F
<1> DEFINE Off == {n \in 0..N : g[n] # s[n]}
<1>7. Off = {}
  <2>1. SUFFICES ASSUME Off # {}  PROVE FALSE
    OBVIOUS
  <2>2. PICK n \in Off : \A j \in Off : ~(j < n)
    <3>1. Off \in SUBSET Nat
      OBVIOUS
    <3> HIDE DEF Off
    <3> QED  BY <2>1, <3>1, LeastNatural, Zenon
  <2>3. g[0] = 0
    BY <1>6 DEF F
  <2>4. n \in 1..N /\ n - 1 \in 0..N /\ n - 1 < n
    BY <1>3, <2>3
  <2>5. g[n - 1] = s[n - 1]
    BY <2>2, <2>4, Zenon
  <2>6. g[n] = g[n - 1] + f[n]
    <3>1. F(g)[n] = g[n - 1] + f[n]
      BY <2>4 DEF F
    <3> QED  BY <1>6, <3>1, Zenon
  <2> QED  BY <1>4, <2>4, <2>5, <2>6
<1>8. Total(f) = s[N]
  BY <1>6, <1>7
<1> QED  BY <1>3, <1>4, <1>8, Zenon DEF SumsOf

(* The sums f and g grow alike from n - 1 to n.                             *)
SumsAlike(f, g, n) == f[n] - f[n - 1] = g[n] - g[n - 1]

(* They are a apart at n.                                                   *)
SumsApart(f, g, n, a) == f[n] = g[n] + a

LEMMA StillApart ==
  ASSUME NEW f, NEW g, NEW n, NEW a \in Nat, f[n] \in Nat, g[n] \in Nat,
         f[n - 1] \in Nat, g[n - 1] \in Nat, SumsApart(f, g, n - 1, a), SumsAlike(f, g, n)
  PROVE  SumsApart(f, g, n, a)
BY DEF SumsAlike, SumsApart

(* Sums that start a apart and grow alike stay a apart.                     *)
LEMMA SumsAgree ==
  ASSUME NEW N \in Nat, NEW a \in Nat, NEW f \in [0..N -> Nat], NEW g \in [0..N -> Nat],
         SumsApart(f, g, 0, a), \A n \in 1..N : SumsAlike(f, g, n)
  PROVE  f[N] = g[N] + a
<1> DEFINE Off == {n \in 0..N : ~SumsApart(f, g, n, a)}
<1> SUFFICES ASSUME Off # {}  PROVE FALSE
  <2>1. N \in 0..N
    OBVIOUS
  <2> QED  BY <2>1, Zenon DEF SumsApart
<1>1. Off \subseteq Nat
  OBVIOUS
<1>2. PICK m \in Off : \A n \in Off : ~(n < m)
  <2> HIDE DEF Off
  <2> QED  BY <1>1, LeastNatural, Zenon
<1>3. m \in 0..N /\ ~SumsApart(f, g, m, a) /\ m # 0
  BY <1>2, Zenon
<1>4. m \in 1..N /\ m - 1 \in 0..N /\ m - 1 < m
  BY <1>3
<1>5. SumsApart(f, g, m - 1, a) /\ SumsAlike(f, g, m)
  BY <1>2, <1>4, Zenon
<1>6. f[m] \in Nat /\ g[m] \in Nat /\ f[m - 1] \in Nat /\ g[m - 1] \in Nat
  BY <1>3, <1>4, Zenon
<1> QED  BY <1>3, <1>5, <1>6, StillApart, Zenon

LEMMA SameGrowth ==
  ASSUME NEW f, NEW g, NEW n, NEW b \in Nat, f[n - 1] \in Nat, g[n - 1] \in Nat,
         f[n] = f[n - 1] + b, g[n] = g[n - 1] + b
  PROVE  SumsAlike(f, g, n)
BY DEF SumsAlike

(* g is the piece of f that comes after its first a members.                *)
IsPiece(g, f, a) == a + Len(g) <= Len(f) /\ \A i \in 1..Len(g) : g[i] = f[a + i]

(* What it adds to the sum.                                                 *)
LEMMA TotalPiece ==
  ASSUME NEW f, NEW s, Len(f) \in Nat, SumsOf(s, f, Len(f)),
         NEW a \in Nat, NEW g, Len(g) \in Nat, IsPiece(g, f, a)
  PROVE  s[a + Len(g)] = Total(g) + s[a] /\ Total(g) \in Nat /\ s[a] \in Nat
<1>0. PICK N, M \in Nat : N = Len(f) /\ M = Len(g)
  BY Zenon
<1>a. SumsOf(s, f, N) /\ a + M <= N /\ \A i \in 1..M : g[i] = f[a + i]
  BY <1>0, Zenon DEF IsPiece
<1>1. /\ \A n \in 0..M : a + n \in 0..N
      /\ \A n \in 1..M : /\ a + n \in 1..N /\ (a + n) - 1 = a + (n - 1)
                         /\ n \in 0..M /\ n - 1 \in 0..M
      /\ 0 \in 0..M /\ M \in 0..M /\ a + 0 = a
  BY <1>a
<1>2. /\ s \in [0..N -> Nat]
      /\ \A n \in 1..N : f[n] \in Nat /\ s[n] = s[n - 1] + f[n]
  BY <1>a, Zenon DEF SumsOf
<1>3. \A i \in 1..M : g[i] \in Nat
  BY <1>a, <1>1, <1>2, Zenon
<1>4. PICK r : SumsOf(r, g, M) /\ Total(g) = r[M]
  BY <1>0, <1>3, TotalSums, Zenon
<1>5. /\ r \in [0..M -> Nat] /\ r[0] = 0
      /\ \A n \in 1..M : r[n] = r[n - 1] + g[n]
  BY <1>4, Zenon DEF SumsOf
<1>6. PICK h \in [0..M -> Nat] : \A n \in 0..M : h[n] = s[a + n]
  <2>1. [n \in 0..M |-> s[a + n]] \in [0..M -> Nat]
    BY <1>1, <1>2, Zenon
  <2> QED  BY <2>1, Zenon
<1>7. PICK b \in Nat : b = s[a]
  BY <1>1, <1>2, Zenon
<1>8. SumsApart(h, r, 0, b)
  <2>1. h[0] = b
    BY <1>1, <1>6, <1>7, Zenon
  <2> QED  BY <1>5, <1>7, <2>1, SMT DEF SumsApart
<1>9. ASSUME NEW n \in 1..M  PROVE SumsAlike(h, r, n)
  <2>1. h[n] = h[n - 1] + g[n] /\ r[n] = r[n - 1] + g[n]
    <3>1. s[a + n] = s[(a + n) - 1] + f[a + n]
      BY <1>1, <1>2, <1>9, Zenon
    <3>2. s[(a + n) - 1] = h[n - 1] /\ s[a + n] = h[n] /\ f[a + n] = g[n]
      BY <1>a, <1>1, <1>6, <1>9, Zenon
    <3> QED  BY <1>5, <1>9, <3>1, <3>2, Zenon
  <2>2. h[n - 1] \in Nat /\ r[n - 1] \in Nat /\ g[n] \in Nat
    BY <1>1, <1>3, <1>5, <1>6, <1>9, Zenon
  <2> QED  BY <2>1, <2>2, SameGrowth, Zenon
<1>10. h[M] = r[M] + b
  BY <1>5, <1>6, <1>7, <1>8, <1>9, SumsAgree, ZenonT(60)
<1>11. h[M] = s[a + M] /\ r[M] \in Nat
  BY <1>1, <1>5, <1>6, Zenon
<1>12. s[a + M] = r[M] + s[a]
  BY <1>7, <1>10, <1>11, Zenon
<1> QED  BY <1>0, <1>4, <1>7, <1>11, <1>12, Zenon
-----------------------------------------------------------------------------
(* Sequences: their members, and what Keep leaves of them.                  *)

(* The range of a sequence holds its members.                               *)
LEMMA RangeOf ==
  ASSUME NEW T, NEW q \in Seq(T)
  PROVE  /\ DOMAIN q = 1..Len(q) /\ Len(q) \in Nat
         /\ Range(q) = {q[i] : i \in 1..Len(q)} /\ Range(q) \subseteq T
<1>1. DOMAIN q = 1..Len(q) /\ Len(q) \in Nat /\ \A i \in 1..Len(q) : q[i] \in T
  OBVIOUS
<1> QED  BY <1>1, Zenon DEF Range

(* Appending adds one member to the range.                                  *)
LEMMA RangeAppend ==
  ASSUME NEW T, NEW q \in Seq(T), NEW e
  PROVE  Append(q, e) \in Seq(T \cup {e}) /\ Range(Append(q, e)) = Range(q) \cup {e}
<1>1. q \in Seq(T \cup {e}) /\ Append(q, e) \in Seq(T \cup {e})
  OBVIOUS
<1>2. Len(Append(q, e)) = Len(q) + 1 /\ Len(q) \in Nat
  OBVIOUS
<1>3. \A i \in 1..Len(q) : Append(q, e)[i] = q[i]
  OBVIOUS
<1>4. Append(q, e)[Len(q) + 1] = e
  OBVIOUS
<1>5. Range(Append(q, e)) = {Append(q, e)[i] : i \in 1..Len(q) + 1}
  BY <1>1, <1>2, RangeOf, Zenon
<1>6. Range(q) = {q[i] : i \in 1..Len(q)}
  BY RangeOf
<1> QED  BY <1>1, <1>2, <1>3, <1>4, <1>5, <1>6

(* k is made of the members of S among the first n of q: the one at j is    *)
(* the one that was at p[j].                                                *)
Picks(p, k, q, n, S) ==
  /\ p \in [1..Len(k) -> 1..n]
  /\ \A j \in 1..Len(k) : k[j] = q[p[j]] /\ q[p[j]] \in S
  /\ \A i, j \in 1..Len(k) : i < j => p[i] < p[j]
  /\ \A i \in 1..n : q[i] \in S => \E j \in 1..Len(k) : p[j] = i

(* The empty sequence picks nothing of an empty prefix.                     *)
LEMMA PicksNone ==
  ASSUME NEW q, NEW S
  PROVE  \E p : Picks(p, <<>>, q, 0, S)
<1>1. Len(<<>>) = 0 /\ 1..0 = {}
  OBVIOUS
<1>2. [i \in {} |-> i] \in [{} -> {}]
  OBVIOUS
<1> QED  BY <1>1, <1>2, Zenon DEF Picks

(* A member that is not kept is skipped.                                    *)
LEMMA PicksSkip ==
  ASSUME NEW p, NEW k, NEW q, NEW n \in Nat \ {0}, NEW S, Picks(p, k, q, n - 1, S), q[n] \notin S
  PROVE  Picks(p, k, q, n, S)
<1>1. 1..n = (1..n - 1) \cup {n}
  OBVIOUS
<1>2. p \in [1..Len(k) -> 1..n]
  BY <1>1, Zenon DEF Picks
<1> QED  BY <1>1, <1>2, Zenon DEF Picks

(* A member that is kept comes last.                                        *)
LEMMA PicksTake ==
  ASSUME NEW T, NEW k \in Seq(T), NEW p, NEW q, NEW n \in Nat \ {0}, NEW S,
         Picks(p, k, q, n - 1, S), q[n] \in S, q[n] \in T
  PROVE  \E r : Picks(r, Append(k, q[n]), q, n, S)
<1> DEFINE a == Append(k, q[n])
           l == Len(k) + 1
           r == [j \in 1..l |-> IF j = l THEN n ELSE p[j]]
<1>1. Len(k) \in Nat /\ Len(a) = l /\ a[l] = q[n] /\ \A j \in 1..Len(k) : a[j] = k[j]
  OBVIOUS
<1>2. 1..n = (1..n - 1) \cup {n} /\ 1..l = (1..Len(k)) \cup {l} /\ l \notin 1..Len(k)
  BY <1>1
<1>3. /\ p \in [1..Len(k) -> 1..n - 1]
      /\ \A j \in 1..Len(k) : k[j] = q[p[j]] /\ q[p[j]] \in S
      /\ \A i, j \in 1..Len(k) : i < j => p[i] < p[j]
      /\ \A i \in 1..n - 1 : q[i] \in S => \E j \in 1..Len(k) : p[j] = i
  BY DEF Picks
<1>4. r[l] = n /\ \A j \in 1..Len(k) : r[j] = p[j]
  BY <1>1, <1>2
<1>5. r \in [1..l -> 1..n]
  BY <1>2, <1>3
<1> HIDE DEF r
<1>6. \A j \in 1..l : a[j] = q[r[j]] /\ q[r[j]] \in S
  BY <1>1, <1>2, <1>3, <1>4
<1>7. \A i, j \in 1..l : i < j => r[i] < r[j]
  <2> TAKE i, j \in 1..l
  <2> HAVE i < j
  <2>1. i \in 1..Len(k) /\ r[i] = p[i] /\ p[i] \in 1..n - 1
    BY <1>1, <1>3, <1>4
  <2>2. CASE j = l
    BY <1>4, <2>1, <2>2
  <2>3. CASE j # l
    <3>1. j \in 1..Len(k) /\ r[j] = p[j]
      BY <1>1, <1>2, <1>4, <2>3
    <3> QED  BY <1>3, <2>1, <3>1
  <2> QED  BY <2>2, <2>3
<1>8. \A i \in 1..n : q[i] \in S => \E j \in 1..l : r[j] = i
  BY <1>2, <1>3, <1>4, Zenon
<1> HIDE DEF a
<1>9. Picks(r, a, q, n, S)
  BY <1>1, <1>5, <1>6, <1>7, <1>8, Zenon DEF Picks
<1> QED  BY <1>9 DEF a

(* The sequences that Keep is the last of.                                  *)
KeptSteps(f, q, S, T) ==
  /\ f \in [0..Len(q) -> Seq(T)] /\ f[0] = <<>> /\ Keep(q, S) = f[Len(q)]
  /\ \A m \in 1..Len(q) : /\ f[m - 1] \in Seq(T) /\ f[m] \in Seq(T)
                     /\ f[m] = IF q[m] \in S THEN Append(f[m - 1], q[m]) ELSE f[m - 1]

LEMMA KeepSteps ==
  ASSUME NEW T, NEW q \in Seq(T), NEW S
  PROVE  \E f : KeptSteps(f, q, S, T)
<1>0. PICK N \in Nat : N = Len(q)
  OBVIOUS
<1> DEFINE step == [m \in 1..N |->
                      [v \in Seq(T) |-> IF q[m] \in S THEN Append(v, q[m]) ELSE v]]
           F(f) == [n \in 0..N |->
                      IF n = 0 THEN <<>>
                      ELSE IF q[n] \in S THEN Append(f[n - 1], q[n]) ELSE f[n - 1]]
<1>1. \A m \in 1..N : q[m] \in T
  BY <1>0
<1>2. step \in [1..N -> [Seq(T) -> Seq(T)]]
  BY <1>1
<1>3. \A m \in 1..N, v \in Seq(T) : step[m][v] = IF q[m] \in S THEN Append(v, q[m]) ELSE v
  OBVIOUS
<1> HIDE DEF step
<1>4. PICK f \in [0..N -> Seq(T)] : f[0] = <<>> /\ \A m \in 1..N : f[m] = step[m][f[m - 1]]
  <2>1. <<>> \in Seq(T)
    OBVIOUS
  <2>2. \E f : Iterates(f, Seq(T), <<>>, N, step)
    BY <1>2, <2>1, Recursion, Zenon
  <2> QED  BY <2>2, Zenon DEF Iterates
<1>5. \A m \in 1..N : /\ f[m - 1] \in Seq(T) /\ f[m] \in Seq(T)
                      /\ f[m] = IF q[m] \in S THEN Append(f[m - 1], q[m]) ELSE f[m - 1]
  <2> TAKE m \in 1..N
  <2>1. m - 1 \in 0..N /\ m \in 0..N
    OBVIOUS
  <2> QED  BY <1>3, <1>4, <2>1, Zenon
<1>6. f = F(f)
  <2>1. \A n \in 0..N : n = 0 \/ n \in 1..N
    OBVIOUS
  <2>2. \A n \in 0..N : f[n] = F(f)[n]
    BY <1>4, <1>5, <2>1, Zenon
  <2>3. DOMAIN f = 0..N /\ f = [n \in 0..N |-> f[n]]
    BY <1>4
  <2> QED  BY <2>2, <2>3, Zenon
<1> DEFINE g == CHOOSE g : g = F(g)
<1>7. g = F(g) /\ Keep(q, S) = g[N]
  <2>1. \E h : h = F(h)
    BY <1>6, Zenon
  <2>2. g = F(g)
    BY <2>1, Zenon
  <2> QED  BY <1>0, <2>2, Zenon DEF Keep
<1> HIDE DEF g, F
<1> DEFINE U == {n \in 0..N : g[n] # f[n]}
<1>8. U = {}
  <2>1. SUFFICES ASSUME U # {}  PROVE FALSE
    OBVIOUS
  <2>2. PICK n \in U : \A j \in U : ~(j < n)
    <3>1. U \in SUBSET Nat
      OBVIOUS
    <3> HIDE DEF U
    <3> QED  BY <2>1, <3>1, LeastNatural, Zenon
  <2>3. F(g)[0] = <<>>
    BY DEF F
  <2>4. g[0] = f[0]
    BY <1>4, <1>7, <2>3, Zenon
  <2>5. n \in 1..N /\ n - 1 \in 0..N /\ n - 1 < n
    BY <2>4
  <2>6. g[n - 1] = f[n - 1]
    BY <2>2, <2>5
  <2>7. F(g)[n] = IF q[n] \in S THEN Append(g[n - 1], q[n]) ELSE g[n - 1]
    BY <2>5 DEF F
  <2>8. g[n] = f[n]
    BY <1>5, <1>7, <2>5, <2>6, <2>7, Zenon
  <2> QED  BY <2>8
<1>9. Keep(q, S) = f[N]
  <2>1. N \in 0..N
    OBVIOUS
  <2>2. g[N] = f[N]
    BY <1>8, <2>1, Zenon
  <2> QED  BY <1>7, <2>2, Zenon
<1> QED  BY <1>0, <1>4, <1>5, <1>9, Zenon DEF KeptSteps

(* Keep picks the members it keeps, in order.                               *)
LEMMA KeepPicks ==
  ASSUME NEW T, NEW q \in Seq(T), NEW S
  PROVE  Keep(q, S) \in Seq(T) /\ \E p : Picks(p, Keep(q, S), q, Len(q), S)
<1>0. PICK N \in Nat : N = Len(q)
  OBVIOUS
<1>1. \A m \in 1..N : q[m] \in T
  BY <1>0
<1>2. PICK f : /\ f \in [0..N -> Seq(T)] /\ f[0] = <<>> /\ Keep(q, S) = f[N]
               /\ \A m \in 1..N :
                    /\ f[m - 1] \in Seq(T) /\ f[m] \in Seq(T)
                    /\ f[m] = IF q[m] \in S THEN Append(f[m - 1], q[m]) ELSE f[m - 1]
  <2>1. PICK f : KeptSteps(f, q, S, T)
    BY KeepSteps, Zenon
  <2> QED  BY <1>0, <2>1, Zenon DEF KeptSteps
<1> DEFINE W == {n \in 0..N : ~\E p : Picks(p, f[n], q, n, S)}
<1>3. W = {}
  <2>1. SUFFICES ASSUME W # {}  PROVE FALSE
    OBVIOUS
  <2>2. PICK n \in W : \A j \in W : ~(j < n)
    <3>1. W \in SUBSET Nat
      OBVIOUS
    <3> HIDE DEF W
    <3> QED  BY <2>1, <3>1, LeastNatural
  <2>3. \E p : Picks(p, f[0], q, 0, S)
    BY <1>2, PicksNone, Zenon
  <2>4. n \in 1..N /\ n - 1 \in 0..N /\ n - 1 < n /\ n \in Nat \ {0}
    BY <2>3
  <2>5. PICK p : Picks(p, f[n - 1], q, n - 1, S)
    BY <2>2, <2>4
  <2>6. CASE q[n] \in S
    <3>1. \E r : Picks(r, Append(f[n - 1], q[n]), q, n, S)
      BY <1>1, <1>2, <2>4, <2>5, <2>6, PicksTake, SMTT(30)
    <3> QED  BY <1>2, <2>4, <2>6, <3>1
  <2>7. CASE q[n] \notin S
    <3>1. Picks(p, f[n - 1], q, n, S)
      BY <2>4, <2>5, <2>7, PicksSkip
    <3> QED  BY <1>2, <2>4, <2>7, <3>1, SMTT(20)
  <2> QED  BY <2>6, <2>7
<1>4. f[N] \in Seq(T) /\ \E p : Picks(p, f[N], q, N, S)
  <2>1. N \in 0..N
    OBVIOUS
  <2> QED  BY <1>2, <1>3, <2>1, Zenon
<1> QED  BY <1>0, <1>2, <1>4, Zenon

(* Keep keeps the members of S, and no others.                              *)
LEMMA KeepRange ==
  ASSUME NEW T, NEW q \in Seq(T), NEW S
  PROVE  Range(Keep(q, S)) = Range(q) \cap S
<1>1. PICK p : Picks(p, Keep(q, S), q, Len(q), S)
  BY KeepPicks
<1>2. Keep(q, S) \in Seq(T)
  BY KeepPicks
<1>3. Range(q) = {q[i] : i \in 1..Len(q)}
  BY RangeOf
<1>4. Range(Keep(q, S)) = {Keep(q, S)[i] : i \in 1..Len(Keep(q, S))}
  BY <1>2, RangeOf
<1>5. PICK k : k = Keep(q, S)
  OBVIOUS
<1>6. /\ p \in [1..Len(k) -> 1..Len(q)]
      /\ \A j \in 1..Len(k) : k[j] = q[p[j]] /\ q[p[j]] \in S
      /\ \A i \in 1..Len(q) : q[i] \in S => \E j \in 1..Len(k) : p[j] = i
  BY <1>1, <1>5, Zenon DEF Picks
<1>7. Range(k) \subseteq Range(q) \cap S
  <2> SUFFICES ASSUME NEW j \in 1..Len(k)  PROVE k[j] \in Range(q) /\ k[j] \in S
    BY <1>4, <1>5, Zenon
  <2>1. p[j] \in 1..Len(q) /\ k[j] = q[p[j]] /\ q[p[j]] \in S
    BY <1>6, Zenon
  <2> QED  BY <1>3, <2>1, Zenon
<1>8. Range(q) \cap S \subseteq Range(k)
  <2> SUFFICES ASSUME NEW i \in 1..Len(q), q[i] \in S  PROVE q[i] \in Range(k)
    BY <1>3, Zenon
  <2>1. PICK j \in 1..Len(k) : p[j] = i
    BY <1>6, Zenon
  <2>2. k[j] = q[i]
    BY <1>6, <2>1, Zenon
  <2> QED  BY <1>4, <1>5, <2>2, Zenon
<1> QED  BY <1>5, <1>7, <1>8, Zenon

(* w is made of members of q, in the same order.                            *)
Sub(w, q) ==
  \E p \in [1..Len(w) -> 1..Len(q)] :
    /\ \A j \in 1..Len(w) : w[j] = q[p[j]]
    /\ \A i, j \in 1..Len(w) : i < j => p[i] < p[j]

(* What Keep leaves is a subsequence.                                       *)
LEMMA KeepSub ==
  ASSUME NEW T, NEW q \in Seq(T), NEW S
  PROVE  Sub(Keep(q, S), q)
<1>1. PICK p : Picks(p, Keep(q, S), q, Len(q), S)
  BY KeepPicks
<1> QED  BY <1>1, Zenon DEF Picks, Sub

(* A subsequence of a subsequence is one.                                   *)
LEMMA SubTrans ==
  ASSUME NEW w, NEW y, NEW q, Sub(w, y), Sub(y, q)
  PROVE  Sub(w, q)
<1>1. PICK a \in [1..Len(w) -> 1..Len(y)] :
        /\ \A j \in 1..Len(w) : w[j] = y[a[j]]
        /\ \A i, j \in 1..Len(w) : i < j => a[i] < a[j]
  BY DEF Sub
<1>2. PICK b \in [1..Len(y) -> 1..Len(q)] :
        /\ \A j \in 1..Len(y) : y[j] = q[b[j]]
        /\ \A i, j \in 1..Len(y) : i < j => b[i] < b[j]
  BY DEF Sub
<1> DEFINE p == [j \in 1..Len(w) |-> b[a[j]]]
<1>3. \A j \in 1..Len(w) : a[j] \in 1..Len(y) /\ b[a[j]] \in 1..Len(q) /\ p[j] = b[a[j]]
  BY <1>1, <1>2
<1>4. p \in [1..Len(w) -> 1..Len(q)]
  BY <1>3
<1> HIDE DEF p
<1>5. \A j \in 1..Len(w) : w[j] = q[p[j]]
  BY <1>1, <1>2, <1>3, SMTT(30)
<1>6. \A i, j \in 1..Len(w) : i < j => p[i] < p[j]
  BY <1>1, <1>2, <1>3
<1> QED  BY <1>4, <1>5, <1>6, Zenon DEF Sub

-----------------------------------------------------------------------------
(* What a queue weighs, v being what each item does. *)

Weights(q, v) == [i \in 1..Len(q) |-> v[q[i]]]
Weight(q, v) == Total(Weights(q, v))

Weighs(v, T) == v \in [T -> Nat]

LEMMA LenOfFunction ==
  ASSUME NEW S, NEW n \in Nat, NEW f \in [1..n -> S]
  PROVE  f \in Seq(S) /\ Len(f) = n
OBVIOUS

LEMMA WeightsOf ==
  ASSUME NEW T, NEW v, Weighs(v, T), NEW q \in Seq(T)
  PROVE  /\ Len(q) \in Nat /\ Len(Weights(q, v)) = Len(q)
         /\ \A i \in 1..Len(q) : q[i] \in T /\ Weights(q, v)[i] = v[q[i]] /\ v[q[i]] \in Nat
<1>1. Len(q) \in Nat /\ \A i \in 1..Len(q) : q[i] \in T
  OBVIOUS
<1>2. \A i \in 1..Len(q) : Weights(q, v)[i] = v[q[i]] /\ v[q[i]] \in Nat
  BY <1>1, Zenon DEF Weights, Weighs
<1>3. Len(Weights(q, v)) = Len(q)
  <2>1. Weights(q, v) \in [1..Len(q) -> Nat]
    BY <1>1, Zenon DEF Weights, Weighs
  <2> QED  BY <1>1, <2>1, LenOfFunction, Zenon
<1> QED  BY <1>1, <1>2, <1>3, Zenon

(* The sums of the weights.                                                 *)
LEMMA WeightSums ==
  ASSUME NEW T, NEW v, Weighs(v, T), NEW q \in Seq(T)
  PROVE  \E s : SumsOf(s, Weights(q, v), Len(q)) /\ Weight(q, v) = s[Len(q)]
<1>1. /\ Len(q) \in Nat /\ Len(Weights(q, v)) = Len(q)
      /\ \A i \in 1..Len(q) : Weights(q, v)[i] \in Nat
  BY WeightsOf
<1> QED  BY <1>1, TotalSums, Zenon DEF Weight

(* The sum s grows by w over the n places after a.                          *)
Adds(s, a, n, w) == s[a + n] = w + s[a] /\ w \in Nat /\ s[a] \in Nat

(* What the piece r of q that comes after its first a items weighs.         *)
LEMMA WeightPiece ==
  ASSUME NEW T, NEW v, Weighs(v, T), NEW q \in Seq(T), NEW r \in Seq(T), NEW a \in Nat,
         IsPiece(r, q, a), NEW s, SumsOf(s, Weights(q, v), Len(q))
  PROVE  Adds(s, a, Len(r), Weight(r, v))
<1>1. PICK f, g : f = Weights(q, v) /\ g = Weights(r, v)
  BY Zenon
<1>2. /\ Len(f) = Len(q) /\ Len(q) \in Nat /\ \A i \in 1..Len(q) : f[i] = v[q[i]]
      /\ Len(g) = Len(r) /\ Len(r) \in Nat /\ \A i \in 1..Len(r) : g[i] = v[r[i]]
  BY <1>1, WeightsOf
<1>3. IsPiece(g, f, a)
  <2>1. a + Len(g) <= Len(f) /\ \A i \in 1..Len(r) : a + i \in 1..Len(q) /\ r[i] = q[a + i]
    BY <1>2 DEF IsPiece
  <2> QED  BY <1>2, <2>1, SMTT(30) DEF IsPiece
<1>4. Len(f) \in Nat /\ Len(g) \in Nat /\ SumsOf(s, f, Len(f))
  BY <1>1, <1>2, Zenon
<1>5. s[a + Len(g)] = Total(g) + s[a] /\ Total(g) \in Nat /\ s[a] \in Nat
  BY <1>3, <1>4, TotalPiece, Zenon
<1> QED  BY <1>1, <1>2, <1>5, Zenon DEF Weight, Adds

(* Nothing weighs nothing.                                                  *)
LEMMA TotalEmpty == ASSUME NEW f, Len(f) = 0  PROVE Total(f) = 0
<1>1. 0 \in Nat /\ \A i \in 1..0 : f[i] \in Nat
  OBVIOUS
<1>2. PICK s : SumsOf(s, f, 0) /\ Total(f) = s[0]
  BY <1>1, TotalSums, Zenon
<1> QED  BY <1>2, Zenon DEF SumsOf

(* One more item.                                                           *)
LEMMA WeightAppend ==
  ASSUME NEW T, NEW v, Weighs(v, T), NEW q \in Seq(T), NEW x \in T
  PROVE  Weight(Append(q, x), v) = Weight(q, v) + v[x] /\ Weight(q, v) \in Nat
<1>1. PICK t : t = Append(q, x)
  BY Zenon
<1>2. /\ Len(q) \in Nat /\ Len(t) = Len(q) + 1 /\ 0 + Len(q) = Len(q)
      /\ Len(t) \in 1..Len(t) /\ Len(t) - 1 = Len(q) /\ t[Len(t)] = x
  BY <1>1
<1>a. t \in Seq(T) /\ 0 \in Nat /\ IsPiece(q, t, 0)
  BY <1>1 DEF IsPiece
<1>3. PICK s : SumsOf(s, Weights(t, v), Len(t)) /\ Weight(t, v) = s[Len(t)]
  BY <1>a, WeightSums
<1>4. s[0 + Len(q)] = Weight(q, v) + s[0] /\ Weight(q, v) \in Nat
  <2>1. Adds(s, 0, Len(q), Weight(q, v))
    BY <1>a, <1>3, WeightPiece, Zenon
  <2> QED  BY <2>1, Zenon DEF Adds
<1>5. s[0] = 0 /\ s[Len(t)] = s[Len(t) - 1] + Weights(t, v)[Len(t)]
  BY <1>2, <1>3, Zenon DEF SumsOf
<1>6. Weights(t, v)[Len(t)] = v[x] /\ v[x] \in Nat
  BY <1>a, <1>2, WeightsOf
<1>7. s[Len(q)] = Weight(q, v)
  BY <1>2, <1>4, <1>5
<1> QED  BY <1>1, <1>2, <1>3, <1>4, <1>5, <1>6, <1>7, Zenon

(* Two pieces.                                                              *)
LEMMA WeightSplit ==
  ASSUME NEW T, NEW v, Weighs(v, T), NEW q \in Seq(T), NEW n \in 0..Len(q)
  PROVE  /\ Weight(q, v) = Weight(SubSeq(q, 1, n), v) + Weight(SubSeq(q, n + 1, Len(q)), v)
         /\ Weight(SubSeq(q, 1, n), v) \in Nat /\ Weight(SubSeq(q, n + 1, Len(q)), v) \in Nat
<1>1. PICK a, b : a = SubSeq(q, 1, n) /\ b = SubSeq(q, n + 1, Len(q))
  BY Zenon
<1>2. Len(a) = n /\ Len(b) = Len(q) - n /\ 0 + n = n /\ n + Len(b) = Len(q)
  BY <1>1
<1>a. a \in Seq(T) /\ b \in Seq(T) /\ n \in Nat /\ 0 \in Nat
  BY <1>1
<1>b. IsPiece(a, q, 0)
  BY <1>1, <1>2 DEF IsPiece
<1>c. IsPiece(b, q, n)
  BY <1>1, <1>2 DEF IsPiece
<1>3. PICK s : SumsOf(s, Weights(q, v), Len(q)) /\ Weight(q, v) = s[Len(q)]
  BY WeightSums, Zenon
<1>4. s[0 + Len(a)] = Weight(a, v) + s[0] /\ Weight(a, v) \in Nat
  <2>1. Adds(s, 0, Len(a), Weight(a, v))
    BY <1>a, <1>b, <1>3, WeightPiece, Zenon
  <2> QED  BY <2>1, Zenon DEF Adds
<1>5. s[n + Len(b)] = Weight(b, v) + s[n] /\ Weight(b, v) \in Nat
  <2>1. Adds(s, n, Len(b), Weight(b, v))
    BY <1>a, <1>c, <1>3, WeightPiece, Zenon
  <2> QED  BY <2>1, Zenon DEF Adds
<1>6. s[0] = 0
  BY <1>3, Zenon DEF SumsOf
<1>7. s[n] = Weight(a, v)
  BY <1>2, <1>4, <1>6
<1>8. s[Len(q)] = Weight(b, v) + Weight(a, v)
  BY <1>2, <1>5, <1>7, Zenon
<1>9. Weight(q, v) = Weight(a, v) + Weight(b, v)
  BY <1>3, <1>4, <1>5, <1>8
<1> QED  BY <1>1, <1>4, <1>5, <1>9, Zenon

(* The first item.                                                          *)
LEMMA WeightTail ==
  ASSUME NEW T, NEW v, Weighs(v, T), NEW q \in Seq(T), q # <<>>
  PROVE  Weight(q, v) = Weight(Tail(q), v) + v[q[1]] /\ Weight(Tail(q), v) \in Nat
<1>1. PICK t : t = Tail(q)
  BY Zenon
<1>2. 1 + Len(t) = Len(q) /\ 1 \in 1..Len(q) /\ 1 - 1 = 0
  BY <1>1
<1>a. t \in Seq(T) /\ 1 \in Nat /\ IsPiece(t, q, 1)
  BY <1>1 DEF IsPiece
<1>3. PICK s : SumsOf(s, Weights(q, v), Len(q)) /\ Weight(q, v) = s[Len(q)]
  BY WeightSums, Zenon
<1>4. s[1 + Len(t)] = Weight(t, v) + s[1] /\ Weight(t, v) \in Nat
  <2>1. Adds(s, 1, Len(t), Weight(t, v))
    BY <1>a, <1>3, WeightPiece, Zenon
  <2> QED  BY <2>1, Zenon DEF Adds
<1>5. s[0] = 0 /\ s[1] = s[1 - 1] + Weights(q, v)[1]
  BY <1>2, <1>3, Zenon DEF SumsOf
<1>6. Weights(q, v)[1] = v[q[1]] /\ v[q[1]] \in Nat
  BY <1>2, WeightsOf
<1>7. s[1] = v[q[1]]
  BY <1>2, <1>5, <1>6
<1> QED  BY <1>1, <1>2, <1>3, <1>4, <1>7, Zenon

(* Items that weigh nothing.                                                *)
LEMMA WeightNone ==
  ASSUME NEW T, NEW v, Weighs(v, T), NEW q \in Seq(T), \A i \in 1..Len(q) : v[q[i]] = 0
  PROVE  Weight(q, v) = 0
<1>1. PICK N \in Nat : N = Len(q)
  OBVIOUS
<1>2. PICK s : SumsOf(s, Weights(q, v), Len(q)) /\ Weight(q, v) = s[Len(q)]
  BY WeightSums, Zenon
<1>3. PICK f : f = Weights(q, v)
  BY Zenon
<1>4. s \in [0..N -> Nat] /\ s[0] = 0 /\ \A n \in 1..N : s[n] = s[n - 1] + f[n]
  BY <1>1, <1>2, <1>3, Zenon DEF SumsOf
<1>5. \A n \in 1..N : f[n] = 0
  BY <1>1, <1>3, WeightsOf
<1> DEFINE z == [n \in 0..N |-> 0]
<1>6. z \in [0..N -> Nat] /\ \A n \in 0..N : z[n] = 0
  OBVIOUS
<1> HIDE DEF z
<1>7. 0 \in 0..N /\ N \in 0..N /\ 0 \in Nat /\ \A n \in 1..N : n \in 0..N /\ n - 1 \in 0..N
  OBVIOUS
<1>8. SumsApart(s, z, 0, 0)
  BY <1>4, <1>6, <1>7 DEF SumsApart
<1>9. ASSUME NEW n \in 1..N  PROVE SumsAlike(s, z, n)
  <2>1. s[n] = s[n - 1] + 0 /\ z[n] = z[n - 1] + 0 /\ s[n - 1] \in Nat /\ z[n - 1] \in Nat
    <3>1. s[n - 1] \in Nat /\ z[n - 1] = 0 /\ z[n] = 0 /\ s[n] = s[n - 1] + f[n] /\ f[n] = 0
      BY <1>4, <1>5, <1>6, <1>7, <1>9, Zenon
    <3> QED  BY <3>1
  <2> QED  BY <1>7, <2>1, SameGrowth, Zenon
<1>10. s[N] = z[N] + 0
  BY <1>4, <1>6, <1>7, <1>8, <1>9, SumsAgree, Zenon
<1> QED  BY <1>1, <1>2, <1>6, <1>7, <1>10

(* r is q but for its k-th member.                                          *)
SameBut(r, q, k) == Len(r) = Len(q) /\ \A i \in 1..Len(q) : i # k => r[i] = q[i]

Exchanged(r, q, k, v) == Weight(r, v) + v[q[k]] = Weight(q, v) + v[r[k]]

(* One item is replaced.                                                    *)
LEMMA WeightChange ==
  ASSUME NEW T, NEW v, Weighs(v, T), NEW q \in Seq(T), NEW r \in Seq(T), NEW k \in 1..Len(q),
         SameBut(r, q, k)
  PROVE  Exchanged(r, q, k, v)
<1>0. Len(r) = Len(q) /\ \A i \in 1..Len(q) : i # k => r[i] = q[i]
  BY Zenon DEF SameBut
<1>1. PICK a, b : a = SubSeq(q, 1, k - 1) /\ b = SubSeq(q, k + 1, Len(q))
  BY Zenon
<1>2. Len(a) = k - 1 /\ Len(b) = Len(q) - k /\ 0 + (k - 1) = k - 1 /\ k + Len(b) = Len(q)
  BY <1>1
<1>3. a \in Seq(T) /\ b \in Seq(T) /\ k \in Nat /\ 0 \in Nat
  BY <1>1
<1>4. IsPiece(a, q, 0) /\ IsPiece(a, r, 0)
  BY <1>0, <1>1, <1>2 DEF IsPiece
<1>5. IsPiece(b, q, k) /\ IsPiece(b, r, k)
  <2>1. \A i \in 1..Len(b) : b[i] = q[k + i] /\ k + i \in 1..Len(q) /\ k + i # k
    BY <1>1, <1>2
  <2> QED  BY <1>0, <1>2, <2>1 DEF IsPiece
<1>6. ASSUME NEW w \in Seq(T), Len(w) = Len(q), IsPiece(a, w, 0), IsPiece(b, w, k)
      PROVE  Weight(w, v) = Weight(a, v) + v[w[k]] + Weight(b, v) /\ v[w[k]] \in Nat
  <2>1. PICK s : SumsOf(s, Weights(w, v), Len(w)) /\ Weight(w, v) = s[Len(w)]
    BY <1>6, WeightSums
  <2>2. Adds(s, 0, Len(a), Weight(a, v))
    BY <1>3, <1>6, <2>1, WeightPiece, Zenon
  <2>3. Adds(s, k, Len(b), Weight(b, v))
    BY <1>3, <1>6, <2>1, WeightPiece, Zenon
  <2>4. s[0 + Len(a)] = Weight(a, v) + s[0] /\ Weight(a, v) \in Nat
    BY <2>2, Zenon DEF Adds
  <2>5. s[k + Len(b)] = Weight(b, v) + s[k] /\ Weight(b, v) \in Nat
    BY <2>3, Zenon DEF Adds
  <2>6. k \in 1..Len(w)
    BY <1>6, Zenon
  <2>7. s[0] = 0 /\ s[k] = s[k - 1] + Weights(w, v)[k]
    BY <2>1, <2>6, Zenon DEF SumsOf
  <2>8. Weights(w, v)[k] = v[w[k]] /\ v[w[k]] \in Nat
    BY <1>6, <2>6, WeightsOf
  <2>9. s[k - 1] = Weight(a, v)
    BY <1>2, <2>4, <2>7
  <2>10. s[k] = Weight(a, v) + v[w[k]]
    BY <2>7, <2>8, <2>9, Zenon
  <2>11. s[Len(w)] = Weight(b, v) + (Weight(a, v) + v[w[k]])
    BY <1>2, <1>6, <2>5, <2>10, Zenon
  <2> QED  BY <2>1, <2>4, <2>5, <2>8, <2>11
<1>7. Weight(q, v) = Weight(a, v) + v[q[k]] + Weight(b, v) /\ v[q[k]] \in Nat
  BY <1>4, <1>5, <1>6, Zenon
<1>8. Weight(r, v) = Weight(a, v) + v[r[k]] + Weight(b, v) /\ v[r[k]] \in Nat
  BY <1>0, <1>4, <1>5, <1>6, Zenon
<1>9. Weight(a, v) \in Nat /\ Weight(b, v) \in Nat
  <2>1. PICK s : SumsOf(s, Weights(q, v), Len(q))
    BY WeightSums, Zenon
  <2>2. Adds(s, 0, Len(a), Weight(a, v)) /\ Adds(s, k, Len(b), Weight(b, v))
    BY <1>3, <1>4, <1>5, <2>1, WeightPiece, Zenon
  <2> QED  BY <2>2, Zenon DEF Adds
<1>10. PICK x, y, z, w \in Nat : x = Weight(a, v) /\ y = Weight(b, v) /\ z = v[q[k]] /\ w = v[r[k]]
  BY <1>7, <1>8, <1>9, Zenon
<1>11. Weight(q, v) = x + z + y /\ Weight(r, v) = x + w + y
  BY <1>7, <1>8, <1>10, Zenon
<1>12. Weight(r, v) + z = Weight(q, v) + w
  BY <1>11
<1> QED  BY <1>10, <1>12, Zenon DEF Exchanged

(* What Keep leaves and what it takes away.                                 *)
LEMMA WeightKeep ==
  ASSUME NEW T, NEW v, Weighs(v, T), NEW q \in Seq(T), NEW S
  PROVE  /\ Weight(Keep(q, S), v) + Weight(Keep(q, Range(q) \ S), v) = Weight(q, v)
         /\ Weight(Keep(q, S), v) \in Nat /\ Weight(Keep(q, Range(q) \ S), v) \in Nat
<1>1. PICK N \in Nat : N = Len(q)
  OBVIOUS
<1>2. PICK U : U = Range(q) \ S
  BY Zenon
<1>3. PICK f : KeptSteps(f, q, S, T)
  BY KeepSteps, Zenon
<1>4. PICK g : KeptSteps(g, q, U, T)
  BY KeepSteps, Zenon
<1>5. PICK s : SumsOf(s, Weights(q, v), Len(q)) /\ Weight(q, v) = s[Len(q)]
  BY WeightSums, Zenon
<1>6. \A n \in 1..N : /\ q[n] \in T /\ (q[n] \in U <=> q[n] \notin S)
                      /\ Weights(q, v)[n] = v[q[n]] /\ v[q[n]] \in Nat
  <2>1. \A n \in 1..N : q[n] \in T /\ Weights(q, v)[n] = v[q[n]] /\ v[q[n]] \in Nat
    BY <1>1, WeightsOf
  <2>2. \A n \in 1..N : q[n] \in Range(q)
    BY <1>1, RangeOf
  <2> QED  BY <1>2, <2>1, <2>2, Zenon
<1>7. s \in [0..N -> Nat] /\ s[0] = 0 /\ \A n \in 1..N : s[n] = s[n - 1] + v[q[n]]
  BY <1>1, <1>5, <1>6 DEF SumsOf
<1>8. \A x \in Seq(T) : Weight(x, v) \in Nat
  <2>1. ASSUME NEW x \in Seq(T)  PROVE Weight(x, v) \in Nat
    <3>1. PICK r : SumsOf(r, Weights(x, v), Len(x)) /\ Weight(x, v) = r[Len(x)]
      BY WeightSums, Zenon
    <3>2. Len(x) \in 0..Len(x)
      OBVIOUS
    <3> QED  BY <3>1, <3>2, Zenon DEF SumsOf
  <2> QED  BY <2>1, Zenon
<1>9. 0 \in 0..N /\ N \in 0..N /\ 0 \in Nat /\ \A n \in 1..N : n \in 0..N /\ n - 1 \in 0..N
  OBVIOUS
<1> DEFINE h == [n \in 0..N |-> Weight(f[n], v) + Weight(g[n], v)]
<1>10. \A n \in 0..N : Weight(f[n], v) \in Nat /\ Weight(g[n], v) \in Nat
  BY <1>1, <1>3, <1>4, <1>8, Zenon DEF KeptSteps
<1>11. h \in [0..N -> Nat] /\ \A n \in 0..N : h[n] = Weight(f[n], v) + Weight(g[n], v)
  BY <1>10
<1> HIDE DEF h
<1>12. SumsApart(h, s, 0, 0)
  <2>1. Weight(<<>>, v) = 0
    <3>1. <<>> \in Seq(T) /\ \A i \in 1..Len(<<>>) : v[<<>>[i]] = 0
      OBVIOUS
    <3> QED  BY <3>1, WeightNone, Zenon
  <2>2. f[0] = <<>> /\ g[0] = <<>>
    BY <1>3, <1>4, Zenon DEF KeptSteps
  <2>3. h[0] = Weight(<<>>, v) + Weight(<<>>, v)
    BY <1>9, <1>11, <2>2, Zenon
  <2> QED  BY <1>7, <2>1, <2>3 DEF SumsApart
<1>13. ASSUME NEW n \in 1..N  PROVE SumsAlike(h, s, n)
  <2>1. PICK b \in Nat : b = v[q[n]]
    BY <1>6, Zenon
  <2>2. f[n - 1] \in Seq(T) /\ f[n] = IF q[n] \in S THEN Append(f[n - 1], q[n]) ELSE f[n - 1]
    BY <1>1, <1>3, <1>13, Zenon DEF KeptSteps
  <2>3. g[n - 1] \in Seq(T) /\ g[n] = IF q[n] \in U THEN Append(g[n - 1], q[n]) ELSE g[n - 1]
    BY <1>1, <1>4, <1>13, Zenon DEF KeptSteps
  <2>4. \A x \in Seq(T) : Weight(Append(x, q[n]), v) = Weight(x, v) + b
    BY <1>6, <1>13, <2>1, WeightAppend
  <2>5. /\ h[n] = Weight(f[n], v) + Weight(g[n], v)
        /\ h[n - 1] = Weight(f[n - 1], v) + Weight(g[n - 1], v)
    BY <1>9, <1>11, <1>13, Zenon
  <2>6. Weight(f[n - 1], v) \in Nat /\ Weight(g[n - 1], v) \in Nat
    BY <1>9, <1>10, <1>13, Zenon
  <2>7. Weight(f[n], v) = Weight(f[n - 1], v) + (IF q[n] \in S THEN b ELSE 0)
    <3>1. CASE q[n] \in S
      BY <2>2, <2>4, <3>1, Zenon
    <3>2. CASE q[n] \notin S
      BY <2>2, <2>6, <3>2
    <3> QED  BY <3>1, <3>2, Zenon
  <2>8. Weight(g[n], v) = Weight(g[n - 1], v) + (IF q[n] \in S THEN 0 ELSE b)
    <3>1. CASE q[n] \notin S
      BY <1>6, <1>13, <2>3, <2>4, <3>1, Zenon
    <3>2. CASE q[n] \in S
      BY <1>6, <1>13, <2>3, <2>6, <3>2
    <3> QED  BY <3>1, <3>2, Zenon
  <2>9. h[n] = h[n - 1] + b /\ h[n - 1] \in Nat
    BY <2>1, <2>5, <2>6, <2>7, <2>8, SMTT(20)
  <2>10. s[n] = s[n - 1] + b /\ s[n - 1] \in Nat
    BY <1>7, <1>9, <1>13, <2>1, Zenon
  <2> QED  BY <2>1, <2>9, <2>10, SameGrowth, Zenon
<1>14. h[N] = s[N] + 0
  BY <1>7, <1>9, <1>11, <1>12, <1>13, SumsAgree, Zenon
<1>15. h[N] = Weight(f[N], v) + Weight(g[N], v) /\ s[N] \in Nat
  BY <1>7, <1>9, <1>11, Zenon
<1>16. /\ Weight(f[N], v) + Weight(g[N], v) = s[N]
       /\ Weight(f[N], v) \in Nat /\ Weight(g[N], v) \in Nat
  BY <1>9, <1>10, <1>14, <1>15
<1>17. Keep(q, S) = f[N] /\ Keep(q, U) = g[N]
  BY <1>1, <1>3, <1>4, Zenon DEF KeptSteps
<1> QED  BY <1>1, <1>2, <1>5, <1>16, <1>17, Zenon

(* Bytes are weights.                                                       *)
LEMMA BytesWeight ==
  ASSUME NEW S, \A s \in S : s.bytes \in Nat
  PROVE  LET v == [s \in S |-> s.bytes]
         IN  Weighs(v, S) /\ \A q \in Seq(S) : Bytes(q) = Weight(q, v)
<1> DEFINE v == [s \in S |-> s.bytes]
<1>1. Weighs(v, S)
  BY Zenon DEF Weighs
<1>2. ASSUME NEW q \in Seq(S)  PROVE Bytes(q) = Weight(q, v)
  <2>1. \A i \in 1..Len(q) : q[i] \in S
    OBVIOUS
  <2>2. \A i \in 1..Len(q) : v[q[i]] = q[i].bytes
    BY <2>1, Zenon
  <2>3. [i \in 1..Len(q) |-> q[i].bytes] = [i \in 1..Len(q) |-> v[q[i]]]
    BY <2>2, Zenon
  <2> QED  BY <2>3, Zenon DEF Bytes, Weight, Weights
<1> QED  BY <1>1, <1>2, Zenon

LEMMA BytesEmpty == Bytes(<<>>) = 0
<1>1. Len([i \in 1..Len(<<>>) |-> <<>>[i].bytes]) = 0
  OBVIOUS
<1> QED  BY <1>1, TotalEmpty, Zenon DEF Bytes

LEMMA BytesAppend ==
  ASSUME NEW S, \A s \in S : s.bytes \in Nat, NEW q \in Seq(S), NEW x \in S
  PROVE  Bytes(Append(q, x)) = Bytes(q) + x.bytes /\ Bytes(q) \in Nat
<1>1. PICK v : v = [s \in S |-> s.bytes]
  BY Zenon
<1>2. Weighs(v, S) /\ v[x] = x.bytes /\ \A r \in Seq(S) : Bytes(r) = Weight(r, v)
  BY <1>1, BytesWeight, Zenon
<1>3. Append(q, x) \in Seq(S)
  OBVIOUS
<1>4. Weight(Append(q, x), v) = Weight(q, v) + v[x] /\ Weight(q, v) \in Nat
  BY <1>2, WeightAppend
<1> QED  BY <1>2, <1>3, <1>4, Zenon

LEMMA BytesTail ==
  ASSUME NEW S, \A s \in S : s.bytes \in Nat, NEW q \in Seq(S), q # <<>>
  PROVE  Bytes(q) = Bytes(Tail(q)) + q[1].bytes /\ Bytes(Tail(q)) \in Nat
<1>1. PICK v : v = [s \in S |-> s.bytes]
  BY Zenon
<1>2. Tail(q) \in Seq(S) /\ q[1] \in S
  OBVIOUS
<1>3. Weighs(v, S) /\ v[q[1]] = q[1].bytes /\ \A r \in Seq(S) : Bytes(r) = Weight(r, v)
  BY <1>1, <1>2, BytesWeight, Zenon
<1>4. Weight(q, v) = Weight(Tail(q), v) + v[q[1]] /\ Weight(Tail(q), v) \in Nat
  BY <1>3, WeightTail
<1> QED  BY <1>2, <1>3, <1>4, Zenon

=============================================================================
