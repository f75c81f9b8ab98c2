----------------------------- MODULE Iteration -----------------------------
(***************************************************************************)
(* Induction over the natural numbers, stated with sets and functions so   *)
(* that a proof can instantiate it: the functions that a specification     *)
(* defines by recursion, and sets that grow until they are closed.         *)
(***************************************************************************)
EXTENDS Integers, FiniteSets, FiniteSetTheorems, NaturalsInduction,
        WellFoundedInduction, TLAPS

LEMMA Induction ==
  ASSUME NEW X, 0 \in X, \A n \in Nat : n \in X => n + 1 \in X
  PROVE  \A n \in Nat : n \in X
<1> SUFFICES ASSUME NEW m \in Nat, m \notin X
             PROVE  FALSE
  OBVIOUS
<1> DEFINE Out == {n \in Nat : n \notin X}
<1>1. PICK k \in Out : \A j \in Out : ~ (<<j, k>> \in OpToRel(<, Nat))
  <2>1. Out \subseteq Nat /\ Out # {}
    OBVIOUS
  <2> QED
    BY <2>1, NatLessThanWellFounded, WFMin
<1>2. k \in Nat /\ k # 0
  OBVIOUS
<1>3. \A j \in Out : ~ (j < k)
  BY <1>1 DEF OpToRel
<1>4. k - 1 \in X
  BY <1>2, <1>3
<1> QED
  BY <1>2, <1>4

LEMMA Least ==
  ASSUME NEW S, S \subseteq Nat, S # {}
  PROVE  \E m \in S : \A k \in S : m <= k
<1>1. PICK m \in S : \A k \in S : ~ (<<k, m>> \in OpToRel(<, Nat))
  BY NatLessThanWellFounded, WFMin
<1>2. \A k \in S : ~ (k < m)
  BY <1>1 DEF OpToRel
<1> QED
  BY <1>2

LEMMA Greatest ==
  ASSUME NEW n \in Nat, NEW S, S \subseteq 0 .. n, S # {}
  PROVE  \E m \in S : \A k \in S : m >= k
<1> DEFINE T == {n - k : k \in S}
<1>1. T \subseteq Nat /\ T # {}
  <2>1. ASSUME NEW k \in S
        PROVE  n - k \in Nat
    <3>1. k \in 0 .. n
      OBVIOUS
    <3> QED
      BY <3>1
  <2>2. PICK k \in S : TRUE
    OBVIOUS
  <2>3. n - k \in T
    OBVIOUS
  <2> QED
    BY <2>1, <2>3
<1>2. PICK t \in T : \A u \in T : t <= u
  BY <1>1, Least
<1>3. PICK m \in S : t = n - m
  OBVIOUS
<1>4. \A k \in S : m >= k
  BY <1>2, <1>3
<1> QED
  BY <1>4

(***************************************************************************)
(* A function of the naturals given by its value at 0 and, at n + 1, by    *)
(* Step on n and its value at n.                                           *)
(***************************************************************************)
Follows(f, a, Step, n) ==
  f[0] = a /\ \A k \in 0 .. n - 1 : f[k + 1] = Step[<<k, f[k]>>]

LEMMA Beginnings ==
  ASSUME NEW S, NEW a \in S, NEW Step \in [Nat \X S -> S]
  PROVE  \A n \in Nat : \E f \in [0 .. n -> S] : Follows(f, a, Step, n)
<1> DEFINE X == {n \in Nat : \E f \in [0 .. n -> S] : Follows(f, a, Step, n)}
<1>1. 0 \in X
  <2>1. [k \in 0 .. 0 |-> a] \in [0 .. 0 -> S]
    OBVIOUS
  <2>2. Follows([k \in 0 .. 0 |-> a], a, Step, 0)
    BY DEF Follows
  <2> QED
    BY <2>1, <2>2
<1>2. ASSUME NEW n \in Nat, n \in X
      PROVE  n + 1 \in X
  <2>1. PICK f \in [0 .. n -> S] : Follows(f, a, Step, n)
    BY <1>2
  <2> DEFINE g == [k \in 0 .. n + 1 |-> IF k <= n THEN f[k] ELSE Step[<<n, f[n]>>]]
  <2>2. f[n] \in S /\ Step[<<n, f[n]>>] \in S
    OBVIOUS
  <2>3. g \in [0 .. n + 1 -> S]
    BY <2>2
  <2>4. Follows(g, a, Step, n + 1)
    <3>1. g[0] = a
      BY <2>1 DEF Follows
    <3>2. ASSUME NEW k \in 0 .. n
          PROVE  g[k + 1] = Step[<<k, g[k]>>]
      <4>1. CASE k < n
        BY <2>1, <4>1 DEF Follows
      <4>2. CASE k = n
        BY <4>2
      <4> QED
        BY <4>1, <4>2
    <3> HIDE DEF g
    <3> QED
      BY <3>1, <3>2 DEF Follows
  <2> HIDE DEF g
  <2> QED
    BY <2>3, <2>4
<1> HIDE DEF X
<1>3. \A n \in Nat : n \in X
  BY <1>1, <1>2, Induction
<1> QED
  BY <1>3 DEF X

Steps(S, a, Step) == a \in S /\ Step \in [Nat \X S -> S]
Iterated(f, S, a, Step) ==
  f \in [Nat -> S] /\ f[0] = a /\ \A n \in Nat : f[n + 1] = Step[<<n, f[n]>>]

LEMMA Iterates ==
  ASSUME NEW S, NEW a, NEW Step, Steps(S, a, Step)
  PROVE  \E f : Iterated(f, S, a, Step)
<1>0. a \in S /\ Step \in [Nat \X S -> S]
  BY DEF Steps
<1> DEFINE start(n) == CHOOSE f \in [0 .. n -> S] : Follows(f, a, Step, n)
           F == [n \in Nat |-> start(n)[n]]
<1>1. \A n \in Nat : start(n) \in [0 .. n -> S] /\ Follows(start(n), a, Step, n)
  BY <1>0, Beginnings
<1> HIDE DEF start
<1>2. ASSUME NEW m \in Nat, NEW n \in Nat, m <= n
      PROVE  start(m)[m] = start(n)[m]
  <2> DEFINE X == {k \in Nat : k <= m => start(m)[k] = start(n)[k]}
  <2>1. 0 \in X
    BY <1>1 DEF Follows
  <2>2. ASSUME NEW k \in Nat, k \in X
        PROVE  k + 1 \in X
    <3>1. CASE k + 1 <= m
      <4>1. k \in 0 .. m - 1 /\ k \in 0 .. n - 1
        BY <1>2, <3>1
      <4>2. start(m)[k] = start(n)[k]
        BY <2>2, <3>1
      <4>3. /\ start(m)[k + 1] = Step[<<k, start(m)[k]>>]
            /\ start(n)[k + 1] = Step[<<k, start(n)[k]>>]
        BY <1>1, <4>1 DEF Follows
      <4> QED
        BY <4>2, <4>3
    <3>2. CASE ~ (k + 1 <= m)
      BY <3>2
    <3> QED
      BY <3>1, <3>2
  <2> HIDE DEF X
  <2>3. m \in X
    BY <2>1, <2>2, Induction
  <2> QED
    BY <2>3 DEF X
<1>3. F \in [Nat -> S]
  BY <1>1
<1>4. F[0] = a
  <2>1. start(0)[0] = a
    BY <1>1 DEF Follows
  <2> QED
    BY <2>1
<1>5. ASSUME NEW n \in Nat
      PROVE  F[n + 1] = Step[<<n, F[n]>>]
  <2>1. start(n + 1)[n + 1] = Step[<<n, start(n + 1)[n]>>]
    BY <1>1 DEF Follows
  <2>2. start(n)[n] = start(n + 1)[n]
    BY <1>2
  <2> QED
    BY <2>1, <2>2
<1> HIDE DEF F
<1> QED
  BY <1>3, <1>4, <1>5 DEF Iterated

(***************************************************************************)
(* Sets that grow within a finite one, and stop for good where they stop:  *)
(* after as many steps as the whole has members, they have stopped.        *)
(***************************************************************************)
LEMMA Saturates ==
  ASSUME NEW D, IsFiniteSet(D), NEW N \in Nat, Cardinality(D) <= N,
         NEW R \in [Nat -> SUBSET D],
         \A k \in Nat : R[k] \subseteq R[k + 1],
         \A k \in Nat : R[k + 1] = R[k] => R[k + 2] = R[k + 1]
  PROVE  R[N + 1] = R[N]
<1> DEFINE size(k) == Cardinality(R[k])
           X == {k \in Nat : R[k + 1] = R[k] \/ size(k) >= k}
<1>1. \A k \in Nat : IsFiniteSet(R[k]) /\ size(k) \in Nat
  BY FS_Subset, FS_CardinalityType
<1>2. 0 \in X
  BY <1>1
<1>3. ASSUME NEW k \in Nat, k \in X
      PROVE  k + 1 \in X
  <2>1. CASE R[k + 1] = R[k]
    BY <2>1
  <2>2. CASE R[k + 1] # R[k]
    <3>1. size(k) <= size(k + 1) /\ size(k) # size(k + 1)
      BY <1>1, <2>2, FS_Subset
    <3>2. size(k) >= k
      BY <1>3, <2>2
    <3>3. size(k) \in Nat /\ size(k + 1) \in Nat
      BY <1>1
    <3> HIDE DEF size
    <3>4. size(k + 1) >= k + 1
      BY <3>1, <3>2, <3>3
    <3> QED
      BY <3>4
  <2> QED
    BY <2>1, <2>2
<1> HIDE DEF X
<1>4. N \in X
  BY <1>2, <1>3, Induction
<1>5. CASE size(N) >= N
  <2>1. size(N) <= Cardinality(D)
    BY FS_Subset
  <2>2. size(N) = Cardinality(D)
    BY <1>1, <1>5, <2>1, FS_CardinalityType
  <2>3. R[N] = D
    BY <2>2, FS_Subset
  <2>4. R[N] \subseteq R[N + 1] /\ R[N + 1] \in SUBSET D
    OBVIOUS
  <2> QED
    BY <2>3, <2>4
<1> QED
  BY <1>4, <1>5 DEF X
=============================================================================
