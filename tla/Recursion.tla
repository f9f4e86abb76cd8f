----------------------------- MODULE Recursion ------------------------------
(***************************************************************************)
(* Induction over the natural numbers and functions defined by recursion   *)
(* on them, for the proofs about what the code computes in a loop.  The    *)
(* library states these facts for an operator; here they are stated for a  *)
(* set, the set of the numbers for which something holds, and for a step   *)
(* that is a function.  Both follow from the order of the numbers being    *)
(* well founded.                                                           *)
(***************************************************************************)
EXTENDS Integers, WellFoundedInduction, TLAPS

(* A well-founded relation has a minimal member of every set. *)
LEMMA MinimalMember ==
  ASSUME NEW R, NEW D, IsWellFoundedOn(R, D), NEW T, T \subseteq D, T # {}
  PROVE  \E x \in T : \A y \in T : ~(<<y, x>> \in R)
BY WFMin, Zenon

(* A set with a number in it has a least one. *)
LEMMA LeastMember ==
  ASSUME NEW S, S \subseteq Nat, S # {}
  PROVE  \E n \in S : \A m \in S : n <= m
<1> DEFINE Below == OpToRel(<, Nat)
<1>1. IsWellFoundedOn(Below, Nat)
  BY NatLessThanWellFounded
<1>2. \A m, n \in Nat : m < n => <<m, n>> \in Below
  BY DEF OpToRel
<1> HIDE DEF Below
<1>3. \E n \in S : \A m \in S : ~(<<m, n>> \in Below)
  BY <1>1, MinimalMember, Zenon
<1>4. PICK n \in S : \A m \in S : ~(<<m, n>> \in Below)
  BY <1>3, Zenon
<1>5. ASSUME NEW m \in S PROVE n <= m
  <2>1. m \in Nat /\ n \in Nat /\ ~(<<m, n>> \in Below)
    BY <1>4
  <2>2. ~(m < n)
    BY <1>2, <2>1, Zenon
  <2> QED
    BY <2>1, <2>2
<1> QED
  BY <1>5

(* Induction: what holds of 0, and of n + 1 if of n, holds of all. *)
LEMMA Induction ==
  ASSUME NEW S, 0 \in S, \A n \in Nat : n \in S => n + 1 \in S
  PROVE  \A n \in Nat : n \in S
<1> SUFFICES ASSUME Nat \ S # {} PROVE FALSE
  OBVIOUS
<1>1. PICK n \in Nat \ S : \A m \in Nat \ S : n <= m
  BY LeastMember
<1>2. n # 0 /\ n - 1 \in Nat /\ n - 1 \notin Nat \ S
  BY <1>1
<1> QED
  BY <1>1, <1>2

(* The same up to a bound. *)
LEMMA InductionTo ==
  ASSUME NEW N \in Nat, NEW S, 0 \in S, \A n \in 0..(N - 1) : n \in S => n + 1 \in S
  PROVE  \A n \in 0..N : n \in S
<1> DEFINE T == {n \in Nat : n <= N => n \in S}
<1>1. 0 \in T
  OBVIOUS
<1>2. \A n \in Nat : n \in T => n + 1 \in T
  OBVIOUS
<1> HIDE DEF T
<1>3. \A n \in Nat : n \in T
  BY <1>1, <1>2, Induction
<1> QED
  BY <1>3 DEF T

(* Functions that start alike and go on alike are alike. *)
Alike(f, g, N) ==
  f[0] = g[0] /\ \A n \in 0..(N - 1) : f[n] = g[n] => f[n + 1] = g[n + 1]

LEMMA Agree ==
  ASSUME NEW N \in Nat, NEW f, NEW g, Alike(f, g, N)
  PROVE  \A n \in 0..N : f[n] = g[n]
<1> DEFINE S == {n \in 0..N : f[n] = g[n]}
<1>1. 0 \in S
  BY DEF Alike
<1>2. \A n \in 0..(N - 1) : n \in S => n + 1 \in S
  BY DEF Alike
<1> HIDE DEF S
<1>3. \A n \in 0..N : n \in S
  BY <1>1, <1>2, InductionTo
<1> QED
  BY <1>3 DEF S

(* A first value and a step to the next one determine a function: there is *)
(* one, with its values where the step has them.                           *)
Runs(f, N, first, next) ==
  f[0] = first /\ \A n \in 0..(N - 1) : f[n + 1] = next[<<n, f[n]>>]

LEMMA RecursionTo ==
  ASSUME NEW N \in Nat, NEW T, NEW first \in T, NEW next \in [Nat \X T -> T]
  PROVE  \E f \in [0..N -> T] : Runs(f, N, first, next)
<1> DEFINE S == {m \in Nat : \E f \in [0..m -> T] : Runs(f, m, first, next)}
<1>1. 0 \in S
  <2>1. [n \in 0..0 |-> first] \in [0..0 -> T] /\ Runs([n \in 0..0 |-> first], 0, first, next)
    BY DEF Runs
  <2> QED
    BY <2>1
<1>2. ASSUME NEW m \in Nat, m \in S PROVE m + 1 \in S
  <2>1. PICK f \in [0..m -> T] : Runs(f, m, first, next)
    BY <1>2
  <2> DEFINE longer == [n \in 0..(m + 1) |-> IF n <= m THEN f[n] ELSE next[<<m, f[m]>>]]
  <2>2. f[m] \in T
    OBVIOUS
  <2>3. next[<<m, f[m]>>] \in T
    BY <2>2
  <2>4. longer \in [0..(m + 1) -> T]
    BY <2>3
  <2>5. longer[0] = first
    BY <2>1 DEF Runs
  <2>6. ASSUME NEW n \in 0..m PROVE longer[n + 1] = next[<<n, longer[n]>>]
    <3>1. CASE n = m
      BY <3>1
    <3>2. CASE n \in 0..(m - 1)
      BY <2>1, <3>2 DEF Runs
    <3> QED
      BY <3>1, <3>2
  <2> HIDE DEF longer
  <2>7. Runs(longer, m + 1, first, next)
    BY <2>5, <2>6 DEF Runs
  <2> QED
    BY <2>4, <2>7
<1> HIDE DEF S
<1>3. \A m \in Nat : m \in S
  BY <1>1, <1>2, Induction
<1>4. N \in S
  BY <1>3
<1> QED
  BY <1>4 DEF S
=============================================================================
