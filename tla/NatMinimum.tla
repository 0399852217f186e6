----------------------------- MODULE NatMinimum -----------------------------
(***************************************************************************)
(* Natural numbers are well founded: what the proofs need of it, stated    *)
(* about sets of numbers and of things that have numbers.                  *)
(***************************************************************************)
EXTENDS Integers, FiniteSetsExt, WellFoundedInduction, TLAPS

Below == {ss \in Nat \X Nat : ss[1] < ss[2]}

LEMMA BelowWellFounded == IsWellFoundedOn(Below, Nat)
  BY NatLessThanWellFounded, Zenon DEF OpToRel, Below

(* Every set of numbers that is not empty has a least one.                 *)
LEMMA LeastNat ==
    ASSUME NEW S \in SUBSET Nat, S # {}
    PROVE  \E n \in S : \A m \in S : n <= m
<1>1. PICK n \in S : \A m \in S : <<m, n>> \notin Below
  BY BelowWellFounded, WFMin, Zenon
<1>2. \A m \in S : ~(m < n)
  BY <1>1 DEF Below
<1>. QED  BY <1>2

(* A set of numbers with an upper bound has a greatest one.                *)
LEMMA GreatestNat ==
    ASSUME NEW S \in SUBSET Nat, S # {}, NEW b \in Nat, \A n \in S : n <= b
    PROVE  \E n \in S : \A m \in S : m <= n
<1> DEFINE D == {d \in Nat : b - d \in S}
<1>1. PICK n \in S : TRUE
  OBVIOUS
<1>2. b - n \in Nat /\ b - (b - n) = n
  BY <1>1
<1>3. D \in SUBSET Nat /\ D # {}
  BY <1>1, <1>2
<1>4. PICK d \in D : \A e \in D : d <= e
  BY <1>3, LeastNat, Zenon
<1>5. ASSUME NEW m \in S PROVE m <= b - d
  <2>1. b - m \in Nat /\ b - (b - m) = m
    BY <1>5
  <2>2. d <= b - m
    BY <1>4, <2>1
  <2>. QED  BY <2>2, <1>4
<1>. QED  BY <1>4, <1>5

(* The same of the numbers that a function gives the members of a set.     *)
LEMMA LeastValue ==
    ASSUME NEW D, NEW f \in [D -> Nat], NEW S \in SUBSET D, S # {}
    PROVE  \E s \in S : \A t \in S : f[s] <= f[t]
<1> DEFINE N == {f[s] : s \in S}
<1>1. N \in SUBSET Nat /\ N # {}
  OBVIOUS
<1>2. PICK n \in N : \A m \in N : n <= m
  BY <1>1, LeastNat, Zenon
<1>3. PICK s \in S : f[s] = n
  OBVIOUS
<1>. QED  BY <1>2, <1>3

LEMMA GreatestValue ==
    ASSUME NEW D, NEW f \in [D -> Nat], NEW S \in SUBSET D, S # {},
           NEW b \in Nat, \A s \in S : f[s] <= b
    PROVE  \E s \in S : \A t \in S : f[s] >= f[t]
<1> DEFINE N == {f[s] : s \in S}
<1>1. N \in SUBSET Nat /\ N # {} /\ \A n \in N : n <= b
  OBVIOUS
<1>2. PICK n \in N : \A m \in N : m <= n
  <2> HIDE DEF N
  <2>. QED  BY <1>1, GreatestNat, Zenon
<1>3. PICK s \in S : f[s] = n
  OBVIOUS
<1>4. \A t \in S : f[t] <= f[s] /\ f[t] \in Nat /\ f[s] \in Nat
  BY <1>2, <1>3
<1>. QED  BY <1>4

LEMMA MaxValue ==
    ASSUME NEW S, S # {}, NEW f \in [S -> Nat], NEW b \in Nat, \A s \in S : f[s] <= b
    PROVE  LET m == Max({f[s] : s \in S})
           IN  m \in Nat /\ m <= b /\ \A s \in S : m >= f[s]
<1> DEFINE N == {f[s] : s \in S}
<1>1. PICK s \in S : \A t \in S : f[s] >= f[t]
  BY GreatestValue
<1>2. f[s] \in N /\ \A n \in N : f[s] >= n
  BY <1>1
<1>3. Max(N) \in N /\ \A n \in N : Max(N) >= n
  <2> HIDE DEF N
  <2>. QED  BY <1>2, Zenon DEF Max
<1>. QED  BY <1>3

(* Induction: a set of numbers with 0 and the successors of all its        *)
(* members is all of them.                                                 *)
LEMMA AllNat ==
    ASSUME NEW S \in SUBSET Nat, 0 \in S, \A n \in S : n + 1 \in S
    PROVE  S = Nat
<1> SUFFICES ASSUME Nat \ S # {} PROVE FALSE
  OBVIOUS
<1>1. PICK n \in Nat \ S : \A m \in Nat \ S : n <= m
  BY LeastNat, Nat \ S \subseteq Nat, Zenon
<1>2. n - 1 \in Nat /\ n - 1 \in S
  BY <1>1
<1>. QED  BY <1>2
=============================================================================
