---------------------------- MODULE LeastElement ---------------------------
(* A set of naturals that is not empty has a least element, and a greatest  *)
(* one if it is bounded: what "the first such that" in PolicyEngine and     *)
(* Registry, and "the latest" in PolicyBundles, rest on.  So does induction *)
(* over the turns of redact.                                                *)
EXTENDS Naturals, TLAPS, WellFoundedInduction

Below == {p \in Nat \X Nat : p[1] < p[2]}

(* The relation NatLessThanWellFounded speaks of, as a set of pairs.        *)
LEMMA BelowWellFounded == IsWellFoundedOn(Below, Nat)
<1>1. Below = OpToRel(<, Nat)
  BY Zenon DEF Below, OpToRel
<1> QED BY <1>1, NatLessThanWellFounded, Zenon

(* Used for the CHOOSE of a first element.                                  *)
LEMMA Least ==
    ASSUME NEW S \in SUBSET Nat, S # {}
    PROVE  \E i \in S : \A j \in S : i <= j
<1>1. PICK i \in S : \A j \in S : <<j, i>> \notin Below
  BY BelowWellFounded, WFMin, Zenon
<1>2. \A j \in S : ~(j < i)
  BY <1>1 DEF Below
<1> QED BY <1>1, <1>2

(* Induction on the naturals, for a predicate given by the set it holds of. *)
LEMMA Induction ==
    ASSUME NEW S \in SUBSET Nat, 0 \in S, \A n \in S : n + 1 \in S
    PROVE  S = Nat
<1>1. ASSUME Nat \ S # {} PROVE FALSE
  <2>1. PICK n \in Nat \ S : \A m \in Nat \ S : n <= m
    BY <1>1, Least
  <2>2. n - 1 \in Nat /\ n - 1 + 1 = n /\ ~(n <= n - 1)
    BY <2>1
  <2> QED BY <2>1, <2>2
<1> QED BY <1>1

(* Used for the CHOOSE of a last element: the least bound is in the set.    *)
LEMMA Greatest ==
    ASSUME NEW S \in SUBSET Nat, S # {}, NEW n \in Nat, \A j \in S : j <= n
    PROVE  \E i \in S : \A j \in S : j <= i
<1> DEFINE Bounds == {m \in Nat : \A j \in S : j <= m}
<1>1. Bounds \in SUBSET Nat /\ n \in Bounds
  OBVIOUS
<1>2. PICK b \in Bounds : \A m \in Bounds : b <= m
  BY <1>1, Least
<1>3. ASSUME b \notin S PROVE FALSE
  <2>1. b \in Nat /\ \A j \in S : j \in Nat /\ j <= b /\ j # b
    BY <1>3
  <2>2. PICK j \in S : TRUE
    OBVIOUS
  <2>3. b - 1 \in Nat /\ \A k \in S : k <= b - 1
    BY <2>1, <2>2
  <2> QED BY <1>2, <2>1, <2>3
<1> QED BY <1>3
=============================================================================
