----------------------------- MODULE SetLemmas -----------------------------
(***************************************************************************)
(* Facts about sets of naturals and finite sets that the proofs about both *)
(* reassemblers use.                                                       *)
(***************************************************************************)
EXTENDS Integers, FiniteSets, FiniteSetTheorems, WellFoundedInduction, TLAPS

(***************************************************************************)
(* A non-empty set of naturals has a least element.                        *)
(***************************************************************************)
LEMMA LeastNatural ==
  ASSUME NEW T \in SUBSET Nat, T # {}
  PROVE  \E m \in T : \A n \in T : m <= n
<1>1. \E R : /\ IsWellFoundedOn(R, Nat)
             /\ \A m, n \in Nat : <<n, m>> \in R <=> n < m
  <2> DEFINE R == OpToRel(<, Nat)
  <2>1. \A m, n \in Nat : <<n, m>> \in R <=> n < m
    BY DEF OpToRel
  <2>2. IsWellFoundedOn(R, Nat)
    BY NatLessThanWellFounded
  <2> HIDE DEF R
  <2> QED
    BY <2>1, <2>2
<1>2. PICK R : /\ IsWellFoundedOn(R, Nat)
               /\ \A m, n \in Nat : <<n, m>> \in R <=> n < m
  BY <1>1
<1>3. PICK m \in T : \A n \in T : ~ (<<n, m>> \in R)
  BY <1>2, WFMin
<1>4. ASSUME NEW n \in T PROVE m <= n
  <2>1. m \in Nat /\ n \in Nat
    OBVIOUS
  <2>2. <<n, m>> \in R <=> n < m
    BY <1>2, <2>1
  <2>3. ~ (<<n, m>> \in R)
    BY <1>3, Zenon
  <2>4. ~ (n < m)
    BY <2>2, <2>3
  <2> QED
    BY <2>1, <2>4
<1> QED
  BY <1>4

(***************************************************************************)
(* A set of naturals with 0 and the successor of each of its elements has  *)
(* all of them: induction for a property written as a set.                 *)
(***************************************************************************)
LEMMA AllNaturals ==
  ASSUME NEW T \in SUBSET Nat, 0 \in T, \A n \in T : n + 1 \in T
  PROVE  Nat \subseteq T
<1> SUFFICES ASSUME Nat \ T # {} PROVE FALSE
  OBVIOUS
<1>1. PICK m \in Nat \ T : \A n \in Nat \ T : m <= n
  <2>1. Nat \ T \in SUBSET Nat
    OBVIOUS
  <2> QED
    BY <2>1, LeastNatural
<1>2. m - 1 \in Nat /\ m - 1 \in T
  BY <1>1
<1>3. (m - 1) + 1 \in T
  BY <1>2
<1> QED
  BY <1>1, <1>3

(***************************************************************************)
(* An interval that starts at a and has n elements has n elements.         *)
(***************************************************************************)
LEMMA IntervalCount ==
  ASSUME NEW a \in Nat, NEW n \in Nat
  PROVE  IsFiniteSet(a .. a + n - 1) /\ Cardinality(a .. a + n - 1) = n
<1> DEFINE b == a + n - 1
<1>1. a \in Int /\ b \in Int
  OBVIOUS
<1>2. /\ IsFiniteSet(a .. b)
      /\ Cardinality(a .. b) = IF a > b THEN 0 ELSE b - a + 1
  <2> HIDE DEF b
  <2> QED
    BY <1>1, FS_Interval, Zenon
<1> QED
  BY <1>2

(***************************************************************************)
(* A part of a finite set within a limit is within the limit.              *)
(***************************************************************************)
LEMMA PartWithin ==
  ASSUME NEW S, IsFiniteSet(S), NEW T \in SUBSET S, NEW n \in Nat, Cardinality(S) <= n
  PROVE  Cardinality(T) <= n
<1>1. Cardinality(T) <= Cardinality(S) /\ Cardinality(S) \in Nat /\ Cardinality(T) \in Nat
  BY FS_Subset, FS_CardinalityType
<1> QED
  BY <1>1

(***************************************************************************)
(* A finite set below a limit may grow by one.                             *)
(***************************************************************************)
LEMMA OneMoreWithin ==
  ASSUME NEW S, IsFiniteSet(S), NEW e, NEW n \in Nat, ~ (Cardinality(S) >= n),
         NEW T \in SUBSET (S \union {e})
  PROVE  Cardinality(T) <= n
<1>1. Cardinality(S) \in Nat
  BY FS_CardinalityType
<1>2. IsFiniteSet(S \union {e}) /\ Cardinality(S \union {e}) <= Cardinality(S) + 1
  <2> DEFINE k == Cardinality(S \union {e})
  <2>1. /\ IsFiniteSet(S \union {e})
        /\ e \in S => k = Cardinality(S)
        /\ e \notin S => k = Cardinality(S) + 1
    BY FS_AddElement, Zenon
  <2> HIDE DEF k
  <2>2. k <= Cardinality(S) + 1
    BY <1>1, <2>1
  <2> QED
    BY <2>1, <2>2 DEF k
<1>3. Cardinality(S \union {e}) <= n
  BY <1>1, <1>2, FS_CardinalityType
<1> QED
  BY <1>2, <1>3, PartWithin
=============================================================================
