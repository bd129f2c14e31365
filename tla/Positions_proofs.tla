-------------------------- MODULE Positions_proofs --------------------------
(***************************************************************************)
(* Numbers, sets of them, and the places they take in these sets: what the *)
(* proofs about sequences need and the library states with operators only. *)
(***************************************************************************)
EXTENDS Positions, FiniteSetsExt, FiniteSetTheorems, TLAPS

-----------------------------------------------------------------------------
(* Induction.  The theorems of NaturalsInduction are about operators; a set
   does as well.  If n were outside, the members of 0 .. n outside would have
   their predecessors outside too, and not n among these: fewer than they are *)

LEMMA Induction ==
  ASSUME NEW S, 0 \in S, \A n \in Nat : n \in S => n + 1 \in S
  PROVE  Nat \subseteq S
<1> SUFFICES ASSUME NEW n \in Nat, n \notin S PROVE FALSE
  OBVIOUS
<1> DEFINE D == {m \in 0 .. n : m \notin S}
          f == [m \in D |-> m - 1]
<1>1. IsFiniteSet(D) /\ n \in D
  <2>1. IsFiniteSet(0 .. n) /\ D \subseteq 0 .. n /\ n \in D
    BY FS_Interval
  <2> HIDE DEF D
  <2> QED BY <2>1, FS_Subset
<1>2. IsFiniteSet(D \ {n}) /\ Cardinality(D) \in Nat /\ Cardinality(D \ {n}) = Cardinality(D) - 1
  BY <1>1, FS_RemoveElement, FS_CardinalityType
<1>3. f \in Injection(D, D \ {n})
  <2>1. ASSUME NEW m \in D PROVE m - 1 \in D \ {n}
    <3>1. m # 0
      OBVIOUS
    <3>2. m - 1 \in Nat /\ (m - 1) + 1 = m
      BY <3>1
    <3> QED BY <3>2
  <2> QED BY <2>1 DEF Injection, IsInjective
<1>4. Cardinality(D) <= Cardinality(D \ {n})
  <2> HIDE DEF D, f
  <2> QED BY <1>2, <1>3, FS_Injection
<1> QED BY <1>2, <1>4

\* A set of positions has a first
LEMMA First ==
  ASSUME NEW S \in SUBSET Nat, S # {}
  PROVE  \E i \in S : \A j \in S : i <= j
<1> DEFINE T == {n \in Nat : \A m \in Nat : m <= n => m \notin S}
<1> SUFFICES ASSUME \A i \in S : \E j \in S : j < i PROVE FALSE
  OBVIOUS
<1>1. 0 \in T
  <2>1. 0 \notin S
    OBVIOUS
  <2> QED BY <2>1
<1>2. ASSUME NEW n \in Nat, n \in T PROVE n + 1 \in T
  <2>1. n + 1 \notin S
    BY <1>2
  <2> QED BY <1>2, <2>1
<1>3. Nat \subseteq T
  <2> HIDE DEF T
  <2> QED BY <1>1, <1>2, Induction
<1>4. ASSUME NEW i \in S PROVE FALSE
  <2>1. i \in T
    <3> HIDE DEF T
    <3> QED BY <1>3
  <2> QED BY <2>1
<1> QED BY <1>4

\* Every place of a finite set of positions is taken by one of them
LEMMA NthExists ==
  ASSUME NEW S \in SUBSET Nat, IsFiniteSet(S)
  PROVE  /\ Cardinality(S) \in Nat
         /\ \A k \in 1 .. Cardinality(S) : Nth(k, S) \in S
         /\ \A i \in S : \E k \in 1 .. Cardinality(S) : Nth(k, S) = i
<1> DEFINE Below(i) == {j \in S : j <= i}
          rank == [i \in S |-> Cardinality(Below(i))]
<1>1. ASSUME NEW i \in S PROVE IsFiniteSet(Below(i)) /\ rank[i] \in 1 .. Cardinality(S)
  <2>1. IsFiniteSet(Below(i)) /\ Cardinality(Below(i)) <= Cardinality(S) /\ i \in Below(i)
    BY FS_Subset
  <2>2. Cardinality(Below(i)) \in Nat /\ Cardinality(S) \in Nat /\ Cardinality(Below(i)) # 0
    BY <2>1, FS_CardinalityType, FS_EmptySet
  <2> QED BY <2>1, <2>2
<1>2. ASSUME NEW i \in S, NEW j \in S, i < j PROVE rank[i] # rank[j]
  <2>0. i \in Nat /\ j \in Nat /\ \A k \in S : k \in Nat
    OBVIOUS
  <2>1. ASSUME NEW k \in Below(i) PROVE k \in Below(j)
    BY <1>2, <2>0
  <2>2. j \in Below(j) /\ j \notin Below(i)
    BY <1>2, <2>0
  <2>3. Below(i) \subseteq Below(j) /\ Below(i) # Below(j)
    BY <2>1, <2>2
  <2> QED BY <1>1, <2>3, FS_Subset
<1>3. rank \in Injection(S, 1 .. Cardinality(S))
  <2>1. \A i, j \in S : rank[i] = rank[j] => i = j
    BY <1>2
  <2>2. rank \in [S -> 1 .. Cardinality(S)]
    BY <1>1
  <2> HIDE DEF rank
  <2> QED BY <2>1, <2>2 DEF Injection, IsInjective
<1>4. rank \in Surjection(S, 1 .. Cardinality(S))
  <2>1. IsFiniteSet(1 .. Cardinality(S)) /\ Cardinality(1 .. Cardinality(S)) = Cardinality(S)
    BY FS_Interval, FS_CardinalityType
  <2> HIDE DEF rank
  <2> QED BY <1>3, <2>1, FS_Injection
<1>5. ASSUME NEW k \in 1 .. Cardinality(S) PROVE Nth(k, S) \in S /\ rank[Nth(k, S)] = k
  <2>1. \E i \in S : rank[i] = k
    <3> HIDE DEF rank
    <3> QED BY <1>4 DEF Surjection
  <2>2. \E i \in S : Cardinality({j \in S : j <= i}) = k
    BY <2>1
  <2> QED BY <2>2 DEF Nth
<1>6. ASSUME NEW i \in S PROVE Nth(rank[i], S) = i
  <2>1. rank[Nth(rank[i], S)] = rank[i] /\ Nth(rank[i], S) \in S
    BY <1>1, <1>5
  <2> HIDE DEF rank
  <2> QED BY <1>3, <2>1 DEF Injection, IsInjective
<1> QED BY <1>1, <1>5, <1>6, FS_CardinalityType

\* The least member of a set of numbers
LEMMA Least ==
  ASSUME NEW S \in SUBSET Nat, S # {}
  PROVE  Min(S) \in S /\ \A j \in S : Min(S) <= j
<1>1. \E i \in S : \A j \in S : i <= j
  BY First
<1> QED BY <1>1 DEF Min
=============================================================================
