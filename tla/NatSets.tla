------------------------------ MODULE NatSets ------------------------------
(***************************************************************************)
(* Sets of naturals: the least element, and induction, with a set in the   *)
(* place of the predicate that the library's theorems take as a parameter. *)
(***************************************************************************)
EXTENDS Integers, FiniteSetTheorems, WellFoundedInduction, TLAPS

(* A nonempty set of naturals has a least element: the sets of the numbers *)
(* below its members are finite, and the strict subset relation on finite  *)
(* sets is well founded.                                                   *)
LEMMA Least ==
  ASSUME NEW S \in SUBSET Nat, S # {}
  PROVE  \E x \in S : \A y \in S : x <= y
<1> DEFINE Below(k) == {j \in Nat : j < k}
           All == {Below(k) : k \in S}
           R == StrictSubsetOrdering(Nat)
<1>1. IsWellFoundedOn(R, FiniteSubsetsOf(Nat))
  BY FS_StrictSubsetOrderingWellFounded
<1>2. ASSUME NEW k \in S PROVE Below(k) \in FiniteSubsetsOf(Nat)
  <2>1. Below(k) \in SUBSET Nat /\ \A s \in Below(k) : s <= k
    OBVIOUS
  <2>2. IsFiniteSet(Below(k))
    <3>1. k \in Nat
      OBVIOUS
    <3> QED BY <2>1, <3>1, FS_BoundedSetOfNaturals
  <2> QED BY <2>1, <2>2 DEF FiniteSubsetsOf
<1>3. All \subseteq FiniteSubsetsOf(Nat) /\ All # {}
  BY <1>2
<1>4. PICK a \in All : \A b \in All : ~ (<<b, a>> \in R)
  <2> HIDE DEF All, R
  <2> QED BY <1>1, <1>3, WFMin
<1>5. PICK x \in S : a = Below(x)
  OBVIOUS
<1>6. ASSUME NEW y \in S PROVE x <= y
  <2> SUFFICES ASSUME y < x PROVE FALSE
    OBVIOUS
  <2>1. Below(y) \subseteq Below(x) /\ y \in Below(x) /\ y \notin Below(y)
    OBVIOUS
  <2>2. <<Below(y), Below(x)>> \in R
    BY <2>1 DEF StrictSubsetOrdering
  <2> QED BY <1>4, <1>5, <2>2
<1> QED BY <1>6

(* Induction on the naturals, for a set in the place of a predicate.       *)
LEMMA SetInduction ==
  ASSUME NEW S, 0 \in S, \A n \in Nat : n \in S => n + 1 \in S
  PROVE  Nat \subseteq S
<1> SUFFICES ASSUME Nat \ S # {} PROVE FALSE
  OBVIOUS
<1>1. PICK x \in Nat \ S : \A y \in Nat \ S : x <= y
  BY Least
<1>2. x # 0 /\ x - 1 \in Nat /\ x - 1 \in S
  BY <1>1
<1> QED BY <1>1, <1>2
=============================================================================
