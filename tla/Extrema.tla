------------------------------ MODULE Extrema ------------------------------
(***************************************************************************)
(* Least and greatest elements of sets of natural numbers, and the size of *)
(* what is left when a finite set loses an element: facts the proofs about *)
(* the components share.                                                   *)
(***************************************************************************)
EXTENDS Integers, FiniteSetTheorems, WellFoundedInduction, TLAPS

(* A nonempty set of natural numbers has a least element.                   *)
LEMMA MinExists ==
  ASSUME NEW T \in SUBSET Nat, T # {}
  PROVE  \E i \in T : \A j \in T : i <= j
<1> DEFINE R == {p \in Nat \X Nat : p[1] < p[2]}
<1>1. IsWellFoundedOn(R, Nat)
  BY NatLessThanWellFounded DEF OpToRel
<1> HIDE DEF R
<1>2. PICK i \in T : \A j \in T : <<j, i>> \notin R
  BY <1>1, WFMin
<1> USE DEF R
<1>3. ASSUME NEW j \in T PROVE i <= j
  <2>1. <<j, i>> \in Nat \X Nat
    OBVIOUS
  <2>2. ~(j < i)
    BY <1>2, <2>1
  <2> QED
    BY <2>2
<1> QED
  BY <1>3

(* A nonempty set of natural numbers below a bound has a greatest element.  *)
LEMMA MaxExists ==
  ASSUME NEW n \in Nat, NEW T \in SUBSET (0 .. n), T # {}
  PROVE  \E i \in T : \A j \in T : j <= i
<1> DEFINE U == {n - i : i \in T}
<1>1. U \in SUBSET Nat
  OBVIOUS
<1>2. U # {}
  <2>1. PICK i \in T : TRUE
    OBVIOUS
  <2>2. n - i \in U
    OBVIOUS
  <2> QED
    BY <2>2
<1>3. PICK u \in U : \A v \in U : u <= v
  <2> HIDE DEF U
  <2> QED BY <1>1, <1>2, MinExists
<1>4. PICK i \in T : u = n - i
  OBVIOUS
<1>5. ASSUME NEW j \in T PROVE j <= i
  <2>1. n - j \in U
    OBVIOUS
  <2> QED
    BY <1>3, <1>4, <2>1
<1> QED
  BY <1>5
=============================================================================
