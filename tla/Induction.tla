------------------------------ MODULE Induction ------------------------------
(***************************************************************************)
(* Induction on the natural numbers, as a fact about sets: the theorems of *)
(* NaturalsInduction have an operator for parameter, which the provers at  *)
(* hand cannot instantiate; the set of the numbers with a property is a    *)
(* constant like any other.  All of it rests on one library theorem, that  *)
(* < is well founded on Nat.                                               *)
(***************************************************************************)
EXTENDS Integers, WellFoundedInduction, TLAPS

\* A set of naturals that is not empty has a least member.
LEMMA Least ==
  ASSUME NEW S, S \subseteq Nat, S # {}
  PROVE  \E m \in S : \A k \in S : m <= k
<1>1. IsWellFoundedOn(OpToRel(<, Nat), Nat)
  BY NatLessThanWellFounded
<1>2. PICK m \in S : \A k \in S : ~(<<k, m>> \in OpToRel(<, Nat))
  BY <1>1, WFMin
<1>3. \A k \in S : ~(k < m)
  BY <1>2 DEF OpToRel
<1>4. \A k \in S : m <= k
  <2>1. \A j, k \in Nat : ~(k < j) => j <= k
    OBVIOUS
  <2> QED BY <1>3, <2>1
<1> QED BY <1>4

\* A set of naturals with an upper bound has a greatest member.
LEMMA Greatest ==
  ASSUME NEW S, S \subseteq Nat, S # {}, NEW bound \in Nat, \A k \in S : k <= bound
  PROVE  \E m \in S : \A k \in S : k <= m
<1> DEFINE T == {j \in Nat : bound - j \in S}
<1>1. T # {}
  <2>1. PICK k \in S : TRUE
    OBVIOUS
  <2>2. bound - k \in Nat /\ bound - (bound - k) = k
    OBVIOUS
  <2> QED BY <2>2
<1>2. PICK j \in T : \A i \in T : j <= i
  <2> HIDE DEF T
  <2>1. T \subseteq Nat
    BY DEF T
  <2> QED BY <1>1, <2>1, Least
<1>3. ASSUME NEW k \in S PROVE k <= bound - j
  <2>1. bound - k \in Nat /\ bound - (bound - k) = k
    OBVIOUS
  <2>2. j <= bound - k
    BY <1>2, <2>1
  <2> QED BY <2>2
<1> QED BY <1>3

\* A set with 0 and the successor of each of its members has all of Nat.
LEMMA Induct ==
  ASSUME NEW S, 0 \in S, \A k \in Nat : k \in S => k + 1 \in S
  PROVE  \A k \in Nat : k \in S
<1> SUFFICES ASSUME NEW x \in Nat, x \notin S PROVE FALSE
  OBVIOUS
<1> DEFINE T == {k \in Nat : k \notin S}
<1>1. PICK m \in T : \A k \in T : m <= k
  <2>1. T \subseteq Nat /\ T # {}
    OBVIOUS
  <2> HIDE DEF T
  <2> QED BY <2>1, Least
<1>2. m # 0 /\ m \in Nat
  OBVIOUS
<1>3. m - 1 \in Nat /\ ~(m <= m - 1) /\ m - 1 + 1 = m
  BY <1>2
<1>4. m - 1 \in S
  BY <1>1, <1>3
<1> QED BY <1>3, <1>4

\* The same up to a bound.
LEMMA InductTo ==
  ASSUME NEW S, NEW bound \in Nat, 0 \in S,
         \A k \in 0 .. bound - 1 : k \in S => k + 1 \in S
  PROVE  \A k \in 0 .. bound : k \in S
<1> DEFINE T == {k \in Nat : k <= bound => k \in S}
<1>1. 0 \in T
  OBVIOUS
<1>2. ASSUME NEW k \in Nat, k \in T PROVE k + 1 \in T
  <2>1. k + 1 <= bound => k \in 0 .. bound - 1 /\ k <= bound
    OBVIOUS
  <2> QED BY <1>2, <2>1
<1>3. \A k \in Nat : k \in T
  <2> HIDE DEF T
  <2> QED BY <1>1, <1>2, Induct
<1> QED BY <1>3
=============================================================================
