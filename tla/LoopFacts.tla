------------------------------ MODULE LoopFacts ------------------------------
(***************************************************************************)
(* Facts about positions in a list, for proofs about loops: the first one, *)
(* the last one, and induction along a loop, stated with a set.            *)
(***************************************************************************)
EXTENDS Integers, WellFoundedInduction, TLAPS

LEMMA LeastNat ==
  ASSUME NEW T, T \subseteq Nat, T # {}
  PROVE  \E x \in T : \A y \in T : x <= y
<1>1. IsWellFoundedOn(OpToRel(<, Nat), Nat)
  BY NatLessThanWellFounded
<1>2. PICK x \in T : \A y \in T : ~ (<<y, x>> \in OpToRel(<, Nat))
  BY <1>1, WFMin
<1>3. ASSUME NEW y \in T
      PROVE  x <= y
  <2>1. x \in Nat /\ y \in Nat
    OBVIOUS
  <2>2. y < x => <<y, x>> \in OpToRel(<, Nat)
    BY <2>1 DEF OpToRel
  <2>3. ~ (<<y, x>> \in OpToRel(<, Nat))
    BY <1>2, Zenon
  <2>4. ~ (y < x)
    BY <2>2, <2>3, Zenon
  <2> QED
    BY <2>1, <2>4
<1> QED
  BY <1>3

LEMMA GreatestIn ==
  ASSUME NEW n \in Nat, NEW T, T \subseteq 1..n, T # {}
  PROVE  \E x \in T : \A y \in T : y <= x
<1> DEFINE U == { n - t : t \in T }
<1>1. U \subseteq Nat /\ U # {}
  <2>1. ASSUME NEW t \in T
        PROVE  n - t \in Nat
    OBVIOUS
  <2> QED
    BY <2>1
<1>2. PICK u \in U : \A w \in U : u <= w
  BY <1>1, LeastNat
<1>3. PICK x \in T : u = n - x
  OBVIOUS
<1>4. ASSUME NEW y \in T
      PROVE  y <= x
  <2>1. n - x <= n - y
    BY <1>2, <1>3
  <2> QED
    BY <2>1
<1> QED
  BY <1>4

LEMMA LoopInduction ==
  ASSUME NEW n \in Nat, NEW S, 0 \in S, \A i \in 1..n : i - 1 \in S => i \in S
  PROVE  0..n \subseteq S
<1> SUFFICES ASSUME ~ (0..n \subseteq S)
             PROVE  FALSE
  OBVIOUS
<1> DEFINE T == (0..n) \ S
<1>1. T # {} /\ T \subseteq Nat
  OBVIOUS
<1>2. PICK x \in T : \A y \in T : x <= y
  BY <1>1, LeastNat
<1>3. x # 0 /\ x \in 1..n /\ x - 1 \in 0..n
  OBVIOUS
<1>4. x - 1 \in S
  BY <1>2, <1>3
<1> QED
  BY <1>3, <1>4
=============================================================================
