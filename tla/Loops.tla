-------------------------------- MODULE Loops --------------------------------
(***************************************************************************)
(* What the proofs about loops need: induction over the natural numbers,   *)
(* that a loop over 1 .. n has a result, and that a set of numbers has a   *)
(* smallest.                                                               *)
(***************************************************************************)
EXTENDS Integers, WellFoundedInduction, TLAPS

\* Induction up to n.
LEMMA Induct ==
  ASSUME NEW n \in Nat, NEW S, 0 \in S, \A i \in 0 .. n - 1 : i \in S => i + 1 \in S
  PROVE  \A i \in 0 .. n : i \in S
<1> DEFINE T == {i \in 0 .. n : i \notin S}
           Less == {p \in Nat \X Nat : p[1] < p[2]}
<1> SUFFICES ASSUME T # {} PROVE FALSE
  OBVIOUS
<1>1. IsWellFoundedOn(Less, Nat)
  BY NatLessThanWellFounded DEF OpToRel
<1>2. T \subseteq Nat
  OBVIOUS
<1>3. PICK x \in T : \A y \in T : ~(<<y, x>> \in Less)
  <2> HIDE DEF T, Less
  <2> QED
    BY <1>1, <1>2, WFMin
<1>4. x \in Nat /\ x # 0 /\ x - 1 \in 0 .. n - 1 /\ x =< n /\ x \notin S
  OBVIOUS
<1>5. x - 1 \in S
  <2>1. SUFFICES ASSUME x - 1 \notin S PROVE FALSE
    OBVIOUS
  <2>2. x - 1 \in T /\ x - 1 < x /\ x - 1 \in Nat
    BY <1>4, <2>1
  <2> DEFINE y == x - 1
  <2>3. y \in T /\ y < x /\ y \in Nat /\ x \in Nat
    BY <1>4, <2>2
  <2> HIDE DEF y
  <2>4. <<y, x>> \in Less
    BY <2>3
  <2> QED
    BY <1>3, <2>3, <2>4
<1>6. (x - 1) + 1 \in S
  BY <1>4, <1>5
<1> QED
  BY <1>4, <1>6

\* g[i] is what i rounds of F make of t.
Rounds(n, F, t, g) == g[0] = t /\ \A i \in 1 .. n : g[i] = F[<<i, g[i - 1]>>]

\* A loop whose rounds stay within T has a result, and every round's is in T.
LEMMA LoopDefined ==
  ASSUME NEW n \in Nat, NEW T, NEW F \in [(1 .. n) \X T -> T], NEW t \in T
  PROVE  \E g \in [0 .. n -> T] : Rounds(n, F, t, g)
<1> DEFINE Upto(k, g) == g[0] = t /\ \A i \in 1 .. k : g[i] = F[<<i, g[i - 1]>>]
           S == {k \in 0 .. n : \E g \in [0 .. k -> T] : Upto(k, g)}
<1>1. 0 \in S
  <2> DEFINE h == [i \in 0 .. 0 |-> t]
  <2>1. h \in [0 .. 0 -> T] /\ h[0] = t
    OBVIOUS
  <2> HIDE DEF h
  <2>2. Upto(0, h)
    BY <2>1
  <2> QED
    BY <2>1, <2>2
<1>2. ASSUME NEW k \in 0 .. n - 1, k \in S
      PROVE  k + 1 \in S
  <2>1. k \in 0 .. n /\ k \in Nat /\ k + 1 \in 0 .. n /\ \E g \in [0 .. k -> T] : Upto(k, g)
    BY <1>2
  <2>0. PICK g \in [0 .. k -> T] : Upto(k, g)
    BY <2>1
  <2> DEFINE h == [i \in 0 .. k + 1 |-> IF i = k + 1 THEN F[<<k + 1, g[k]>>] ELSE g[i]]
  <2>2. F[<<k + 1, g[k]>>] \in T
    <3>1. g[k] \in T /\ k + 1 \in 1 .. n
      BY <2>0, <2>1
    <3>2. <<k + 1, g[k]>> \in (1 .. n) \X T
      BY <3>1
    <3> QED
      BY <3>2
  <2>3. h \in [0 .. k + 1 -> T]
    BY <2>1, <2>2
  <2>4. Upto(k + 1, h)
    <3>1. h[0] = t
      BY <2>0, <2>1
    <3>2. ASSUME NEW i \in 1 .. k + 1 PROVE h[i] = F[<<i, h[i - 1]>>]
      <4>1. h[i - 1] = g[i - 1]
        BY <2>1
      <4>2. CASE i = k + 1
        <5>1. i - 1 = k /\ h[i] = F[<<k + 1, g[k]>>]
          BY <2>1, <4>2
        <5> QED
          BY <4>1, <4>2, <5>1
      <4>3. CASE i # k + 1
        <5>1. i \in 1 .. k /\ h[i] = g[i]
          BY <2>1, <4>3
        <5> QED
          BY <2>0, <4>1, <5>1
      <4> QED
        BY <4>2, <4>3
    <3> QED
      BY <3>1, <3>2
  <2> HIDE DEF h
  <2> QED
    BY <2>1, <2>3, <2>4
<1> HIDE DEF S
<1>3. \A k \in 0 .. n : k \in S
  BY <1>1, <1>2, Induct
<1> QED
  BY <1>3 DEF S, Rounds

\* A set of natural numbers has a smallest.
LEMMA Lowest ==
  ASSUME NEW S \in SUBSET Nat, S # {}
  PROVE  \E x \in S : \A y \in S : x =< y
<1> DEFINE Less == {p \in Nat \X Nat : p[1] < p[2]}
<1>1. IsWellFoundedOn(Less, Nat)
  BY NatLessThanWellFounded DEF OpToRel
<1>2. PICK x \in S : \A y \in S : ~(<<y, x>> \in Less)
  <2> HIDE DEF Less
  <2> QED
    BY <1>1, WFMin
<1>3. ASSUME NEW y \in S PROVE x =< y
  <2>1. x \in Nat /\ y \in Nat /\ ~(<<y, x>> \in Less)
    BY <1>2, <1>3
  <2>2. ~(y < x)
    BY <2>1
  <2> QED
    BY <2>1, <2>2
<1> QED
  BY <1>3

=============================================================================
