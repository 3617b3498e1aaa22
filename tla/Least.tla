------------------------------- MODULE Least -------------------------------
(***************************************************************************)
(* The least element of a set of numbers, which the searches of the        *)
(* programs and of the kernel return, and what follows from it about       *)
(* loops: induction, with the numbers for which a fact holds as a set, and *)
(* that a function defined from its value one before exists.               *)
(***************************************************************************)
EXTENDS Integers, WellFoundedInduction, TLAPS

\* A set of numbers that is not empty has a least element.
LEMMA LeastNat ==
  ASSUME NEW S, S \subseteq Nat, S # {}
  PROVE  \E m \in S : \A n \in S : m <= n
<1>1. IsWellFoundedOn(OpToRel(<, Nat), Nat)
  BY NatLessThanWellFounded
<1>2. PICK m \in S : \A n \in S : ~ (<<n, m>> \in OpToRel(<, Nat))
  BY <1>1, WFMin
<1>3. ASSUME NEW n \in S PROVE m <= n
  <2>1. ~ (n < m)
    BY <1>2, n \in Nat, m \in Nat DEF OpToRel
  <2> QED BY <2>1
<1> QED BY <1>3

\* A set with 0 that goes up to the next number goes up to the last.
LEMMA UpTo ==
  ASSUME NEW n \in Nat, NEW S, 0 \in S,
         \A i \in 1 .. n : i - 1 \in S => i \in S
  PROVE  \A i \in 0 .. n : i \in S
<1>1. SUFFICES ASSUME {i \in 0 .. n : i \notin S} # {} PROVE FALSE
  OBVIOUS
<1>2. PICK m \in {i \in 0 .. n : i \notin S} : \A i \in {j \in 0 .. n : j \notin S} : m <= i
  <2>1. {i \in 0 .. n : i \notin S} \subseteq Nat
    OBVIOUS
  <2> QED BY <1>1, <2>1, LeastNat
<1>3. m \in 1 .. n
  BY m # 0
<1>4. m - 1 \in 0 .. n /\ ~ (m <= m - 1)
  BY <1>3
<1>5. m - 1 \in S
  BY <1>2, <1>4
<1> QED BY <1>3, <1>5

\* What a loop over 1 .. n may do in its turns, and the values that it goes through
\* from base.
Turns(n, X) == [1 .. n -> [X -> X]]

Loop(n, X, base, turn, g) ==
  /\ g \in [0 .. n -> X]
  /\ g[0] = base /\ \A i \in 1 .. n : g[i] = turn[i][g[i - 1]]

\* A loop has values after each of its turns.
LEMMA LoopExists ==
  ASSUME NEW n \in Nat, NEW X, NEW base \in X, NEW turn \in Turns(n, X)
  PROVE  \E g : Loop(n, X, base, turn, g)
<1> USE DEF Turns
<1> DEFINE Values(k, g) ==
             /\ g \in [0 .. n -> X]
             /\ \A i \in 0 .. k : g[i] = IF i = 0 THEN base ELSE turn[i][g[i - 1]]
           S == {k \in 0 .. n : \E g : Values(k, g)}
<1>1. 0 \in S
  <2>1. PICK g : g = [i \in 0 .. n |-> base]
    OBVIOUS
  <2>2. Values(0, g)
    BY <2>1
  <2> HIDE DEF Values
  <2> QED BY <2>2
<1>2. ASSUME NEW k \in 1 .. n, k - 1 \in S PROVE k \in S
  <2>1. PICK g : Values(k - 1, g)
    BY <1>2
  <2>2. turn[k][g[k - 1]] \in X
    <3>1. g[k - 1] \in X
      BY <2>1
    <3> QED BY <3>1
  <2>3. PICK h : h = [g EXCEPT ![k] = turn[k][g[k - 1]]]
    OBVIOUS
  <2>4. h \in [0 .. n -> X] /\ h[k] = turn[k][g[k - 1]]
    BY <2>1, <2>2, <2>3
  <2>5. \A i \in 0 .. k - 1 : h[i] = g[i]
    BY <2>1, <2>3
  <2>6. ASSUME NEW i \in 0 .. k PROVE h[i] = IF i = 0 THEN base ELSE turn[i][h[i - 1]]
    <3>1. CASE i = k
      <4>1. h[k - 1] = g[k - 1]
        BY <2>5
      <4> QED BY <2>4, <3>1, <4>1
    <3>2. CASE i < k
      <4>1. i \in 0 .. k - 1 /\ (i # 0 => i - 1 \in 0 .. k - 1)
        BY <3>2
      <4> QED BY <2>1, <2>5, <4>1
    <3> QED BY <3>1, <3>2
  <2>7. Values(k, h)
    BY <2>4, <2>6
  <2> QED BY <2>7
<1> HIDE DEF S
<1>3. n \in S
  <2>1. \A i \in 1 .. n : i - 1 \in S => i \in S
    BY <1>2
  <2>2. \A i \in 0 .. n : i \in S
    BY ONLY <1>1, <2>1, n \in Nat, UpTo
  <2> QED BY <2>2
<1>4. PICK g : Values(n, g)
  BY <1>3 DEF S
<1> QED BY <1>4 DEF Loop
=============================================================================
