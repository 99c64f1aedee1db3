--------------------------- MODULE Iteration_proofs ---------------------------
(***************************************************************************)
(* Induction over the naturals, and what a loop computes.  A loop of the   *)
(* code is a recursive function over its rounds; every non-empty set of    *)
(* naturals has a least element, as naturals are well-founded, and so a    *)
(* set that holds 0 and is closed under + 1 holds them all.                *)
(***************************************************************************)
EXTENDS Integers, WellFoundedInduction, TLAPS

-----------------------------------------------------------------------------
(* Induction *)

\* A set of naturals has a least element.
LEMMA LeastOf ==
  ASSUME NEW T, T \subseteq Nat, T # {}
  PROVE  \E x \in T : \A y \in T : x <= y
  <1> DEFINE R == OpToRel(<, Nat)
  <1>1. IsWellFoundedOn(R, Nat)
    BY NatLessThanWellFounded
  <1>2. \A x, y \in Nat : y < x => <<y, x>> \in R
    BY DEF OpToRel
  <1> HIDE DEF R
  <1>3. PICK x \in T : \A y \in T : <<y, x>> \notin R
    BY <1>1, WFMin
  <1>4. \A y \in T : x \in Nat /\ y \in Nat /\ ~(y < x)
    BY <1>2, <1>3
  <1>5. \A y \in T : x <= y
    BY <1>4
  <1> QED
    BY <1>5

\* A set that holds 0 and the successor of each of its naturals holds them all.
LEMMA Induction ==
  ASSUME NEW S, 0 \in S, \A n \in Nat : n \in S => n + 1 \in S
  PROVE  Nat \subseteq S
  <1> SUFFICES ASSUME Nat \ S # {} PROVE FALSE
    OBVIOUS
  <1>1. PICK x \in Nat \ S : \A y \in Nat \ S : x <= y
    BY LeastOf
  <1>2. x # 0
    BY <1>1
  <1>3. x - 1 \in Nat /\ x - 1 \notin Nat \ S
    BY <1>1, <1>2
  <1> QED
    BY <1>1, <1>3

-----------------------------------------------------------------------------
(* Loops *)

\* g holds what there is after each of n rounds: b before the first, and after
\* round i what step[i] makes of what was there.
Rounds(b, step, n, g) == g = [i \in 0..n |-> IF i = 0 THEN b ELSE step[i][g[i - 1]]]

\* What holds before the first round and is kept by every round holds after each.
LEMMA Chain ==
  ASSUME NEW n \in Nat, NEW X, NEW h, h[0] \in X[0],
         \A i \in 1..n : h[i - 1] \in X[i - 1] => h[i] \in X[i]
  PROVE  \A i \in 0..n : h[i] \in X[i]
  <1> DEFINE S == {k \in Nat : k <= n => h[k] \in X[k]}
  <1>1. 0 \in S
    OBVIOUS
  <1>2. ASSUME NEW k \in Nat, k \in S PROVE k + 1 \in S
    <2>1. k + 1 <= n => k + 1 \in 1..n /\ k <= n /\ (k + 1) - 1 = k
      OBVIOUS
    <2>2. k + 1 <= n => h[k + 1] \in X[k + 1]
      BY <1>2, <2>1
    <2> QED
      BY <2>2
  <1>3. Nat \subseteq S
    <2> HIDE DEF S
    <2> QED
      BY <1>1, <1>2, Induction
  <1> QED
    BY <1>3

\* A loop whose rounds lead from X[i - 1] to X[i] has a value after each round.
LEMMA RoundsExist ==
  ASSUME NEW n \in Nat, NEW X, NEW b \in X[0], NEW step,
         \A i \in 1..n : \A x \in X[i - 1] : step[i][x] \in X[i]
  PROVE  \E g : Rounds(b, step, n, g) /\ \A i \in 0..n : g[i] \in X[i]
  <1> DEFINE S == {k \in Nat : k <= n => \E g : Rounds(b, step, k, g) /\ \A i \in 0..k : g[i] \in X[i]}
  <1>1. 0 \in S
    <2> DEFINE g == [i \in 0..0 |-> b]
    <2>1. Rounds(b, step, 0, g) /\ \A i \in 0..0 : g[i] \in X[i]
      BY DEF Rounds
    <2> HIDE DEF g
    <2> QED
      BY <2>1
  <1>2. ASSUME NEW k \in Nat, k \in S PROVE k + 1 \in S
    <2> SUFFICES ASSUME k + 1 <= n
                 PROVE  \E g : Rounds(b, step, k + 1, g) /\ \A i \in 0..(k + 1) : g[i] \in X[i]
      OBVIOUS
    <2>1. PICK g : Rounds(b, step, k, g) /\ \A i \in 0..k : g[i] \in X[i]
      BY <1>2
    <2> DEFINE h == [i \in 0..(k + 1) |-> IF i = k + 1 THEN step[k + 1][g[k]] ELSE g[i]]
    <2>2. ASSUME NEW i \in 0..(k + 1)
          PROVE  h[i] = (IF i = 0 THEN b ELSE step[i][h[i - 1]]) /\ h[i] \in X[i]
      <3>1. CASE i = k + 1
        <4>1. i # 0 /\ i \in 1..n /\ i - 1 = k /\ k \in 0..k /\ k \in 0..(k + 1) /\ k # k + 1
          BY <3>1
        <4>2. h[i] = step[i][g[k]] /\ h[k] = g[k] /\ g[k] \in X[k]
          BY <2>1, <3>1, <4>1
        <4>3. step[i][g[k]] \in X[i]
          BY <4>1, <4>2
        <4> QED
          BY <4>1, <4>2, <4>3
      <3>2. CASE i # k + 1
        <4>1. i \in 0..k /\ h[i] = g[i]
          BY <3>2
        <4>2. g[i] = IF i = 0 THEN b ELSE step[i][g[i - 1]]
          BY <2>1, <4>1 DEF Rounds
        <4>3. i # 0 => i - 1 \in 0..(k + 1) /\ i - 1 # k + 1 /\ h[i - 1] = g[i - 1]
          BY <4>1
        <4> QED
          BY <2>1, <4>1, <4>2, <4>3
      <3> QED
        BY <3>1, <3>2
    <2>3. Rounds(b, step, k + 1, h) /\ \A i \in 0..(k + 1) : h[i] \in X[i]
      <3> HIDE DEF h
      <3>1. h = [i \in 0..(k + 1) |-> h[i]]
        BY DEF h
      <3> QED
        BY <2>2, <3>1 DEF Rounds
    <2> QED
      BY <2>3
  <1>3. Nat \subseteq S
    <2> HIDE DEF S
    <2> QED
      BY <1>1, <1>2, Induction
  <1> QED
    BY <1>3

\* The same for rounds that stay in one set.
LEMMA RoundsIn ==
  ASSUME NEW n \in Nat, NEW Y, NEW b \in Y, NEW step,
         \A i \in 1..n : \A x \in Y : step[i][x] \in Y
  PROVE  \E g : Rounds(b, step, n, g) /\ \A i \in 1..n : g[i - 1] \in Y
  <1> DEFINE X == [i \in 0..n |-> Y]
  <1>1. b \in X[0] /\ \A i \in 1..n : \A x \in X[i - 1] : step[i][x] \in X[i]
    <2>1. 0 \in 0..n /\ \A i \in 1..n : i \in 0..n /\ i - 1 \in 0..n
      OBVIOUS
    <2> QED
      BY <2>1
  <1>2. \A i \in 0..n : X[i] = Y
    OBVIOUS
  <1> HIDE DEF X
  <1>3. PICK g : Rounds(b, step, n, g) /\ \A i \in 0..n : g[i] \in X[i]
    BY <1>1, RoundsExist
  <1>4. \A i \in 1..n : i - 1 \in 0..n
    OBVIOUS
  <1> QED
    BY <1>2, <1>3, <1>4
=============================================================================
