----------------------------- MODULE LoopLemmas -----------------------------
(* Induction up to a bound, and what a loop of the code computes: the facts  *)
(* from which the lemmas on recursive functions over sequences are proved.   *)
EXTENDS Integers, WellFoundedInduction, TLAPS

(* What holds at 0 and carries over from i - 1 to i holds up to the bound:  *)
(* a least counterexample would have a predecessor.                         *)
LEMMA UpTo ==
  ASSUME NEW N \in Nat, NEW S, 0 \in S, \A i \in 1..N : i - 1 \in S => i \in S
  PROVE  \A i \in 0..N : i \in S
<1> DEFINE T == (0..N) \ S
<1> SUFFICES ASSUME T # {} PROVE FALSE
  OBVIOUS
<1>1. T \subseteq Nat
  OBVIOUS
<1>2. \E x \in T : \A y \in T : ~(<<y, x>> \in OpToRel(<, Nat))
  <2> HIDE DEF T
  <2> QED  BY <1>1, NatLessThanWellFounded, WFMin
<1>3. PICK x \in T : \A y \in T : ~(<<y, x>> \in OpToRel(<, Nat))
  BY <1>2
<1>4. x \in 0..N /\ x \notin S /\ x # 0
  OBVIOUS
<1>5. x - 1 \in 0..N /\ x \in 1..N
  BY <1>4
<1>6. x - 1 \notin T
  <2>1. ASSUME NEW u \in Nat, NEW v \in Nat, u < v PROVE <<u, v>> \in OpToRel(<, Nat)
    BY <2>1, Zenon DEF OpToRel
  <2>2. x - 1 \in Nat /\ x \in Nat /\ x - 1 < x
    BY <1>5
  <2>3. <<x - 1, x>> \in OpToRel(<, Nat)
    BY <2>1, <2>2
  <2> QED  BY <1>3, <2>3, Zenon
<1> QED  BY <1>4, <1>5, <1>6

(* A run of a loop over 1..N: what its accumulator is after each round.     *)
IsRun(N, T, a, g, f) == f \in [0..N -> T] /\ f[0] = a /\ \A i \in 1..N : f[i] = g[i][f[i - 1]]

(* A loop that keeps its accumulator in T has a run.                        *)
LEMMA RunExists ==
  ASSUME NEW N \in Nat, NEW T, NEW a \in T, NEW g \in [1..N -> [T -> T]]
  PROVE  \E f : IsRun(N, T, a, g, f)
<1> DEFINE Run(n, f) == f[0] = a /\ \A i \in 1..n : f[i] = g[i][f[i - 1]]
           S == {n \in 0..N : \E f \in [0..n -> T] : Run(n, f)}
<1>1. 0 \in S
  <2>1. [i \in 0..0 |-> a] \in [0..0 -> T] /\ Run(0, [i \in 0..0 |-> a])
    OBVIOUS
  <2>2. \E f \in [0..0 -> T] : Run(0, f)
    <3> HIDE DEF Run
    <3> QED  BY <2>1
  <2> QED  BY <2>2
<1>2. ASSUME NEW n \in 1..N, n - 1 \in S PROVE n \in S
  <2>1. PICK f \in [0..(n - 1) -> T] : Run(n - 1, f)
    BY <1>2
  <2> DEFINE h == [i \in 0..n |-> IF i = n THEN g[n][f[n - 1]] ELSE f[i]]
  <2>2. f[n - 1] \in T
    OBVIOUS
  <2>3. g[n][f[n - 1]] \in T
    BY <2>2
  <2>4. h \in [0..n -> T]
    BY <2>3
  <2>5. ASSUME NEW i \in 1..n PROVE h[i] = g[i][h[i - 1]]
    <3>1. CASE i = n
      <4>1. h[n] = g[n][f[n - 1]] /\ h[n - 1] = f[n - 1]
        OBVIOUS
      <4> QED  BY <3>1, <4>1
    <3>2. CASE i # n
      <4>1. i \in 1..(n - 1) /\ i - 1 \in 0..(n - 1) /\ i - 1 # n
        BY <3>2
      <4>2. h[i] = f[i] /\ h[i - 1] = f[i - 1]
        BY <3>2, <4>1
      <4> QED  BY <2>1, <4>1, <4>2
    <3> QED  BY <3>1, <3>2
  <2>6. h[0] = a
    BY <2>1
  <2>7. Run(n, h)
    BY <2>5, <2>6
  <2> HIDE DEF h
  <2> QED  BY <2>4, <2>7
<1>3. N \in S
  <2> HIDE DEF S
  <2>1. \A i \in 0..N : i \in S
    BY <1>1, <1>2, UpTo
  <2> QED  BY <2>1
<1>4. PICK f \in [0..N -> T] : Run(N, f)
  <2> HIDE DEF Run
  <2> QED  BY <1>3
<1>5. IsRun(N, T, a, g, f)
  BY <1>4 DEF IsRun
<1> QED  BY <1>5

(* Of a set of numbers one is the least. *)
LEMMA LeastOf ==
  ASSUME NEW A, A \subseteq Nat, A # {}
  PROVE  \E x \in A : \A y \in A : x <= y
<1>1. \E x \in A : \A y \in A : ~(<<y, x>> \in OpToRel(<, Nat))
  BY NatLessThanWellFounded, WFMin
<1>2. ASSUME NEW u \in Nat, NEW v \in Nat, u < v PROVE <<u, v>> \in OpToRel(<, Nat)
  BY <1>2, Zenon DEF OpToRel
<1>3. PICK x \in A : \A y \in A : ~(<<y, x>> \in OpToRel(<, Nat))
  BY <1>1
<1>4. \A y \in A : ~(y < x)
  BY <1>2, <1>3
<1>5. \A y \in A : x <= y
  BY <1>4
<1> QED  BY <1>5

(* Of a bounded set of numbers one is the greatest. *)
LEMMA GreatestOf ==
  ASSUME NEW N \in Nat, NEW A, A \subseteq 0..N, A # {}
  PROVE  \E x \in A : \A y \in A : y <= x
<1>1. PICK B : B = {N - x : x \in A}
  OBVIOUS
<1>2. B \subseteq Nat /\ B # {}
  <2>1. ASSUME NEW x \in A PROVE N - x \in Nat
    <3>1. x \in 0..N
      OBVIOUS
    <3> QED  BY ONLY <3>1, N \in Nat
  <2> QED  BY <1>1, <2>1
<1>3. PICK b \in B : \A c \in B : b <= c
  BY <1>2, LeastOf
<1>4. PICK x \in A : b = N - x
  BY <1>1
<1>5. ASSUME NEW y \in A PROVE y <= x
  <2>1. N - y \in B
    BY <1>1
  <2>2. N - x <= N - y /\ x \in 0..N /\ y \in 0..N
    BY <1>3, <1>4, <2>1
  <2> QED  BY <2>2
<1> QED  BY <1>5
=============================================================================
