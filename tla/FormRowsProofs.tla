--------------------------- MODULE FormRowsProofs ---------------------------
(* The rows of the forms list, for any forms and references: what filters,  *)
(* flattening and emit_form return, and that the tree of forms shows every  *)
(* form, whatever cycles and references into other form sets there are, and *)
(* keeps a selected row or the one that was folded over it.                 *)
EXTENDS FormRows, LoopLemmas, FiniteSetTheorems

(***************************************************************************)
(* Filters.                                                                *)
(***************************************************************************)
(* Picked is the result of the loop over the places. *)
LEMMA PickedRun ==
  ASSUME NEW T, NEW s \in Seq(T), NEW I
  PROVE  \E f \in [0..Len(s) -> Seq(T)] :
           /\ f[0] = <<>> /\ \A i \in 1..Len(s) : f[i] = WithPlace(f[i - 1], s, I, i)
           /\ Picked(s, I) = f[Len(s)]
<1> DEFINE N == Len(s)
           A == Seq(T)
           g == [i \in 1..N |-> [x \in A |-> WithPlace(x, s, I, i)]]
           Body(f) == [i \in 0..N |-> IF i = 0 THEN <<>> ELSE WithPlace(f[i - 1], s, I, i)]
<1>0. N \in Nat /\ <<>> \in A
  OBVIOUS
<1>1. ASSUME NEW i \in 1..N, NEW x \in A PROVE WithPlace(x, s, I, i) \in A
  BY DEF WithPlace
<1>2. g \in [1..N -> [A -> A]]
  <2> HIDE DEF A, N
  <2> QED  BY <1>1
<1>3. PICK f \in [0..N -> A] : f[0] = <<>> /\ \A i \in 1..N : f[i] = g[i][f[i - 1]]
  <2> HIDE DEF g, N, A
  <2>1. \E h : IsRun(N, A, <<>>, g, h)
    BY <1>0, <1>2, RunExists
  <2> QED  BY <2>1 DEF IsRun
<1>4. f = Body(f)
  <2>1. ASSUME NEW i \in 1..N PROVE f[i] = WithPlace(f[i - 1], s, I, i)
    <3>1. f[i - 1] \in A
      OBVIOUS
    <3> QED  BY <1>3, <3>1
  <2> HIDE DEF A
  <2> QED  BY <1>3, <2>1
<1>5. PICK F : F = CHOOSE h : h = Body(h)
  OBVIOUS
<1>6. F = Body(F)
  <2> HIDE DEF Body
  <2> QED  BY <1>4, <1>5, Zenon
<1>7. Picked(s, I) = F[N]
  BY <1>5 DEF Picked
<1>8. F[0] = <<>> /\ \A i \in 1..N : F[i] = WithPlace(F[i - 1], s, I, i)
  BY <1>0, <1>6
<1>9. \A i \in 0..N : F[i] \in A
  <2> DEFINE Typed == {i \in 0..N : F[i] \in A}
  <2>1. 0 \in Typed
    <3>1. 0 \in 0..N /\ F[0] \in A
      <4> HIDE DEF A, N
      <4> QED  BY <1>0, <1>8
    <3> QED  BY <3>1
  <2>2. ASSUME NEW i \in 1..N, i - 1 \in Typed PROVE i \in Typed
    <3>1. F[i - 1] \in A /\ F[i] = WithPlace(F[i - 1], s, I, i)
      BY <1>8, <2>2
    <3>2. i \in 0..N /\ F[i] \in A
      <4> HIDE DEF A
      <4> QED  BY <1>1, <3>1
    <3> QED  BY <3>2
  <2>3. \A i \in 0..N : i \in Typed
    <3> HIDE DEF Typed
    <3> QED  BY <1>0, <2>1, <2>2, UpTo
  <2> QED  BY <2>3
<1>10. F \in [0..N -> A]
  BY <1>6, <1>9
<1> QED  BY <1>7, <1>8, <1>10

(* How many of the places I are among the first k. *)
Count(I, k) == Cardinality(I \cap 1..k)

(* Counting one place at a time. *)
LEMMA CountStep ==
  ASSUME NEW I
  PROVE  /\ Count(I, 0) = 0
         /\ \A k \in Nat : Count(I, k) \in Nat
         /\ \A k \in Nat \ {0} : Count(I, k) = IF k \in I THEN Count(I, k - 1) + 1 ELSE Count(I, k - 1)
<1>1. Count(I, 0) = 0
  <2>1. I \cap 1..0 = {}
    OBVIOUS
  <2> QED  BY <2>1, FS_EmptySet DEF Count
<1>2. ASSUME NEW k \in Nat PROVE IsFiniteSet(I \cap 1..k) /\ Count(I, k) \in Nat
  <2>1. IsFiniteSet(1..k)
    BY FS_Interval
  <2>2. IsFiniteSet(I \cap 1..k)
    BY <2>1, FS_Subset
  <2> QED  BY <2>2, FS_CardinalityType DEF Count
<1>3. ASSUME NEW k \in Nat \ {0}
      PROVE  Count(I, k) = IF k \in I THEN Count(I, k - 1) + 1 ELSE Count(I, k - 1)
  <2>1. k - 1 \in Nat
    OBVIOUS
  <2>2. CASE k \in I
    <3>1. I \cap 1..k = (I \cap 1..(k - 1)) \cup {k} /\ k \notin I \cap 1..(k - 1)
      BY <2>2
    <3>2. IsFiniteSet(I \cap 1..(k - 1))
      BY <1>2, <2>1
    <3>3. Cardinality((I \cap 1..(k - 1)) \cup {k}) = Cardinality(I \cap 1..(k - 1)) + 1
      BY <3>1, <3>2, FS_AddElement
    <3> QED  BY <2>2, <3>1, <3>3 DEF Count
  <2>3. CASE k \notin I
    <3>1. I \cap 1..k = I \cap 1..(k - 1)
      BY <2>3
    <3> QED  BY <2>3, <3>1 DEF Count
  <2> QED  BY <2>2, <2>3
<1> QED  BY <1>1, <1>2, <1>3

(* More places count more. *)
LEMMA CountMore ==
  ASSUME NEW I, NEW J, NEW k \in Nat, NEW n \in Nat, I \cap 1..k \subseteq J \cap 1..n
  PROVE  Count(I, k) <= Count(J, n)
<1>1. IsFiniteSet(1..n)
  BY FS_Interval
<1>2. IsFiniteSet(J \cap 1..n)
  BY <1>1, FS_Subset
<1> QED  BY <1>2, FS_Subset DEF Count

(* A filter keeps the elements at its places, each at the number of places  *)
(* up to its own.                                                           *)
LEMMA PickedFacts ==
  ASSUME NEW T, NEW s \in Seq(T), NEW I, NEW r, r = Picked(s, I)
  PROVE  /\ r \in Seq(T) /\ Len(r) = Count(I, Len(s))
         /\ \A m \in 1..Len(r) : \E k \in 1..Len(s) : k \in I /\ r[m] = s[k] /\ Count(I, k) = m
         /\ \A k \in 1..Len(s) : k \in I => Count(I, k) \in 1..Len(r) /\ r[Count(I, k)] = s[k]
<1>1. PICK f \in [0..Len(s) -> Seq(T)] :
           /\ f[0] = <<>> /\ \A i \in 1..Len(s) : f[i] = WithPlace(f[i - 1], s, I, i)
           /\ Picked(s, I) = f[Len(s)]
  BY PickedRun
<1>2. PICK N \in Nat : N = Len(s)
  OBVIOUS
<1>0. /\ Count(I, 0) = 0
      /\ \A k \in Nat : Count(I, k) \in Nat
      /\ \A k \in Nat \ {0} : Count(I, k) = IF k \in I THEN Count(I, k - 1) + 1 ELSE Count(I, k - 1)
  BY CountStep, Zenon
<1>3. PICK C \in [0..N -> Nat] : \A k \in 0..N : C[k] = Count(I, k)
  <2>1. [k \in 0..N |-> Count(I, k)] \in [0..N -> Nat]
    BY <1>0
  <2> QED  BY <2>1
<1>4. C[0] = 0 /\ \A k \in 1..N : C[k] = IF k \in I THEN C[k - 1] + 1 ELSE C[k - 1]
  <2>1. C[0] = 0
    BY <1>0, <1>3
  <2>2. ASSUME NEW k \in 1..N PROVE C[k] = IF k \in I THEN C[k - 1] + 1 ELSE C[k - 1]
    <3>1. k \in Nat \ {0} /\ k \in 0..N /\ k - 1 \in 0..N
      OBVIOUS
    <3>2. C[k] = Count(I, k) /\ C[k - 1] = Count(I, k - 1)
      BY <1>3, <3>1
    <3>3. Count(I, k) = IF k \in I THEN Count(I, k - 1) + 1 ELSE Count(I, k - 1)
      BY ONLY <1>0, <3>1
    <3> QED  BY <3>2, <3>3
  <2> QED  BY <2>1, <2>2
<1> DEFINE Fine(q, i) == /\ Len(q) = C[i]
                         /\ \A m \in 1..C[i] : \E k \in 1..i : k \in I /\ q[m] = s[k] /\ C[k] = m
                         /\ \A k \in 1..i : k \in I => C[k] \in 1..C[i] /\ q[C[k]] = s[k]
           D == {i \in 0..N : Fine(f[i], i)}
<1>5. 0 \in D
  <2>1. f[0] = <<>> /\ C[0] = 0
    BY <1>1, <1>4
  <2>2. Fine(f[0], 0)
    BY <2>1
  <2> HIDE DEF Fine
  <2> QED  BY <2>2
<1>6. ASSUME NEW i \in 1..N, i - 1 \in D PROVE i \in D
  <2>1. PICK q \in Seq(T) : q = f[i - 1]
    <3>1. i - 1 \in 0..Len(s)
      BY <1>2
    <3>2. f[i - 1] \in Seq(T)
      BY <3>1
    <3> QED  BY <3>2
  <2>2. Fine(q, i - 1) /\ i - 1 \in 0..N
    BY <1>6, <2>1
  <2>3. f[i] = WithPlace(q, s, I, i)
    BY <1>1, <1>2, <2>1
  <2>4. CASE i \notin I
    <3>1. f[i] = q /\ C[i] = C[i - 1]
      BY <1>4, <2>3, <2>4 DEF WithPlace
    <3>2. Fine(q, i)
      <4>1. ASSUME NEW m \in 1..C[i] PROVE \E k \in 1..i : k \in I /\ q[m] = s[k] /\ C[k] = m
        <5>1. PICK k \in 1..(i - 1) : k \in I /\ q[m] = s[k] /\ C[k] = m
          BY <2>2, <3>1
        <5>2. k \in 1..i
          OBVIOUS
        <5> QED  BY <5>1, <5>2
      <4>2. ASSUME NEW k \in 1..i, k \in I PROVE C[k] \in 1..C[i] /\ q[C[k]] = s[k]
        <5>1. k \in 1..(i - 1)
          BY <2>4, <4>2
        <5> QED  BY <2>2, <3>1, <4>2, <5>1
      <4> QED  BY <2>2, <3>1, <4>1, <4>2
    <3> HIDE DEF Fine
    <3> QED  BY <3>1, <3>2
  <2>5. CASE i \in I
    <3>1. PICK p : p = Append(q, s[i])
      OBVIOUS
    <3>2. s[i] \in T
      BY <1>2
    <3>3. PICK n \in Nat : n = C[i - 1]
      BY <1>3, <2>2
    <3>4. Len(q) = n
      BY <2>2, <3>3
    <3>5. Len(p) = n + 1 /\ p[n + 1] = s[i] /\ \A m \in 1..n : p[m] = q[m]
      BY <3>1, <3>2, <3>4
    <3>6. f[i] = p /\ C[i] = n + 1
      BY <1>4, <2>3, <2>5, <3>1, <3>3 DEF WithPlace
    <3>7. Fine(p, i)
      <4>1. ASSUME NEW m \in 1..C[i] PROVE \E k \in 1..i : k \in I /\ p[m] = s[k] /\ C[k] = m
        <5>1. CASE m = n + 1
          <6>1. i \in 1..i /\ p[m] = s[i] /\ C[i] = m
            BY <3>5, <3>6, <5>1
          <6> QED  BY <2>5, <6>1
        <5>2. CASE m # n + 1
          <6>1. m \in 1..n
            BY <3>6, <5>2
          <6>2. PICK k \in 1..(i - 1) : k \in I /\ q[m] = s[k] /\ C[k] = m
            BY <2>2, <3>3, <6>1
          <6>3. k \in 1..i /\ p[m] = s[k]
            BY <3>5, <6>1, <6>2
          <6> QED  BY <6>2, <6>3
        <5> QED  BY <5>1, <5>2
      <4>2. ASSUME NEW k \in 1..i, k \in I PROVE C[k] \in 1..C[i] /\ p[C[k]] = s[k]
        <5>1. CASE k = i
          <6>1. n + 1 \in 1..(n + 1)
            OBVIOUS
          <6> QED  BY <3>5, <3>6, <5>1, <6>1
        <5>2. CASE k # i
          <6>1. k \in 1..(i - 1)
            BY <5>2
          <6>2. C[k] \in 1..n /\ q[C[k]] = s[k]
            BY <2>2, <3>3, <4>2, <6>1
          <6>3. C[k] \in 1..(n + 1)
            BY <6>2
          <6> QED  BY <3>5, <3>6, <6>2, <6>3
        <5> QED  BY <5>1, <5>2
      <4> QED  BY <3>5, <3>6, <4>1, <4>2
    <3> HIDE DEF Fine
    <3> QED  BY <3>6, <3>7
  <2> QED  BY <2>4, <2>5
<1>7. N \in D
  <2> HIDE DEF D
  <2>1. \A i \in 0..N : i \in D
    BY <1>5, <1>6, UpTo
  <2> QED  BY <2>1
<1>8. Fine(r, N) /\ r \in Seq(T)
  <2> HIDE DEF Fine
  <2> QED  BY <1>1, <1>2, <1>7
<1>9. C[N] = Count(I, N) /\ \A k \in 1..N : C[k] = Count(I, k)
  BY <1>3
<1> QED  BY <1>2, <1>8, <1>9

(* What is in a filtered sequence. *)
LEMMA PickedRange ==
  ASSUME NEW T, NEW s \in Seq(T), NEW I
  PROVE  /\ Picked(s, I) \in Seq(T)
         /\ \A x : x \in Range(Picked(s, I)) <=> \E k \in 1..Len(s) : k \in I /\ x = s[k]
<1>1. PICK r : r = Picked(s, I)
  OBVIOUS
<1>2. /\ r \in Seq(T)
      /\ \A m \in 1..Len(r) : \E k \in 1..Len(s) : k \in I /\ r[m] = s[k]
      /\ \A k \in 1..Len(s) : k \in I => \E m \in 1..Len(r) : r[m] = s[k]
  BY <1>1, PickedFacts
<1>3. DOMAIN r = 1..Len(r)
  BY <1>2
<1>4. ASSUME NEW x PROVE x \in Range(r) <=> \E k \in 1..Len(s) : k \in I /\ x = s[k]
  BY <1>2, <1>3 DEF Range
<1> QED  BY <1>1, <1>2, <1>4

(* Each element once, and none is lost. *)
LEMMA DistinctRange ==
  ASSUME NEW T, NEW s \in Seq(T)
  PROVE  Distinct(s) \in Seq(T) /\ Range(Distinct(s)) = Range(s)
<1>1. PICK I : I = {i \in DOMAIN s : \A j \in 1..(i - 1) : s[j] # s[i]}
  OBVIOUS
<1>2. Distinct(s) = Picked(s, I)
  BY <1>1 DEF Distinct
<1>3. /\ Picked(s, I) \in Seq(T)
      /\ \A x : x \in Range(Picked(s, I)) <=> \E k \in 1..Len(s) : k \in I /\ x = s[k]
  BY PickedRange
<1>4. DOMAIN s = 1..Len(s) /\ Len(s) \in Nat
  OBVIOUS
<1>5. ASSUME NEW x \in Range(s) PROVE \E k \in 1..Len(s) : k \in I /\ x = s[k]
  <2>1. PICK A : A = {k \in 1..Len(s) : s[k] = x}
    OBVIOUS
  <2>2. A # {} /\ A \subseteq Nat
    BY <1>4, <2>1 DEF Range
  <2>3. PICK k \in A : \A j \in A : k <= j
    BY <2>2, LeastOf
  <2>4. k \in 1..Len(s) /\ s[k] = x
    BY <2>1
  <2>5. ASSUME NEW j \in 1..(k - 1) PROVE s[j] # s[k]
    <3>1. j \in 1..Len(s) /\ ~(k <= j)
      BY <1>4, <2>4
    <3> QED  BY <2>1, <2>3, <2>4, <3>1
  <2>6. k \in I
    BY <1>1, <1>4, <2>4, <2>5
  <2> QED  BY <2>4, <2>6
<1>6. ASSUME NEW x, NEW k \in 1..Len(s), x = s[k] PROVE x \in Range(s)
  BY <1>4, <1>6 DEF Range
<1> QED  BY <1>2, <1>3, <1>5, <1>6

(***************************************************************************)
(* Flattening.                                                             *)
(***************************************************************************)
(* FlattenSeq is the result of the loop over the sequences. *)
LEMMA FlattenRun ==
  ASSUME NEW T, NEW ss \in Seq(Seq(T)), Len(ss) # 0
  PROVE  \E f \in [1..Len(ss) -> Seq(T)] :
           /\ f[1] = ss[1] /\ \A i \in 2..Len(ss) : f[i] = f[i - 1] \o ss[i]
           /\ FlattenSeq(ss) = f[Len(ss)]
<1>1. PICK N \in Nat : N = Len(ss)
  OBVIOUS
<1>2. N # 0 /\ 1 \in 1..N /\ \A i \in 1..N : ss[i] \in Seq(T)
  BY <1>1
<1>3. PICK A : A = Seq(T)
  OBVIOUS
<1> DEFINE g == [i \in 1..N |-> [x \in A |-> IF i = 1 THEN ss[1] ELSE x \o ss[i]]]
           Body(f) == [i \in 1..N |-> IF i = 1 THEN ss[i] ELSE f[i - 1] \o ss[i]]
<1>4. ASSUME NEW i \in 1..N, NEW x \in A PROVE (IF i = 1 THEN ss[1] ELSE x \o ss[i]) \in A
  BY <1>2, <1>3
<1>5. g \in [1..N -> [A -> A]] /\ <<>> \in A
  BY <1>3, <1>4
<1>6. PICK h \in [0..N -> A] : \A i \in 1..N : h[i] = g[i][h[i - 1]]
  <2> HIDE DEF g
  <2>1. \E h : IsRun(N, A, <<>>, g, h)
    BY <1>5, RunExists
  <2> QED  BY <2>1 DEF IsRun
<1>7. PICK f : f = [i \in 1..N |-> h[i]]
  OBVIOUS
<1>8. \A i \in 1..N : f[i] = IF i = 1 THEN ss[1] ELSE f[i - 1] \o ss[i]
  <2> SUFFICES ASSUME NEW i \in 1..N PROVE f[i] = IF i = 1 THEN ss[1] ELSE f[i - 1] \o ss[i]
    OBVIOUS
  <2>1. h[i - 1] \in A /\ f[i] = h[i] /\ h[i] = g[i][h[i - 1]]
    <3> HIDE DEF g
    <3>1. i - 1 \in 0..N
      OBVIOUS
    <3>2. f[i] = h[i]
      BY <1>7
    <3> QED  BY <1>6, <3>1, <3>2
  <2>2. h[i] = IF i = 1 THEN ss[1] ELSE h[i - 1] \o ss[i]
    BY <2>1
  <2>3. i # 1 => f[i - 1] = h[i - 1]
    BY <1>7
  <2> HIDE DEF g
  <2> QED  BY <2>1, <2>2, <2>3
<1>9. f = Body(f)
  <2>1. f = [i \in 1..N |-> f[i]]
    BY <1>7
  <2>2. \A i \in 1..N : f[i] = IF i = 1 THEN ss[i] ELSE f[i - 1] \o ss[i]
    BY <1>8
  <2> HIDE DEF g
  <2> QED  BY <2>1, <2>2
<1>10. PICK F : F = CHOOSE u : u = Body(u)
  OBVIOUS
<1>11. F = Body(F)
  <2> HIDE DEF Body
  <2> QED  BY <1>9, <1>10, Zenon
<1>12. FlattenSeq(ss) = F[N]
  BY <1>1, <1>2, <1>10 DEF FlattenSeq
<1>13. F[1] = ss[1] /\ \A i \in 2..N : F[i] = F[i - 1] \o ss[i]
  <2> HIDE DEF g
  <2>1. \A i \in 1..N : F[i] = IF i = 1 THEN ss[i] ELSE F[i - 1] \o ss[i]
    BY <1>11
  <2>2. F[1] = ss[1]
    BY <1>2, <2>1
  <2>3. ASSUME NEW i \in 2..N PROVE F[i] = F[i - 1] \o ss[i]
    <3>1. i \in 1..N /\ i # 1
      OBVIOUS
    <3> QED  BY ONLY <2>1, <3>1
  <2> QED  BY <2>2, <2>3
<1>14. \A i \in 1..N : F[i] \in A
  <2> DEFINE Typed == {0} \cup {i \in 1..N : F[i] \in A}
  <2>1. 0 \in Typed
    OBVIOUS
  <2>2. ASSUME NEW i \in 1..N, i - 1 \in Typed PROVE i \in Typed
    <3>1. CASE i = 1
      BY <1>2, <1>3, <1>13, <3>1
    <3>2. CASE i # 1
      <4>1. i \in 2..N /\ F[i - 1] \in A
        BY <2>2, <3>2
      <4>2. F[i] \in A
        <5>1. ss[i] \in Seq(T) /\ F[i - 1] \in Seq(T) /\ F[i] = F[i - 1] \o ss[i]
          BY ONLY <1>2, <1>3, <1>13, <4>1, i \in 1..N
        <5>2. F[i] \in Seq(T)
          BY ONLY <5>1
        <5> QED  BY <1>3, <5>2
      <4> QED  BY <4>2
    <3> QED  BY <3>1, <3>2
  <2>3. \A i \in 0..N : i \in Typed
    <3> HIDE DEF Typed
    <3> QED  BY <2>1, <2>2, UpTo
  <2>4. ASSUME NEW i \in 1..N PROVE F[i] \in A
    <3>1. i \in Typed /\ i # 0
      BY <2>3
    <3> QED  BY <3>1
  <2> QED  BY <2>4
<1>15. F \in [1..N -> A]
  BY <1>11, <1>14
<1> QED  BY <1>1, <1>3, <1>12, <1>13, <1>15

(* Everything in one sequence of two. *)
LEMMA JoinedRange ==
  ASSUME NEW T, NEW p \in Seq(T), NEW q \in Seq(T)
  PROVE  p \o q \in Seq(T) /\ Range(p \o q) = Range(p) \cup Range(q)
<1>1. PICK r : r = p \o q
  OBVIOUS
<1>2. PICK m \in Nat, n \in Nat : m = Len(p) /\ n = Len(q)
  OBVIOUS
<1>3. /\ r \in Seq(T) /\ DOMAIN r = 1..(m + n) /\ DOMAIN p = 1..m /\ DOMAIN q = 1..n
      /\ \A i \in 1..m : r[i] = p[i]
      /\ \A i \in 1..n : r[m + i] = q[i]
      /\ \A i \in 1..(m + n) : i > m => r[i] = q[i - m]
  BY <1>1, <1>2
<1>4. ASSUME NEW x \in Range(r) PROVE x \in Range(p) \cup Range(q)
  <2>1. PICK i \in 1..(m + n) : r[i] = x
    BY <1>3, <1>4 DEF Range
  <2>2. CASE i <= m
    <3>1. i \in 1..m
      BY <2>2
    <3> QED  BY <1>3, <2>1, <3>1 DEF Range
  <2>3. CASE i > m
    <3>1. i - m \in 1..n
      BY <2>3
    <3> QED  BY <1>3, <2>1, <2>3, <3>1 DEF Range
  <2> QED  BY <2>2, <2>3
<1>5. ASSUME NEW x \in Range(p) PROVE x \in Range(r)
  <2>1. PICK i \in 1..m : p[i] = x
    BY <1>3, <1>5 DEF Range
  <2>2. i \in 1..(m + n)
    OBVIOUS
  <2> QED  BY <1>3, <2>1, <2>2 DEF Range
<1>6. ASSUME NEW x \in Range(q) PROVE x \in Range(r)
  <2>1. PICK i \in 1..n : q[i] = x
    BY <1>3, <1>6 DEF Range
  <2>2. m + i \in 1..(m + n)
    OBVIOUS
  <2> QED  BY <1>3, <2>1, <2>2 DEF Range
<1> QED  BY <1>1, <1>3, <1>4, <1>5, <1>6

(* Everything in one of the flattened sequences. *)
LEMMA FlattenRange ==
  ASSUME NEW T, NEW ss \in Seq(Seq(T))
  PROVE  /\ FlattenSeq(ss) \in Seq(T)
         /\ \A x : x \in Range(FlattenSeq(ss)) <=> \E i \in 1..Len(ss) : x \in Range(ss[i])
<1>1. PICK N \in Nat : N = Len(ss)
  OBVIOUS
<1>2. CASE N = 0
  <2>1. ss = <<>> /\ FlattenSeq(ss) = ss
    <3>1. Len(ss) = 0
      BY <1>1, <1>2
    <3>2. FlattenSeq(ss) = ss
      BY <3>1, Zenon DEF FlattenSeq
    <3> QED  BY <3>1, <3>2
  <2>2. Range(ss) = {} /\ 1..Len(ss) = {}
    BY <2>1 DEF Range
  <2>3. ss \in Seq(T)
    BY <2>1
  <2> QED  BY <2>1, <2>2, <2>3
<1>3. CASE N # 0
  <2>1. PICK f \in [1..N -> Seq(T)] :
           /\ f[1] = ss[1] /\ \A i \in 2..N : f[i] = f[i - 1] \o ss[i]
           /\ FlattenSeq(ss) = f[N]
    BY <1>1, <1>3, FlattenRun
  <2>2. \A i \in 1..N : ss[i] \in Seq(T)
    BY <1>1
  <2> DEFINE Holds(i) == \A x : x \in Range(f[i]) <=> \E j \in 1..i : x \in Range(ss[j])
             D == {0} \cup {i \in 1..N : Holds(i)}
  <2>3. ASSUME NEW i \in 1..N, i - 1 \in D PROVE i \in D
    <3>1. CASE i = 1
      <4>1. \A j \in 1..1 : j = 1
        OBVIOUS
      <4>2. 1 \in 1..1
        OBVIOUS
      <4>3. Holds(1)
        BY <2>1, <4>1, <4>2
      <4> HIDE DEF Holds
      <4> QED  BY <3>1, <4>3
    <3>2. CASE i # 1
      <4>1. i \in 2..N /\ i - 1 \in 1..N
        BY <3>2
      <4>2. Holds(i - 1)
        <5> HIDE DEF Holds
        <5> QED  BY <2>3, <3>2
      <4>3. f[i] = f[i - 1] \o ss[i] /\ f[i - 1] \in Seq(T) /\ ss[i] \in Seq(T)
        BY <2>1, <2>2, <4>1
      <4>4. Range(f[i]) = Range(f[i - 1]) \cup Range(ss[i])
        BY <4>3, JoinedRange
      <4>5. \A j : j \in 1..i <=> j \in 1..(i - 1) \/ j = i
        OBVIOUS
      <4>6. ASSUME NEW x PROVE x \in Range(f[i]) <=> \E j \in 1..i : x \in Range(ss[j])
        BY ONLY <4>2, <4>4, <4>5
      <4>7. Holds(i)
        BY <4>6
      <4> HIDE DEF Holds
      <4> QED  BY <4>7
    <3> QED  BY <3>1, <3>2
  <2>4. N \in D
    <3>1. 0 \in D
      OBVIOUS
    <3> HIDE DEF D
    <3>2. \A i \in 0..N : i \in D
      BY <2>3, <3>1, UpTo
    <3> QED  BY <3>2
  <2>5. Holds(N)
    <3> HIDE DEF Holds
    <3> QED  BY <1>3, <2>4
  <2>6. f[N] \in Seq(T)
    BY <1>3
  <2> QED  BY <1>1, <2>1, <2>5, <2>6
<1> QED  BY <1>2, <1>3

(***************************************************************************)
(* Forms, references and rows.                                             *)
(***************************************************************************)
IsList(s) == s \in Seq(Range(s))

RowsOf(forms, edges) ==
  {FormRow(f, b) : f \in Range(forms), b \in BOOLEAN} \cup {SetRow(f.set) : f \in Range(forms)}
    \cup {DanglingRef(e.id) : e \in Range(edges)}

(* A row of a form is of a form there is. *)
LEMMA FormRowIs ==
  ASSUME NEW forms, IsList(forms), NEW edges, NEW row \in RowsOf(forms, edges), row.kind = "form"
  PROVE  HasForm(forms, <<row.set, row.id>>)
<1>1. PICK f \in Range(forms), b \in BOOLEAN : row = FormRow(f, b)
  BY DEF RowsOf, SetRow, DanglingRef
<1>2. row.set = f.set /\ row.id = f.id
  BY <1>1 DEF FormRow
<1>3. PICK i \in DOMAIN forms : f = forms[i]
  BY DEF Range
<1> QED  BY <1>2, <1>3 DEF HasForm, FormKey

(* The form that is found by its key has the key. *)
LEMMA FormAtIs ==
  ASSUME NEW forms, IsList(forms), NEW key, HasForm(forms, key)
  PROVE  FormAt(forms, key) \in Range(forms) /\ FormKey(FormAt(forms, key)) = key
<1>1. PICK A : A = {i \in DOMAIN forms : FormKey(forms[i]) = key}
  OBVIOUS
<1>2. PICK N \in Nat : DOMAIN forms = 1..N
  BY DEF IsList
<1>3. A # {} /\ A \subseteq 0..N
  BY <1>1, <1>2 DEF HasForm
<1>4. PICK x \in A : \A y \in A : y <= x
  BY <1>3, GreatestOf
<1>5. \E i \in DOMAIN forms : FormKey(forms[i]) = key /\ \A j \in DOMAIN forms : FormKey(forms[j]) = key => j <= i
  BY <1>1, <1>4, Zenon
<1>6. PICK k : k = CHOOSE i \in DOMAIN forms : FormKey(forms[i]) = key /\ \A j \in DOMAIN forms : FormKey(forms[j]) = key => j <= i
  OBVIOUS
<1>7. k \in DOMAIN forms /\ FormKey(forms[k]) = key
  BY <1>5, <1>6, Zenon
<1>8. FormAt(forms, key) = forms[k]
  BY <1>6 DEF FormAt
<1> QED  BY <1>7, <1>8 DEF Range

(* Its row. *)
LEMMA FormAtRow ==
  ASSUME NEW forms, IsList(forms), NEW edges, NEW g, NEW id, HasForm(forms, <<g, id>>), NEW b \in BOOLEAN
  PROVE  LET row == FormRow(FormAt(forms, <<g, id>>), b)
         IN  row \in RowsOf(forms, edges) /\ row.kind = "form" /\ row.set = g /\ row.id = id
<1>1. PICK f \in Range(forms) : f = FormAt(forms, <<g, id>>) /\ FormKey(f) = <<g, id>>
  BY FormAtIs
<1>2. f.set = g /\ f.id = id
  BY <1>1 DEF FormKey
<1>3. FormRow(f, b) \in RowsOf(forms, edges)
  BY DEF RowsOf
<1> QED  BY <1>1, <1>2, <1>3 DEF FormRow

Refs(edges) == {<<e.id, e.target>> : e \in Range(edges)}

(* The children of a form are what its references name, each once. *)
LEMMA ChildrenAre ==
  ASSUME NEW edges, IsList(edges), NEW g, NEW id
  PROVE  /\ Children(edges, g, id) \in Seq(Refs(edges))
         /\ \A k : k \in Range(Children(edges, g, id)) <=>
                     \E e \in Range(edges) : e.set = g /\ e.parent = id /\ k = <<e.id, e.target>>
<1>1. PICK I : I = {i \in DOMAIN edges : edges[i].set = g /\ edges[i].parent = id}
  OBVIOUS
<1>2. PICK own : own = Picked(edges, I)
  OBVIOUS
<1>3. PICK T : T = Range(edges)
  OBVIOUS
<1>4. /\ own \in Seq(T)
      /\ \A x : x \in Range(own) <=> \E k \in 1..Len(edges) : k \in I /\ x = edges[k]
  BY <1>2, <1>3, PickedRange DEF IsList
<1>5. PICK ks : ks = [i \in DOMAIN own |-> <<own[i].id, own[i].target>>]
  OBVIOUS
<1>6. Children(edges, g, id) = Distinct(ks)
  BY <1>1, <1>2, <1>5 DEF Children, Keep
<1>7. ks \in Seq(Refs(edges))
  <2>1. ASSUME NEW i \in DOMAIN own PROVE <<own[i].id, own[i].target>> \in Refs(edges)
    BY <1>3, <1>4 DEF Refs
  <2>2. DOMAIN own = 1..Len(own) /\ Len(own) \in Nat
    BY <1>4
  <2> QED  BY <1>5, <2>1, <2>2
<1>8. Distinct(ks) \in Seq(Refs(edges)) /\ Range(Distinct(ks)) = Range(ks)
  BY <1>7, DistinctRange
<1>9. DOMAIN edges = 1..Len(edges)
  BY DEF IsList
<1>10. \A e : e \in Range(own) <=> e \in Range(edges) /\ e.set = g /\ e.parent = id
  BY <1>1, <1>4, <1>9 DEF Range
<1>11. \A k : k \in Range(ks) <=> \E e \in Range(own) : k = <<e.id, e.target>>
  BY <1>5 DEF Range
<1> QED  BY <1>6, <1>8, <1>10, <1>11

(***************************************************************************)
(* emit_form                                                               *)
(***************************************************************************)
HeadRow(forms, edges, g, id) == FormRow(FormAt(forms, <<g, id>>), Children(edges, g, id) # <<>>)

Emits(forms, edges, expanded, g, E, id, path, x) ==
  /\ id \notin path /\ HasForm(forms, <<g, id>>)
  /\ \/ x = HeadRow(forms, edges, g, id)
     \/ /\ <<g, id>> \in expanded
        /\ \E k \in Range(Children(edges, g, id)) : x \in Range(RefRows(forms, g, k, E[<<k[1], path \cup {id}>>]))

(* What one form emits, from what the forms below it emit. *)
LEMMA EmitShape ==
  ASSUME NEW forms, IsList(forms), NEW edges, IsList(edges), NEW expanded, NEW g, NEW E, NEW id, NEW path,
         \A k \in Range(Children(edges, g, id)) :
            HasForm(forms, <<g, k[1]>>) => E[<<k[1], path \cup {id}>>] \in Seq(RowsOf(forms, edges)),
         NEW r, r = EmitAt(forms, edges, expanded, g, <<id, path>>, E)
  PROVE  /\ r \in Seq(RowsOf(forms, edges))
         /\ \A x : x \in Range(r) <=> Emits(forms, edges, expanded, g, E, id, path, x)
<1>1. PICK R : R = RowsOf(forms, edges)
  OBVIOUS
<1>2. PICK kids \in Seq(Refs(edges)) : kids = Children(edges, g, id)
  BY ChildrenAre
<1> DEFINE Of(k) == RefRows(forms, g, k, E[<<k[1], path \cup {id}>>])
<1>3. ASSUME NEW k \in Range(kids) PROVE Of(k) \in Seq(R)
  <2>1. CASE HasForm(forms, <<g, k[1]>>)
    <3>1. E[<<k[1], path \cup {id}>>] \in Seq(R)
      BY <1>1, <1>2, <2>1
    <3> QED  BY <2>1, <3>1 DEF RefRows
  <2>2. CASE ~HasForm(forms, <<g, k[1]>>) /\ k[2] # NoSet /\ HasForm(forms, <<k[2], k[1]>>)
    <3>1. PICK row : row = FormRow(FormAt(forms, <<k[2], k[1]>>), FALSE)
      OBVIOUS
    <3>2. row \in R
      BY <1>1, <2>2, <3>1, FormAtRow
    <3>3. Of(k) = <<row>>
      BY <2>2, <3>1 DEF RefRows
    <3> QED  BY <3>2, <3>3
  <2>3. CASE ~HasForm(forms, <<g, k[1]>>) /\ ~(k[2] # NoSet /\ HasForm(forms, <<k[2], k[1]>>))
    <3>1. PICK e \in Range(edges) : k = <<e.id, e.target>>
      BY <1>2, ChildrenAre
    <3>2. DanglingRef(k[1]) \in R
      BY <1>1, <3>1 DEF RowsOf
    <3>3. Of(k) = <<DanglingRef(k[1])>>
      BY <2>3 DEF RefRows
    <3> QED  BY <3>2, <3>3
  <2> QED  BY <2>1, <2>2, <2>3
<1>4. PICK below : below = [i \in DOMAIN kids |-> Of(kids[i])]
  OBVIOUS
<1>5. DOMAIN kids = 1..Len(kids) /\ Len(kids) \in Nat
  OBVIOUS
<1>6. below \in Seq(Seq(R)) /\ Len(below) = Len(kids)
  <2>1. ASSUME NEW i \in 1..Len(kids) PROVE Of(kids[i]) \in Seq(R)
    <3>1. kids[i] \in Range(kids)
      BY <1>5 DEF Range
    <3> HIDE DEF Of
    <3> QED  BY <1>3, <3>1
  <2> HIDE DEF Of
  <2> QED  BY <1>4, <1>5, <2>1
<1>7. /\ FlattenSeq(below) \in Seq(R)
      /\ \A x : x \in Range(FlattenSeq(below)) <=> \E i \in 1..Len(below) : x \in Range(below[i])
  BY <1>6, FlattenRange
<1>8. \A x : x \in Range(FlattenSeq(below)) <=> \E k \in Range(kids) : x \in Range(Of(k))
  <2>1. \A i \in 1..Len(kids) : below[i] = Of(kids[i])
    <3> HIDE DEF Of
    <3> QED  BY <1>4, <1>5
  <2>2. \A k : k \in Range(kids) <=> \E i \in 1..Len(kids) : k = kids[i]
    BY <1>5 DEF Range
  <2> HIDE DEF Of
  <2> QED  BY <1>6, <1>7, <2>1, <2>2
<1>9. PICK head : head = FormRow(FormAt(forms, <<g, id>>), kids # <<>>)
  OBVIOUS
<1>9a. head = HeadRow(forms, edges, g, id)
  BY <1>2, <1>9, Zenon DEF HeadRow
<1>10. PICK tail : tail = IF <<g, id>> \in expanded THEN FlattenSeq(below) ELSE <<>>
  OBVIOUS
<1>11. tail \in Seq(R) /\ \A x : x \in Range(tail) <=> <<g, id>> \in expanded /\ x \in Range(FlattenSeq(below))
  <2>1. Range(<<>>) = {} /\ <<>> \in Seq(R)
    BY DEF Range
  <2> QED  BY <1>7, <1>10, <2>1
<1>12. r = EmitAt(forms, edges, expanded, g, <<id, path>>, E)
  OBVIOUS
<1>13. r = IF id \in path \/ ~HasForm(forms, <<g, id>>) THEN <<>> ELSE <<head>> \o tail
  <2>1. <<id, path>>[1] = id /\ <<id, path>>[2] = path
    OBVIOUS
  <2> HIDE DEF Of
  <2> QED  BY <1>2, <1>4, <1>9, <1>10, <1>12, <2>1, Zenon DEF EmitAt, EmitWith, Of
<1>14. CASE id \in path \/ ~HasForm(forms, <<g, id>>)
  <2>1. r = <<>> /\ Range(r) = {} /\ r \in Seq(R)
    BY ONLY <1>13, <1>14 DEF Range
  <2> HIDE DEF Of
  <2> QED  BY <1>1, <1>12, <1>14, <2>1 DEF Emits
<1>15. CASE ~(id \in path \/ ~HasForm(forms, <<g, id>>))
  <2>1. head \in R
    BY <1>1, <1>9, <1>15, FormAtRow
  <2>2. <<head>> \in Seq(R) /\ Range(<<head>>) = {head}
    BY <2>1 DEF Range
  <2>3. r \in Seq(R) /\ Range(r) = {head} \cup Range(tail)
    <3>1. PICK one : one = <<head>>
      OBVIOUS
    <3>2. one \in Seq(R) /\ Range(one) = {head} /\ r = one \o tail /\ tail \in Seq(R)
      BY <1>11, <1>13, <1>15, <2>2, <3>1
    <3>3. one \o tail \in Seq(R) /\ Range(one \o tail) = Range(one) \cup Range(tail)
      BY ONLY <3>2, JoinedRange
    <3> QED  BY <3>2, <3>3
  <2>4. \A x : x \in Range(r) <=> \/ x = head
                                  \/ <<g, id>> \in expanded /\ \E k \in Range(kids) : x \in Range(Of(k))
    <3> HIDE DEF Of
    <3> QED  BY <1>8, <1>11, <2>3
  <2> QED  BY <1>1, <1>2, <1>9a, <1>12, <1>15, <2>3, <2>4 DEF Emits
<1> QED  BY <1>14, <1>15

(* It is a sequence of rows. *)
LEMMA EmitType ==
  ASSUME NEW forms, IsList(forms), NEW edges, IsList(edges), NEW expanded, NEW g, NEW E, NEW id, NEW path,
         \A k \in Range(Children(edges, g, id)) :
            HasForm(forms, <<g, k[1]>>) => E[<<k[1], path \cup {id}>>] \in Seq(RowsOf(forms, edges))
  PROVE  EmitAt(forms, edges, expanded, g, <<id, path>>, E) \in Seq(RowsOf(forms, edges))
<1>1. PICK r : r = EmitAt(forms, edges, expanded, g, <<id, path>>, E)
  OBVIOUS
<1>2. r \in Seq(RowsOf(forms, edges))
  BY <1>1, EmitShape
<1> QED  BY <1>1, <1>2

(* Two functions that agree below a form emit the same for it. *)
LEMMA EmitSame ==
  ASSUME NEW forms, NEW edges, NEW expanded, NEW g, NEW E, NEW F, NEW id, NEW path,
         \A k \in Range(Children(edges, g, id)) :
            id \notin path /\ HasForm(forms, <<g, k[1]>>) => E[<<k[1], path \cup {id}>>] = F[<<k[1], path \cup {id}>>]
  PROVE  EmitAt(forms, edges, expanded, g, <<id, path>>, E) = EmitAt(forms, edges, expanded, g, <<id, path>>, F)
<1>1. PICK kids : kids = Children(edges, g, id)
  OBVIOUS
<1>2. PICK a : a = [i \in DOMAIN kids |-> RefRows(forms, g, kids[i], E[<<kids[i][1], path \cup {id}>>])]
  OBVIOUS
<1>3. PICK b : b = [i \in DOMAIN kids |-> RefRows(forms, g, kids[i], F[<<kids[i][1], path \cup {id}>>])]
  OBVIOUS
<1>4. CASE id \in path
  BY <1>4 DEF EmitAt, EmitWith
<1>5. CASE id \notin path
  <2>1. ASSUME NEW i \in DOMAIN kids
        PROVE  RefRows(forms, g, kids[i], E[<<kids[i][1], path \cup {id}>>]) = RefRows(forms, g, kids[i], F[<<kids[i][1], path \cup {id}>>])
    <3>1. kids[i] \in Range(kids)
      BY DEF Range
    <3> QED  BY <1>1, <1>5, <3>1 DEF RefRows
  <2>2. a = b
    BY <1>2, <1>3, <2>1
  <2>3. <<id, path>>[1] = id /\ <<id, path>>[2] = path
    OBVIOUS
  <2> QED  BY <1>1, <1>2, <1>3, <2>2, <2>3, Zenon DEF EmitAt, EmitWith
<1> QED  BY <1>4, <1>5

(* How many forms are not on the path. *)
NotOn(forms, path) == Cardinality(Ids(forms) \ path)

(* There are finitely many forms, and one less is left below a form. *)
LEMMA NotOnLess ==
  ASSUME NEW forms, IsList(forms)
  PROVE  /\ Cardinality(Ids(forms)) \in Nat
         /\ \A path \in SUBSET Ids(forms) : NotOn(forms, path) \in 0..Cardinality(Ids(forms))
         /\ \A path \in SUBSET Ids(forms) : \A id \in Ids(forms) \ path :
               path \cup {id} \in SUBSET Ids(forms) /\ NotOn(forms, path) = NotOn(forms, path \cup {id}) + 1
<1>1. PICK N \in Nat : DOMAIN forms = 1..N
  BY DEF IsList
<1>2. IsFiniteSet(1..N)
  BY FS_Interval
<1>3. PICK U : U = Ids(forms)
  OBVIOUS
<1>4. IsFiniteSet(U)
  <2>1. PICK f : f = [i \in 1..N |-> forms[i].id]
    OBVIOUS
  <2>2. f \in Surjection(1..N, U)
    BY <1>1, <1>3, <2>1 DEF Ids, Surjection
  <2> QED  BY <1>2, <2>2, FS_Surjection
<1>5. Cardinality(U) \in Nat
  BY <1>4, FS_CardinalityType
<1>6. ASSUME NEW path \in SUBSET U PROVE Cardinality(U \ path) \in 0..Cardinality(U)
  <2>1. U \ path \subseteq U
    OBVIOUS
  <2>2. IsFiniteSet(U \ path) /\ Cardinality(U \ path) <= Cardinality(U)
    BY <1>4, <2>1, FS_Subset
  <2>3. Cardinality(U \ path) \in Nat
    BY <2>2, FS_CardinalityType
  <2> QED  BY <1>5, <2>2, <2>3
<1>7. ASSUME NEW path \in SUBSET U, NEW id \in U \ path
      PROVE  path \cup {id} \in SUBSET U /\ Cardinality(U \ path) = Cardinality(U \ (path \cup {id})) + 1
  <2>1. PICK V : V = U \ (path \cup {id})
    OBVIOUS
  <2>2. V \cup {id} = U \ path /\ id \notin V /\ V \subseteq U
    BY <2>1
  <2>3. IsFiniteSet(V)
    BY <1>4, <2>2, FS_Subset
  <2>4. Cardinality(V \cup {id}) = Cardinality(V) + 1
    BY <2>2, <2>3, FS_AddElement
  <2> QED  BY <2>1, <2>2, <2>4
<1> QED  BY <1>3, <1>5, <1>6, <1>7 DEF NotOn

(* A form that is there has an id that is there. *)
LEMMA IdOfForm ==
  ASSUME NEW forms, NEW g, NEW id, HasForm(forms, <<g, id>>)
  PROVE  id \in Ids(forms)
<1>1. PICK i \in DOMAIN forms : FormKey(forms[i]) = <<g, id>>
  BY DEF HasForm
<1>2. forms[i].id = id
  BY <1>1 DEF FormKey
<1> QED  BY <1>2 DEF Ids

IsEmit(forms, edges, expanded, g, E) ==
  E = [at \in Places(forms) |-> EmitAt(forms, edges, expanded, g, at, E)]

(* emit_form comes to an end: the paths get longer, and no form is on one   *)
(* twice.                                                                   *)
LEMMA EmitExists ==
  ASSUME NEW forms, IsList(forms), NEW edges, IsList(edges), NEW expanded, NEW g
  PROVE  \E E : IsEmit(forms, edges, expanded, g, E)
<1>1. PICK U : U = Ids(forms)
  OBVIOUS
<1>2. PICK c \in Nat : c = Cardinality(U)
  BY <1>1, NotOnLess
<1>3. /\ \A path \in SUBSET U : NotOn(forms, path) \in 0..c
      /\ \A path \in SUBSET U : \A id \in U \ path :
            path \cup {id} \in SUBSET U /\ NotOn(forms, path) = NotOn(forms, path \cup {id}) + 1
  BY <1>1, <1>2, NotOnLess
<1>4. PICK T : T = [Places(forms) -> Seq(RowsOf(forms, edges))]
  OBVIOUS
<1>5. PICK N \in Nat : N = c + 2
  OBVIOUS
<1> DEFINE Step(x) == [at \in Places(forms) |-> EmitAt(forms, edges, expanded, g, at, x)]
           step == [i \in 1..N |-> [x \in T |-> Step(x)]]
           a == [at \in Places(forms) |-> <<>>]
<1>6. Places(forms) = U \X SUBSET U
  BY <1>1 DEF Places
<1>7. ASSUME NEW x \in T PROVE Step(x) \in T
  <2>1. ASSUME NEW at \in Places(forms) PROVE EmitAt(forms, edges, expanded, g, at, x) \in Seq(RowsOf(forms, edges))
    <3>1. PICK id \in U, path \in SUBSET U : at = <<id, path>>
      BY <1>6
    <3>2. ASSUME NEW k \in Range(Children(edges, g, id)), HasForm(forms, <<g, k[1]>>)
          PROVE  x[<<k[1], path \cup {id}>>] \in Seq(RowsOf(forms, edges))
      <4>1. k[1] \in U /\ path \cup {id} \in SUBSET U
        BY <1>1, <3>2, IdOfForm
      <4>2. <<k[1], path \cup {id}>> \in Places(forms)
        BY <1>6, <4>1
      <4> QED  BY <1>4, <4>2
    <3>3. \A k \in Range(Children(edges, g, id)) :
             HasForm(forms, <<g, k[1]>>) => x[<<k[1], path \cup {id}>>] \in Seq(RowsOf(forms, edges))
      BY <3>2
    <3>4. EmitAt(forms, edges, expanded, g, <<id, path>>, x) \in Seq(RowsOf(forms, edges))
      BY ONLY IsList(forms), IsList(edges), <3>3, EmitType
    <3> QED  BY <3>1, <3>4
  <2> QED  BY <1>4, <2>1
<1>8. a \in T
  BY <1>4
<1>9. step \in [1..N -> [T -> T]]
  <2> HIDE DEF Step
  <2> QED  BY <1>7
<1>10. PICK h \in [0..N -> T] : \A i \in 1..N : h[i] = step[i][h[i - 1]]
  <2> HIDE DEF step, a
  <2>1. \E h : IsRun(N, T, a, step, h)
    BY <1>8, <1>9, RunExists
  <2> QED  BY <2>1 DEF IsRun
<1>11. ASSUME NEW i \in 1..N PROVE h[i] = Step(h[i - 1])
  <2>1. h[i - 1] \in T
    BY <1>10
  <2> HIDE DEF Step
  <2> QED  BY <1>10, <2>1
<1> HIDE DEF step, a
<1> DEFINE Stable(n) == \A id \in U : \A path \in SUBSET U : NotOn(forms, path) < n => h[n][<<id, path>>] = h[n + 1][<<id, path>>]
           D == {n \in 0..(N - 1) : Stable(n)}
<1>12. 0 \in D
  <2>1. Stable(0)
    BY <1>3
  <2> QED  BY <1>5, <2>1
<1>13. ASSUME NEW n \in 1..(N - 1), n - 1 \in D PROVE n \in D
  <2>1. \A id \in U : \A path \in SUBSET U : NotOn(forms, path) < n - 1 => h[n - 1][<<id, path>>] = h[n][<<id, path>>]
    <3>1. (n - 1) + 1 = n
      OBVIOUS
    <3>2. Stable(n - 1)
      BY <1>13
    <3> QED  BY <3>1, <3>2
  <2>2. ASSUME NEW id \in U, NEW path \in SUBSET U, NotOn(forms, path) < n
        PROVE  h[n][<<id, path>>] = h[n + 1][<<id, path>>]
    <3>1. <<id, path>> \in Places(forms)
      BY <1>6
    <3>2. h[n] = Step(h[n - 1]) /\ h[n + 1] = Step(h[n])
      <4>1. n \in 1..N /\ n + 1 \in 1..N /\ (n + 1) - 1 = n
        BY <1>5
      <4> HIDE DEF Step
      <4> QED  BY <1>11, <4>1
    <3>3. ASSUME NEW k \in Range(Children(edges, g, id)), id \notin path, HasForm(forms, <<g, k[1]>>)
          PROVE  h[n - 1][<<k[1], path \cup {id}>>] = h[n][<<k[1], path \cup {id}>>]
      <4>1. k[1] \in U
        BY <1>1, <3>3, IdOfForm
      <4>2. path \cup {id} \in SUBSET U /\ NotOn(forms, path) = NotOn(forms, path \cup {id}) + 1
        BY <1>3, <3>3
      <4>3. NotOn(forms, path \cup {id}) < n - 1
        <5>1. NotOn(forms, path \cup {id}) \in Nat /\ n \in Nat
          BY <1>3, <4>2
        <5> QED  BY ONLY <2>2, <4>2, <5>1
      <4> QED  BY ONLY <2>1, <4>1, <4>2, <4>3
    <3>4. EmitAt(forms, edges, expanded, g, <<id, path>>, h[n - 1]) = EmitAt(forms, edges, expanded, g, <<id, path>>, h[n])
      BY <3>3, EmitSame
    <3>5. h[n][<<id, path>>] = EmitAt(forms, edges, expanded, g, <<id, path>>, h[n - 1])
      BY <3>1, <3>2
    <3>6. h[n + 1][<<id, path>>] = EmitAt(forms, edges, expanded, g, <<id, path>>, h[n])
      BY <3>1, <3>2
    <3> QED  BY <3>4, <3>5, <3>6
  <2>3. Stable(n)
    BY <2>2
  <2> HIDE DEF Stable
  <2> QED  BY <2>3
<1>14. c + 1 \in D
  <2> HIDE DEF D
  <2>1. N - 1 \in Nat
    BY <1>5
  <2>2. \A n \in 0..(N - 1) : n \in D
    BY <1>12, <1>13, <2>1, UpTo
  <2> QED  BY <1>5, <2>2
<1>15. ASSUME NEW at \in Places(forms) PROVE h[c + 1][at] = h[c + 2][at]
  <2>1. PICK id \in U, path \in SUBSET U : at = <<id, path>>
    BY <1>6
  <2>2. NotOn(forms, path) < c + 1
    <3>1. NotOn(forms, path) \in 0..c
      BY <1>3
    <3> QED  BY <3>1
  <2>3. Stable(c + 1)
    <3> HIDE DEF Stable
    <3> QED  BY <1>14
  <2>4. (c + 1) + 1 = c + 2
    OBVIOUS
  <2> QED  BY <2>1, <2>2, <2>3, <2>4
<1>16. h[c + 2] = Step(h[c + 1])
  <2>1. c + 2 \in 1..N /\ (c + 2) - 1 = c + 1
    BY <1>5
  <2> HIDE DEF Step
  <2> QED  BY <1>11, <2>1
<1>17. h[c + 1] = h[c + 2]
  <2>1. c + 1 \in 0..N /\ c + 2 \in 0..N
    BY <1>5
  <2>2. h[c + 1] \in T /\ h[c + 2] \in T
    BY <1>10, <2>1
  <2> QED  BY <1>4, <1>15, <2>2
<1>18. IsEmit(forms, edges, expanded, g, h[c + 1])
  <2> HIDE DEF Stable, D
  <2> QED  BY <1>16, <1>17 DEF IsEmit
<1> QED  BY <1>18

(* What is emitted are rows. *)
LEMMA EmitTyped ==
  ASSUME NEW forms, IsList(forms), NEW edges, IsList(edges), NEW expanded, NEW g, NEW E,
         IsEmit(forms, edges, expanded, g, E), NEW id \in Ids(forms), NEW path \in SUBSET Ids(forms)
  PROVE  E[<<id, path>>] \in Seq(RowsOf(forms, edges))
<1>1. PICK U : U = Ids(forms)
  OBVIOUS
<1>2. PICK c \in Nat : c = Cardinality(U)
  BY <1>1, NotOnLess
<1>3. /\ \A p \in SUBSET U : NotOn(forms, p) \in 0..c
      /\ \A p \in SUBSET U : \A i \in U \ p :
            p \cup {i} \in SUBSET U /\ NotOn(forms, p) = NotOn(forms, p \cup {i}) + 1
  BY <1>1, <1>2, NotOnLess
<1>4. PICK A : A = Seq(RowsOf(forms, edges))
  OBVIOUS
<1> DEFINE Typed(n) == \A i \in U : \A p \in SUBSET U : NotOn(forms, p) < n => E[<<i, p>>] \in A
           D == {n \in 0..(c + 1) : Typed(n)}
<1>5. 0 \in D
  BY <1>3
<1>6. ASSUME NEW n \in 1..(c + 1), n - 1 \in D PROVE n \in D
  <2>1. Typed(n - 1)
    BY <1>6
  <2>2. ASSUME NEW i \in U, NEW p \in SUBSET U, NotOn(forms, p) < n PROVE E[<<i, p>>] \in A
    <3>1. E[<<i, p>>] = EmitAt(forms, edges, expanded, g, <<i, p>>, E)
      <4>1. <<i, p>> \in Places(forms)
        BY <1>1 DEF Places
      <4> QED  BY <4>1 DEF IsEmit
    <3>2. CASE i \in p
      <4>1. EmitAt(forms, edges, expanded, g, <<i, p>>, E) = <<>>
        BY <3>2 DEF EmitAt, EmitWith
      <4> QED  BY <1>4, <3>1, <4>1
    <3>3. CASE i \notin p
      <4>1. p \cup {i} \in SUBSET U /\ NotOn(forms, p) = NotOn(forms, p \cup {i}) + 1
        BY <1>3, <3>3
      <4>2. NotOn(forms, p \cup {i}) < n - 1
        <5>1. NotOn(forms, p \cup {i}) \in Nat /\ n \in Nat
          BY <1>3, <4>1
        <5> QED  BY ONLY <2>2, <4>1, <5>1
      <4>3. ASSUME NEW k \in Range(Children(edges, g, i)), HasForm(forms, <<g, k[1]>>)
            PROVE  E[<<k[1], p \cup {i}>>] \in A
        <5>1. k[1] \in U
          BY <1>1, <4>3, IdOfForm
        <5> QED  BY ONLY <2>1, <4>1, <4>2, <5>1
      <4>4. EmitAt(forms, edges, expanded, g, <<i, p>>, E) \in A
        BY <1>4, <4>3, EmitType
      <4> QED  BY <3>1, <4>4
    <3> QED  BY <3>2, <3>3
  <2>3. Typed(n)
    BY <2>2
  <2> HIDE DEF Typed
  <2> QED  BY <2>3
<1>7. c + 1 \in D
  <2> HIDE DEF D
  <2>1. \A n \in 0..(c + 1) : n \in D
    BY <1>5, <1>6, UpTo
  <2> QED  BY <2>1
<1>8. Typed(c + 1)
  <2> HIDE DEF Typed
  <2> QED  BY <1>7
<1>9. NotOn(forms, path) < c + 1
  <2>1. NotOn(forms, path) \in 0..c
    BY <1>1, <1>3
  <2> QED  BY <2>1
<1> QED  BY <1>1, <1>4, <1>8, <1>9

ShownIds(rows, g) == {x.id : x \in {y \in Range(rows) : y.kind = "form" /\ y.set = g}}

Child(edges, g, y, z) == \E e \in Range(edges) : e.set = g /\ e.parent = y /\ e.id = z

(* The forms of the set that a reference shows. *)
LEMMA ShownRef ==
  ASSUME NEW forms, IsList(forms), NEW edges, NEW g, NEW k, NEW own
  PROVE  ShownIds(RefRows(forms, g, k, own), g) = IF HasForm(forms, <<g, k[1]>>) THEN ShownIds(own, g) ELSE {}
<1>1. CASE HasForm(forms, <<g, k[1]>>)
  BY <1>1 DEF RefRows
<1>2. CASE ~HasForm(forms, <<g, k[1]>>) /\ k[2] # NoSet /\ HasForm(forms, <<k[2], k[1]>>)
  <2>1. k[2] # g
    BY <1>2
  <2>2. PICK row : row = FormRow(FormAt(forms, <<k[2], k[1]>>), FALSE)
    OBVIOUS
  <2>3. row.set = k[2]
    <3>1. PICK b \in BOOLEAN : b = FALSE
      OBVIOUS
    <3>2. PICK h, i : h = k[2] /\ i = k[1]
      OBVIOUS
    <3>3. HasForm(forms, <<h, i>>) /\ row = FormRow(FormAt(forms, <<h, i>>), b)
      BY <1>2, <2>2, <3>1, <3>2, Zenon
    <3>4. row.set = h
      BY ONLY IsList(forms), <3>3, b \in BOOLEAN, FormAtRow
    <3> QED  BY <3>2, <3>4
  <2>4. Range(<<row>>) = {row}
    BY DEF Range
  <2>5. RefRows(forms, g, k, own) = <<row>>
    BY <1>2, <2>2 DEF RefRows
  <2> QED  BY <1>2, <2>1, <2>3, <2>4, <2>5 DEF ShownIds
<1>3. CASE ~HasForm(forms, <<g, k[1]>>) /\ ~(k[2] # NoSet /\ HasForm(forms, <<k[2], k[1]>>))
  <2>1. PICK row : row = DanglingRef(k[1])
    OBVIOUS
  <2>2. row.kind # "form"
    BY <2>1 DEF DanglingRef
  <2>3. Range(<<row>>) = {row}
    BY DEF Range
  <2>4. RefRows(forms, g, k, own) = <<row>>
    BY <1>3, <2>1 DEF RefRows
  <2> QED  BY <1>3, <2>2, <2>3, <2>4 DEF ShownIds
<1> QED  BY <1>1, <1>2, <1>3

ShownBy(forms, edges, expanded, g, E, id, path, y) ==
  /\ id \notin path /\ HasForm(forms, <<g, id>>)
  /\ \/ y = id
     \/ /\ <<g, id>> \in expanded
        /\ \E k \in Range(Children(edges, g, id)) :
              HasForm(forms, <<g, k[1]>>) /\ y \in ShownIds(E[<<k[1], path \cup {id}>>], g)

(* The rows of a form: its own, and what is below it. *)
LEMMA EmitRows ==
  ASSUME NEW forms, IsList(forms), NEW edges, IsList(edges), NEW expanded, NEW g, NEW E,
         IsEmit(forms, edges, expanded, g, E), NEW id \in Ids(forms), NEW path \in SUBSET Ids(forms),
         NEW r, r = E[<<id, path>>]
  PROVE  \A x : x \in Range(r) <=> Emits(forms, edges, expanded, g, E, id, path, x)
<1>1. PICK q : q = EmitAt(forms, edges, expanded, g, <<id, path>>, E)
  OBVIOUS
<1>2. r = q
  <2>1. <<id, path>> \in Places(forms)
    BY DEF Places
  <2> QED  BY <1>1, <2>1 DEF IsEmit
<1>3. \A k \in Range(Children(edges, g, id)) :
         HasForm(forms, <<g, k[1]>>) => E[<<k[1], path \cup {id}>>] \in Seq(RowsOf(forms, edges))
  <2> SUFFICES ASSUME NEW k \in Range(Children(edges, g, id)), HasForm(forms, <<g, k[1]>>)
               PROVE  E[<<k[1], path \cup {id}>>] \in Seq(RowsOf(forms, edges))
    OBVIOUS
  <2>1. k[1] \in Ids(forms) /\ path \cup {id} \in SUBSET Ids(forms)
    BY IdOfForm
  <2> QED  BY <2>1, EmitTyped
<1>4. \A x : x \in Range(q) <=> Emits(forms, edges, expanded, g, E, id, path, x)
  BY ONLY IsList(forms), IsList(edges), <1>1, <1>3, EmitShape
<1> QED  BY <1>2, <1>4

(* The forms of the set that a form shows: itself, and what is below it. *)
LEMMA ShownEmit ==
  ASSUME NEW forms, IsList(forms), NEW edges, IsList(edges), NEW expanded, NEW g, NEW E,
         IsEmit(forms, edges, expanded, g, E), NEW id \in Ids(forms), NEW path \in SUBSET Ids(forms)
  PROVE  \A y : y \in ShownIds(E[<<id, path>>], g) <=> ShownBy(forms, edges, expanded, g, E, id, path, y)
<1>1. PICK r : r = E[<<id, path>>]
  OBVIOUS
<1>2. E[<<id, path>>] = r
  BY <1>1
<1>4. \A x : x \in Range(r) <=> Emits(forms, edges, expanded, g, E, id, path, x)
  BY <1>1, EmitRows
<1>5. PICK head : head = HeadRow(forms, edges, g, id)
  OBVIOUS
<1>6. HasForm(forms, <<g, id>>) => head.kind = "form" /\ head.set = g /\ head.id = id
  <2> SUFFICES ASSUME HasForm(forms, <<g, id>>) PROVE head.kind = "form" /\ head.set = g /\ head.id = id
    OBVIOUS
  <2>1. PICK b \in BOOLEAN : b = (Children(edges, g, id) # <<>>)
    OBVIOUS
  <2>2. head = FormRow(FormAt(forms, <<g, id>>), b)
    BY <1>5, <2>1, Zenon DEF HeadRow
  <2> QED  BY <2>2, FormAtRow
<1>7. \A k : ShownIds(RefRows(forms, g, k, E[<<k[1], path \cup {id}>>]), g)
               = IF HasForm(forms, <<g, k[1]>>) THEN ShownIds(E[<<k[1], path \cup {id}>>], g) ELSE {}
  BY ShownRef
<1> SUFFICES ASSUME NEW y
             PROVE  y \in ShownIds(r, g) <=> ShownBy(forms, edges, expanded, g, E, id, path, y)
  BY <1>2
<1>8. y \in ShownIds(r, g) <=> \E x \in Range(r) : x.kind = "form" /\ x.set = g /\ x.id = y
  BY DEF ShownIds
<1>9. \A k : y \in ShownIds(RefRows(forms, g, k, E[<<k[1], path \cup {id}>>]), g)
        <=> \E x \in Range(RefRows(forms, g, k, E[<<k[1], path \cup {id}>>])) : x.kind = "form" /\ x.set = g /\ x.id = y
  BY DEF ShownIds
<1>10. CASE id \in path \/ ~HasForm(forms, <<g, id>>)
  BY <1>4, <1>8, <1>10 DEF Emits, ShownBy
<1>11. CASE id \notin path /\ HasForm(forms, <<g, id>>)
  <2> DEFINE InRef(x, k) == x \in Range(RefRows(forms, g, k, E[<<k[1], path \cup {id}>>]))
             Below(k) == HasForm(forms, <<g, k[1]>>) /\ y \in ShownIds(E[<<k[1], path \cup {id}>>], g)
  <2>1. \A x : x \in Range(r) <=> x = head \/ (<<g, id>> \in expanded /\ \E k \in Range(Children(edges, g, id)) : InRef(x, k))
    BY <1>4, <1>5, <1>11 DEF Emits
  <2>2. \A k : Below(k) <=> \E x : InRef(x, k) /\ x.kind = "form" /\ x.set = g /\ x.id = y
    BY <1>7, <1>9
  <2> HIDE DEF InRef, Below
  <2>3. y \in ShownIds(r, g) <=> y = id \/ (<<g, id>> \in expanded /\ \E k \in Range(Children(edges, g, id)) : Below(k))
    BY ONLY <1>6, <1>8, <1>11, <2>1, <2>2
  <2> QED  BY <1>11, <2>3 DEF Below, ShownBy
<1> QED  BY <1>10, <1>11

(* What holds of a form on a path when it holds of every form one step     *)
(* further holds of all: the paths get longer, and no form is on one twice. *)
LEMMA PathInduction ==
  ASSUME NEW forms, IsList(forms), NEW G,
         \A i \in Ids(forms) : \A p \in SUBSET Ids(forms) :
            (i \notin p => \A j \in Ids(forms) : <<j, p \cup {i}>> \in G) => <<i, p>> \in G
  PROVE  \A i \in Ids(forms) : \A p \in SUBSET Ids(forms) : <<i, p>> \in G
<1>1. PICK U : U = Ids(forms)
  OBVIOUS
<1>2. PICK c \in Nat : c = Cardinality(U)
  BY <1>1, NotOnLess
<1>3. /\ \A p \in SUBSET U : NotOn(forms, p) \in 0..c
      /\ \A p \in SUBSET U : \A i \in U \ p :
            p \cup {i} \in SUBSET U /\ NotOn(forms, p) = NotOn(forms, p \cup {i}) + 1
  BY <1>1, <1>2, NotOnLess
<1> DEFINE In(n) == \A i \in U : \A p \in SUBSET U : NotOn(forms, p) < n => <<i, p>> \in G
           D == {n \in 0..(c + 1) : In(n)}
<1>4. 0 \in D
  <2>1. In(0)
    BY <1>3
  <2> HIDE DEF In
  <2> QED  BY <2>1
<1>5. ASSUME NEW n \in 1..(c + 1), n - 1 \in D PROVE n \in D
  <2>1. In(n - 1)
    BY <1>5
  <2>2. ASSUME NEW i \in U, NEW p \in SUBSET U, NotOn(forms, p) < n PROVE <<i, p>> \in G
    <3>1. ASSUME i \notin p, NEW j \in U PROVE <<j, p \cup {i}>> \in G
      <4>1. p \cup {i} \in SUBSET U /\ NotOn(forms, p) = NotOn(forms, p \cup {i}) + 1
        BY <1>3, <3>1
      <4>2. NotOn(forms, p \cup {i}) \in Nat /\ n \in Nat
        BY <1>3, <4>1
      <4>3. NotOn(forms, p \cup {i}) < n - 1
        BY ONLY <2>2, <4>1, <4>2
      <4> QED  BY ONLY <2>1, <3>1, <4>1, <4>3
    <3> QED  BY <1>1, <3>1
  <2>3. In(n)
    BY <2>2
  <2> HIDE DEF In
  <2> QED  BY <2>3
<1>6. c + 1 \in D
  <2> HIDE DEF D
  <2>1. \A n \in 0..(c + 1) : n \in D
    BY <1>4, <1>5, UpTo
  <2> QED  BY <2>1
<1>7. In(c + 1)
  <2> HIDE DEF In
  <2> QED  BY <1>6
<1>8. ASSUME NEW i \in U, NEW p \in SUBSET U PROVE <<i, p>> \in G
  <2>1. NotOn(forms, p) \in 0..c
    BY <1>3
  <2> QED  BY <1>7, <2>1
<1> QED  BY <1>1, <1>8

(* Every parent is open. *)
ParentsOpen(forms, edges, g, expanded) ==
  \A y, z : HasForm(forms, <<g, y>>) /\ Child(edges, g, y, z) => <<g, y>> \in expanded

(* z is a form of the set below the open form y. *)
Opens(forms, edges, expanded, g, y, z) ==
  <<g, y>> \in expanded /\ Child(edges, g, y, z) /\ HasForm(forms, <<g, z>>)

(* What a form shows is closed: the children of what is open are shown as   *)
(* well, or are on the path to it.                                          *)
LEMMA EmitClosed ==
  ASSUME NEW forms, IsList(forms), NEW edges, IsList(edges), NEW expanded, NEW g, NEW E,
         IsEmit(forms, edges, expanded, g, E), NEW id \in Ids(forms), NEW path \in SUBSET Ids(forms)
  PROVE  \A y \in ShownIds(E[<<id, path>>], g) : \A z :
           Opens(forms, edges, expanded, g, y, z) => z \in ShownIds(E[<<id, path>>], g) \/ z \in path
<1>1. PICK U : U = Ids(forms)
  OBVIOUS
<1> DEFINE Sh(i, p) == ShownIds(E[<<i, p>>], g)
           Below(i, p, w) == \E k \in Range(Children(edges, g, i)) : HasForm(forms, <<g, k[1]>>) /\ w \in Sh(k[1], p \cup {i})
           Closed(i, p) == \A y \in Sh(i, p) : \A z :
                             Opens(forms, edges, expanded, g, y, z) => z \in Sh(i, p) \/ z \in p
           G == {at \in U \X SUBSET U : Closed(at[1], at[2])}
<1>2. \A i \in U : \A p \in SUBSET U : \A w :
         w \in Sh(i, p) <=> i \notin p /\ HasForm(forms, <<g, i>>) /\ (w = i \/ (<<g, i>> \in expanded /\ Below(i, p, w)))
  <2> SUFFICES ASSUME NEW i \in U, NEW p \in SUBSET U, NEW w
               PROVE  w \in Sh(i, p) <=> i \notin p /\ HasForm(forms, <<g, i>>) /\ (w = i \/ (<<g, i>> \in expanded /\ Below(i, p, w)))
    OBVIOUS
  <2>1. w \in ShownIds(E[<<i, p>>], g) <=> ShownBy(forms, edges, expanded, g, E, i, p, w)
    BY <1>1, ShownEmit
  <2> QED  BY <2>1 DEF ShownBy
<1> HIDE DEF Sh, Below
<1>3. ASSUME NEW i \in U, NEW p \in SUBSET U, i \notin p => \A j \in U : <<j, p \cup {i}>> \in G PROVE <<i, p>> \in G
  <2>1. ASSUME NEW y \in Sh(i, p), NEW z, Opens(forms, edges, expanded, g, y, z) PROVE z \in Sh(i, p) \/ z \in p
    <3>1. i \notin p /\ HasForm(forms, <<g, i>>) /\ i \in Sh(i, p)
      BY <1>2, <2>1
    <3>2. PICK q \in SUBSET U : q = p \cup {i}
      OBVIOUS
    <3>3. \A j \in U : Closed(j, q)
      <4> SUFFICES ASSUME NEW j \in U PROVE Closed(j, q)
        OBVIOUS
      <4>1. <<j, q>> \in G
        BY <1>3, <3>1, <3>2
      <4>2. <<j, q>>[1] = j /\ <<j, q>>[2] = q
        OBVIOUS
      <4> HIDE DEF Closed
      <4> QED  BY <4>1, <4>2
    <3>4. z \in U
      BY <1>1, <2>1, IdOfForm DEF Opens
    <3>5. CASE y = i
      <4>1. PICK e \in Range(edges) : e.set = g /\ e.parent = i /\ e.id = z
        BY <2>1, <3>5 DEF Opens, Child
      <4>2. PICK k \in Range(Children(edges, g, i)) : k = <<e.id, e.target>>
        BY <4>1, ChildrenAre
      <4>3. k[1] = z
        BY <4>1, <4>2
      <4>4. CASE z \in q
        BY <3>1, <3>2, <4>4
      <4>5. CASE z \notin q
        <5>1. z \in Sh(z, q)
          BY <1>2, <2>1, <3>4, <4>5 DEF Opens
        <5>2. Below(i, p, z)
          BY <2>1, <3>2, <4>3, <5>1 DEF Below, Opens
        <5> QED  BY <1>2, <2>1, <3>1, <3>5, <5>2 DEF Opens
      <4> QED  BY <4>4, <4>5
    <3>6. CASE y # i
      <4>1. <<g, i>> \in expanded /\ Below(i, p, y)
        BY <1>2, <2>1, <3>6
      <4>2. PICK k \in Range(Children(edges, g, i)) : HasForm(forms, <<g, k[1]>>) /\ y \in Sh(k[1], q)
        BY <3>2, <4>1 DEF Below
      <4>3. k[1] \in U
        BY <1>1, <4>2, IdOfForm
      <4>4. z \in Sh(k[1], q) \/ z \in q
        BY <2>1, <3>3, <4>2, <4>3
      <4>5. CASE z \in Sh(k[1], q)
        <5>1. Below(i, p, z)
          BY <3>2, <4>2, <4>5 DEF Below
        <5> QED  BY <1>2, <3>1, <4>1, <5>1
      <4>6. CASE z \in q
        BY <3>1, <3>2, <4>6
      <4> QED  BY <4>4, <4>5, <4>6
    <3> QED  BY <3>5, <3>6
  <2>2. Closed(i, p)
    BY <2>1
  <2>3. <<i, p>>[1] = i /\ <<i, p>>[2] = p /\ <<i, p>> \in U \X SUBSET U
    OBVIOUS
  <2> HIDE DEF Closed
  <2> QED  BY <2>2, <2>3
<1>4. \A i \in U : \A p \in SUBSET U : <<i, p>> \in G
  <2> HIDE DEF G
  <2> QED  BY <1>1, <1>3, PathInduction
<1>5. Closed(id, path)
  <2>1. <<id, path>> \in G /\ <<id, path>>[1] = id /\ <<id, path>>[2] = path
    BY <1>1, <1>4
  <2> HIDE DEF Closed
  <2> QED  BY <2>1
<1> QED  BY <1>5 DEF Sh

(* What a form shows is in every set with the form that holds what is below *)
(* the open forms of it.                                                    *)
LEMMA EmitLeast ==
  ASSUME NEW forms, IsList(forms), NEW edges, IsList(edges), NEW expanded, NEW g, NEW E,
         IsEmit(forms, edges, expanded, g, E), NEW C,
         \A y \in C : \A z : Opens(forms, edges, expanded, g, y, z) => z \in C,
         NEW id \in Ids(forms), id \in C, NEW path \in SUBSET Ids(forms)
  PROVE  ShownIds(E[<<id, path>>], g) \subseteq C
<1>1. PICK U : U = Ids(forms)
  OBVIOUS
<1> DEFINE Within(i, p) == i \in C => ShownIds(E[<<i, p>>], g) \subseteq C
           G == {at \in U \X SUBSET U : Within(at[1], at[2])}
<1>2. ASSUME NEW i \in U, NEW p \in SUBSET U, i \notin p => \A j \in U : <<j, p \cup {i}>> \in G PROVE <<i, p>> \in G
  <2>1. ASSUME i \in C, NEW w \in ShownIds(E[<<i, p>>], g) PROVE w \in C
    <3>1. ShownBy(forms, edges, expanded, g, E, i, p, w)
      BY <1>1, <2>1, ShownEmit
    <3>2. CASE w = i
      BY <2>1, <3>2
    <3>3. CASE w # i
      <4>1. i \notin p /\ <<g, i>> \in expanded
        BY <3>1, <3>3 DEF ShownBy
      <4>2. PICK k \in Range(Children(edges, g, i)) :
               HasForm(forms, <<g, k[1]>>) /\ w \in ShownIds(E[<<k[1], p \cup {i}>>], g)
        BY <3>1, <3>3 DEF ShownBy
      <4>3. PICK q \in SUBSET U : q = p \cup {i}
        OBVIOUS
      <4>4. PICK j \in U : j = k[1]
        BY <1>1, <4>2, IdOfForm
      <4>5. Child(edges, g, i, j)
        <5>1. PICK e \in Range(edges) : e.set = g /\ e.parent = i /\ k = <<e.id, e.target>>
          BY ChildrenAre
        <5>2. e.id = j
          BY <4>4, <5>1
        <5> QED  BY <5>1, <5>2 DEF Child
      <4>6. j \in C
        BY <2>1, <4>1, <4>2, <4>4, <4>5 DEF Opens
      <4>7. Within(j, q)
        <5>1. <<j, q>> \in G /\ <<j, q>>[1] = j /\ <<j, q>>[2] = q
          BY <1>2, <4>1, <4>3
        <5> HIDE DEF Within
        <5> QED  BY <5>1
      <4> QED  BY <4>2, <4>3, <4>4, <4>6, <4>7
    <3> QED  BY <3>2, <3>3
  <2>2. Within(i, p)
    BY <2>1
  <2>3. <<i, p>>[1] = i /\ <<i, p>>[2] = p /\ <<i, p>> \in U \X SUBSET U
    OBVIOUS
  <2> HIDE DEF Within
  <2> QED  BY <2>2, <2>3
<1>3. \A i \in U : \A p \in SUBSET U : <<i, p>> \in G
  <2> HIDE DEF G
  <2> QED  BY <1>1, <1>2, PathInduction
<1>4. Within(id, path)
  <2>1. <<id, path>> \in G /\ <<id, path>>[1] = id /\ <<id, path>>[2] = path
    BY <1>1, <1>3
  <2> HIDE DEF Within
  <2> QED  BY <2>1
<1> QED  BY <1>4

(* x is the row of y, or one below the open form y that is no form of the   *)
(* set.                                                                     *)
Brings(forms, edges, expanded, g, y, x) ==
  \/ x = HeadRow(forms, edges, g, y)
  \/ /\ <<g, y>> \in expanded
     /\ \E k \in Range(Children(edges, g, y)) : ~HasForm(forms, <<g, k[1]>>) /\ x \in Range(RefRows(forms, g, k, <<>>))

(* Every row is brought by a form that is shown, with all its rows. *)
BroughtRows(forms, edges, expanded, g, rows) ==
  /\ \A x \in Range(rows) : \E y \in ShownIds(rows, g) : Brings(forms, edges, expanded, g, y, x)
  /\ \A y \in ShownIds(rows, g) : \A x : Brings(forms, edges, expanded, g, y, x) => x \in Range(rows)

(* So it is for what one form shows. *)
LEMMA EmitBrought ==
  ASSUME NEW forms, IsList(forms), NEW edges, IsList(edges), NEW expanded, NEW g, NEW E,
         IsEmit(forms, edges, expanded, g, E), NEW id \in Ids(forms), NEW path \in SUBSET Ids(forms)
  PROVE  BroughtRows(forms, edges, expanded, g, E[<<id, path>>])
<1>1. PICK U : U = Ids(forms)
  OBVIOUS
<1> DEFINE Fit(i, p) == BroughtRows(forms, edges, expanded, g, E[<<i, p>>])
           Br(y, x) == Brings(forms, edges, expanded, g, y, x)
           G == {at \in U \X SUBSET U : Fit(at[1], at[2])}
<1>2. ASSUME NEW i \in U, NEW p \in SUBSET U, i \notin p => \A j \in U : <<j, p \cup {i}>> \in G PROVE <<i, p>> \in G
  <2>1. PICK r : r = E[<<i, p>>]
    OBVIOUS
  <2>2. \A x : x \in Range(r) <=> Emits(forms, edges, expanded, g, E, i, p, x)
    BY <1>1, <2>1, EmitRows
  <2>3. \A y : y \in ShownIds(r, g) <=> ShownBy(forms, edges, expanded, g, E, i, p, y)
    BY <1>1, <2>1, ShownEmit
  <2>4. PICK q \in SUBSET U : q = p \cup {i}
    OBVIOUS
  <2>5. ASSUME i \notin p, NEW j \in U PROVE BroughtRows(forms, edges, expanded, g, E[<<j, q>>])
    <3>1. <<j, q>> \in G /\ <<j, q>>[1] = j /\ <<j, q>>[2] = q
      BY <1>2, <2>4, <2>5
    <3>2. Fit(j, q)
      <4> HIDE DEF Fit
      <4> QED  BY <3>1
    <3> QED  BY <3>2
  <2>6. ASSUME NEW x \in Range(r) PROVE \E y \in ShownIds(r, g) : Br(y, x)
    <3>1. Emits(forms, edges, expanded, g, E, i, p, x)
      BY <2>2
    <3>2. i \notin p /\ HasForm(forms, <<g, i>>) /\ i \in ShownIds(r, g)
      BY <2>3, <3>1 DEF Emits, ShownBy
    <3>3. CASE x = HeadRow(forms, edges, g, i)
      BY <3>2, <3>3 DEF Brings
    <3>4. CASE x # HeadRow(forms, edges, g, i)
      <4>1. <<g, i>> \in expanded
        BY <3>1, <3>4 DEF Emits
      <4>2. PICK k \in Range(Children(edges, g, i)) : x \in Range(RefRows(forms, g, k, E[<<k[1], q>>]))
        BY <2>4, <3>1, <3>4 DEF Emits
      <4>3. CASE HasForm(forms, <<g, k[1]>>)
        <5>1. PICK j \in U : j = k[1]
          BY <1>1, <4>3, IdOfForm
        <5>2. x \in Range(E[<<j, q>>])
          BY <4>2, <4>3, <5>1 DEF RefRows
        <5>3. PICK y \in ShownIds(E[<<j, q>>], g) : Br(y, x)
          BY <2>5, <3>2, <5>2 DEF BroughtRows
        <5>4. y \in ShownIds(r, g)
          BY <2>3, <2>4, <3>2, <4>1, <4>3, <5>1, <5>3 DEF ShownBy
        <5> QED  BY <5>3, <5>4
      <4>4. CASE ~HasForm(forms, <<g, k[1]>>)
        <5>1. RefRows(forms, g, k, E[<<k[1], q>>]) = RefRows(forms, g, k, <<>>)
          BY <4>4 DEF RefRows
        <5>2. Br(i, x)
          BY <4>1, <4>2, <4>4, <5>1 DEF Brings
        <5> QED  BY <3>2, <5>2
      <4> QED  BY <4>3, <4>4
    <3> QED  BY <3>3, <3>4
  <2>7. ASSUME NEW y \in ShownIds(r, g), NEW x, Br(y, x) PROVE x \in Range(r)
    <3>1. ShownBy(forms, edges, expanded, g, E, i, p, y)
      BY <2>3
    <3>2. i \notin p /\ HasForm(forms, <<g, i>>)
      BY <3>1 DEF ShownBy
    <3>3. CASE y = i
      <4>1. CASE x = HeadRow(forms, edges, g, i)
        BY <2>2, <3>2, <4>1 DEF Emits
      <4>2. CASE x # HeadRow(forms, edges, g, i)
        <5>1. <<g, i>> \in expanded
          BY <2>7, <3>3, <4>2 DEF Brings
        <5>2. PICK k \in Range(Children(edges, g, i)) : ~HasForm(forms, <<g, k[1]>>) /\ x \in Range(RefRows(forms, g, k, <<>>))
          BY <2>7, <3>3, <4>2 DEF Brings
        <5>3. RefRows(forms, g, k, E[<<k[1], p \cup {i}>>]) = RefRows(forms, g, k, <<>>)
          BY <5>2 DEF RefRows
        <5>4. Emits(forms, edges, expanded, g, E, i, p, x)
          BY <3>2, <5>1, <5>2, <5>3 DEF Emits
        <5> QED  BY <2>2, <5>4
      <4> QED  BY <4>1, <4>2
    <3>4. CASE y # i
      <4>1. <<g, i>> \in expanded
        BY <3>1, <3>4 DEF ShownBy
      <4>2. PICK k \in Range(Children(edges, g, i)) : HasForm(forms, <<g, k[1]>>) /\ y \in ShownIds(E[<<k[1], q>>], g)
        BY <2>4, <3>1, <3>4 DEF ShownBy
      <4>3. PICK j \in U : j = k[1]
        BY <1>1, <4>2, IdOfForm
      <4>4. x \in Range(E[<<j, q>>])
        BY <2>5, <2>7, <3>2, <4>2, <4>3 DEF BroughtRows
      <4>5. x \in Range(RefRows(forms, g, k, E[<<k[1], p \cup {i}>>]))
        BY <2>4, <4>2, <4>3, <4>4 DEF RefRows
      <4>6. Emits(forms, edges, expanded, g, E, i, p, x)
        BY <3>2, <4>1, <4>5 DEF Emits
      <4> QED  BY <2>2, <4>6
    <3> QED  BY <3>3, <3>4
  <2>8. Fit(i, p)
    BY <2>1, <2>6, <2>7 DEF BroughtRows
  <2>9. <<i, p>>[1] = i /\ <<i, p>>[2] = p /\ <<i, p>> \in U \X SUBSET U
    OBVIOUS
  <2> HIDE DEF Fit
  <2> QED  BY <2>8, <2>9
<1>3. \A i \in U : \A p \in SUBSET U : <<i, p>> \in G
  <2> HIDE DEF G
  <2> QED  BY <1>1, <1>2, PathInduction
<1>4. Fit(id, path)
  <2>1. <<id, path>> \in G /\ <<id, path>>[1] = id /\ <<id, path>>[2] = path
    BY <1>1, <1>3
  <2> HIDE DEF Fit
  <2> QED  BY <2>1
<1> QED  BY <1>4

(* emit_form is given by a function that satisfies its equation. *)
LEMMA EmitFormIs ==
  ASSUME NEW forms, IsList(forms), NEW edges, IsList(edges), NEW expanded, NEW g, NEW id
  PROVE  \E E : IsEmit(forms, edges, expanded, g, E) /\ emit_form(forms, edges, expanded, g, id) = E[<<id, {}>>]
<1> DEFINE Body(u) == [at \in Places(forms) |-> EmitAt(forms, edges, expanded, g, at, u)]
<1>1. \E E : E = Body(E)
  <2>1. \E E : IsEmit(forms, edges, expanded, g, E)
    BY EmitExists
  <2>2. PICK E : IsEmit(forms, edges, expanded, g, E)
    BY <2>1
  <2>3. E = Body(E)
    BY <2>2 DEF IsEmit
  <2> HIDE DEF Body
  <2> QED  BY <2>3
<1>2. PICK F : F = CHOOSE u : u = Body(u)
  OBVIOUS
<1>3. F = Body(F)
  <2> HIDE DEF Body
  <2> QED  BY <1>1, <1>2, Zenon
<1>4. emit_form(forms, edges, expanded, g, id) = F[<<id, {}>>]
  BY <1>2 DEF emit_form
<1> QED  BY <1>3, <1>4 DEF IsEmit

(* A set that holds what is below the open forms in it. *)
ClosedUnder(forms, edges, expanded, g, C) ==
  \A y \in C : \A z : Opens(forms, edges, expanded, g, y, z) => z \in C

(* The rows show the least closed set with the roots from, and are those    *)
(* that the forms they show bring.                                          *)
FitRows(forms, edges, expanded, g, from, rows) ==
  /\ from \subseteq ShownIds(rows, g)
  /\ ClosedUnder(forms, edges, expanded, g, ShownIds(rows, g))
  /\ \A C : from \subseteq C /\ ClosedUnder(forms, edges, expanded, g, C) => ShownIds(rows, g) \subseteq C
  /\ BroughtRows(forms, edges, expanded, g, rows)

(* The rows of a form of the set. *)
LEMMA EmitFormRows ==
  ASSUME NEW forms, IsList(forms), NEW edges, IsList(edges), NEW expanded, NEW g, NEW id,
         HasForm(forms, <<g, id>>), NEW r, r = emit_form(forms, edges, expanded, g, id)
  PROVE  r \in Seq(RowsOf(forms, edges)) /\ FitRows(forms, edges, expanded, g, {id}, r)
<1>1. PICK E : IsEmit(forms, edges, expanded, g, E) /\ r = E[<<id, {}>>]
  BY EmitFormIs
<1>2. id \in Ids(forms)
  BY IdOfForm
<1>3. PICK path \in SUBSET Ids(forms) : path = {}
  OBVIOUS
<1>4. r = E[<<id, path>>]
  BY <1>1, <1>3
<1>5. r \in Seq(RowsOf(forms, edges))
  BY <1>1, <1>2, <1>4, EmitTyped
<1>6. {id} \subseteq ShownIds(r, g)
  <2>1. id \in ShownIds(E[<<id, path>>], g) <=> ShownBy(forms, edges, expanded, g, E, id, path, id)
    BY <1>1, <1>2, ShownEmit
  <2> QED  BY <1>3, <1>4, <2>1 DEF ShownBy
<1>7. ClosedUnder(forms, edges, expanded, g, ShownIds(r, g))
  <2>1. \A y \in ShownIds(E[<<id, path>>], g) : \A z :
           Opens(forms, edges, expanded, g, y, z) => z \in ShownIds(E[<<id, path>>], g) \/ z \in path
    BY <1>1, <1>2, EmitClosed
  <2> QED  BY <1>3, <1>4, <2>1 DEF ClosedUnder
<1>8. ASSUME NEW C, {id} \subseteq C, ClosedUnder(forms, edges, expanded, g, C) PROVE ShownIds(r, g) \subseteq C
  <2>1. \A y \in C : \A z : Opens(forms, edges, expanded, g, y, z) => z \in C
    BY <1>8 DEF ClosedUnder
  <2>2. id \in C
    BY <1>8
  <2>3. ShownIds(E[<<id, path>>], g) \subseteq C
    BY <1>1, <1>2, <2>1, <2>2, EmitLeast
  <2> QED  BY <1>4, <2>3
<1>9. BroughtRows(forms, edges, expanded, g, r)
  <2>1. BroughtRows(forms, edges, expanded, g, E[<<id, path>>])
    BY <1>1, <1>2, EmitBrought
  <2> QED  BY <1>4, <2>1
<1> QED  BY <1>5, <1>6, <1>7, <1>8, <1>9 DEF FitRows

(* What two lists show together. *)
LEMMA ShownJoined ==
  ASSUME NEW T, NEW p \in Seq(T), NEW q \in Seq(T), NEW g
  PROVE  ShownIds(p \o q, g) = ShownIds(p, g) \cup ShownIds(q, g)
<1>1. Range(p \o q) = Range(p) \cup Range(q)
  BY JoinedRange
<1> QED  BY <1>1 DEF ShownIds

(* Together they are the rows of all the roots. *)
LEMMA FitJoined ==
  ASSUME NEW forms, NEW edges, NEW expanded, NEW g, NEW T, NEW p \in Seq(T), NEW q \in Seq(T), NEW from, NEW id,
         FitRows(forms, edges, expanded, g, from, p), FitRows(forms, edges, expanded, g, {id}, q)
  PROVE  FitRows(forms, edges, expanded, g, from \cup {id}, p \o q)
<1>1. PICK r : r = p \o q
  OBVIOUS
<1>2. Range(r) = Range(p) \cup Range(q)
  BY <1>1, JoinedRange
<1>3. ShownIds(r, g) = ShownIds(p, g) \cup ShownIds(q, g)
  BY <1>1, ShownJoined
<1>4. from \cup {id} \subseteq ShownIds(r, g)
  BY <1>3 DEF FitRows
<1>5. ClosedUnder(forms, edges, expanded, g, ShownIds(r, g))
  BY <1>3 DEF FitRows, ClosedUnder
<1>6. ASSUME NEW C, from \cup {id} \subseteq C, ClosedUnder(forms, edges, expanded, g, C) PROVE ShownIds(r, g) \subseteq C
  <2>1. from \subseteq C /\ {id} \subseteq C
    BY <1>6
  <2> QED  BY <1>3, <1>6, <2>1 DEF FitRows
<1>7. BroughtRows(forms, edges, expanded, g, p) /\ BroughtRows(forms, edges, expanded, g, q)
  BY DEF FitRows
<1>8. BroughtRows(forms, edges, expanded, g, r)
  BY <1>2, <1>3, <1>7 DEF BroughtRows
<1> QED  BY <1>1, <1>4, <1>5, <1>6, <1>8 DEF FitRows

(***************************************************************************)
(* The roots of a form set.                                                *)
(***************************************************************************)
OwnIds(forms, g) == {id \in Ids(forms) : HasForm(forms, <<g, id>>)}

(* What a filter by value keeps. *)
LEMMA OfSetIs ==
  ASSUME NEW forms, IsList(forms), NEW g
  PROVE  /\ OfSet(forms, g) \in Seq(Range(forms))
         /\ \A f : f \in Range(OfSet(forms, g)) <=> f \in Range(forms) /\ f.set = g
<1>1. PICK T : T = Range(forms)
  OBVIOUS
<1>2. forms \in Seq(T)
  BY <1>1 DEF IsList
<1>3. PICK I : I = {i \in DOMAIN forms : forms[i].set = g}
  BY Zenon
<1>4. OfSet(forms, g) = Picked(forms, I)
  BY <1>3 DEF OfSet, Keep
<1>5. /\ Picked(forms, I) \in Seq(T)
      /\ \A x : x \in Range(Picked(forms, I)) <=> \E k \in 1..Len(forms) : k \in I /\ x = forms[k]
  BY <1>2, PickedRange
<1>6. DOMAIN forms = 1..Len(forms)
  BY <1>2
<1>7. \A x : x \in T <=> \E k \in 1..Len(forms) : x = forms[k]
  BY <1>1, <1>6 DEF Range
<1>8. \A k : k \in I <=> k \in 1..Len(forms) /\ forms[k].set = g
  BY <1>3, <1>6
<1>9. ASSUME NEW f PROVE f \in Range(OfSet(forms, g)) <=> f \in T /\ f.set = g
  BY <1>4, <1>5, <1>7, <1>8
<1> QED  BY <1>1, <1>4, <1>5, <1>9

(* The ids of the forms of a set, in their order. *)
LEMMA OwnIdsAre ==
  ASSUME NEW forms, IsList(forms), NEW g, NEW own, own = OfSet(forms, g),
         NEW ids, ids = [i \in DOMAIN own |-> own[i].id]
  PROVE  ids \in Seq(OwnIds(forms, g)) /\ Range(ids) = OwnIds(forms, g)
<1>1. /\ own \in Seq(Range(forms))
      /\ \A f : f \in Range(own) <=> f \in Range(forms) /\ f.set = g
  BY OfSetIs
<1>2. PICK N \in Nat : DOMAIN own = 1..N
  BY <1>1
<1>3. \A id : id \in OwnIds(forms, g) <=> \E f \in Range(forms) : f.set = g /\ f.id = id
  <2> SUFFICES ASSUME NEW id PROVE id \in OwnIds(forms, g) <=> \E f \in Range(forms) : f.set = g /\ f.id = id
    OBVIOUS
  <2>1. id \in OwnIds(forms, g) <=> HasForm(forms, <<g, id>>)
    BY IdOfForm DEF OwnIds
  <2>2. \A i \in DOMAIN forms : FormKey(forms[i]) = <<g, id>> <=> forms[i].set = g /\ forms[i].id = id
    BY DEF FormKey
  <2> QED  BY <2>1, <2>2 DEF HasForm, Range
<1>4. \A id : id \in OwnIds(forms, g) <=> \E i \in 1..N : own[i].id = id
  <2> SUFFICES ASSUME NEW id PROVE id \in OwnIds(forms, g) <=> \E i \in 1..N : own[i].id = id
    OBVIOUS
  <2>1. \A f : f \in Range(own) <=> \E i \in 1..N : f = own[i]
    BY <1>2 DEF Range
  <2> QED  BY <1>1, <1>3, <2>1
<1>5. DOMAIN ids = 1..N /\ \A i \in 1..N : ids[i] = own[i].id
  BY <1>2
<1>6. ids \in [1..N -> OwnIds(forms, g)]
  BY <1>2, <1>4
<1>7. ids \in Seq(OwnIds(forms, g))
  BY <1>6
<1>8. Range(ids) = OwnIds(forms, g)
  BY <1>4, <1>5 DEF Range
<1> QED  BY <1>7, <1>8

(* What a closed set that holds the roots holds: all that is reached. *)
LEMMA ReachedIn ==
  ASSUME NEW forms, IsList(forms), NEW edges, IsList(edges), NEW g, NEW from, NEW C,
         from \subseteq C,
         \A y \in C : \A z : Child(edges, g, y, z) /\ HasForm(forms, <<g, z>>) => z \in C
  PROVE  reachable(forms, edges, g, from) \subseteq C
<1>1. PICK N \in Nat : N = Len(forms)
  BY DEF IsList
<1>2. PICK T : T = SUBSET C
  OBVIOUS
<1>3. ASSUME NEW known \in T PROVE WithBelow(forms, edges, g, known) \in T
  <2>1. PICK below : below = UNION {{k[1] : k \in Range(Children(edges, g, id))} : id \in known}
    BY Zenon
  <2>2. WithBelow(forms, edges, g, known) = known \cup {id \in below : HasForm(forms, <<g, id>>)}
    BY <2>1 DEF WithBelow
  <2>3. ASSUME NEW z \in below, HasForm(forms, <<g, z>>) PROVE z \in C
    <3>1. PICK y \in known : \E k \in Range(Children(edges, g, y)) : z = k[1]
      BY <2>1, <2>3
    <3>2. PICK k \in Range(Children(edges, g, y)) : z = k[1]
      BY <3>1
    <3>3. PICK e \in Range(edges) : e.set = g /\ e.parent = y /\ k = <<e.id, e.target>>
      BY ChildrenAre
    <3>4. Child(edges, g, y, z)
      BY <3>2, <3>3 DEF Child
    <3>5. y \in C
      BY <1>2
    <3> QED  BY <2>3, <3>4, <3>5
  <2> QED  BY <1>2, <2>2, <2>3
<1> DEFINE h == [i \in 1..N |-> [x \in T |-> WithBelow(forms, edges, g, x)]]
           Body(u) == [n \in 0..N |-> IF n = 0 THEN from ELSE WithBelow(forms, edges, g, u[n - 1])]
<1>4. h \in [1..N -> [T -> T]] /\ from \in T
  BY <1>2, <1>3
<1>5. PICK f \in [0..N -> T] : f[0] = from /\ \A i \in 1..N : f[i] = h[i][f[i - 1]]
  <2> HIDE DEF h
  <2>1. \E f : IsRun(N, T, from, h, f)
    BY <1>4, RunExists
  <2> QED  BY <2>1 DEF IsRun
<1>6. f = Body(f)
  <2>1. ASSUME NEW i \in 1..N PROVE f[i] = WithBelow(forms, edges, g, f[i - 1])
    <3>1. f[i - 1] \in T
      OBVIOUS
    <3> QED  BY <1>5, <3>1
  <2> QED  BY <1>5, <2>1
<1>7. PICK F : F = CHOOSE u : u = Body(u)
  OBVIOUS
<1>8. F = Body(F)
  <2> HIDE DEF Body
  <2> QED  BY <1>6, <1>7, Zenon
<1>9. reachable(forms, edges, g, from) = F[N]
  BY <1>1, <1>7 DEF reachable
<1>10. F[0] = from /\ \A i \in 1..N : F[i] = WithBelow(forms, edges, g, F[i - 1])
  BY <1>8
<1> DEFINE D == {i \in 0..N : F[i] \in T}
<1>11. 0 \in D
  BY <1>4, <1>10
<1>12. ASSUME NEW i \in 1..N, i - 1 \in D PROVE i \in D
  <2>1. F[i - 1] \in T /\ F[i] = WithBelow(forms, edges, g, F[i - 1])
    BY <1>10, <1>12
  <2>2. F[i] \in T
    BY <1>3, <2>1
  <2> QED  BY <2>2
<1>13. N \in D
  <2> HIDE DEF D
  <2>1. \A i \in 0..N : i \in D
    BY <1>11, <1>12, UpTo
  <2> QED  BY <2>1
<1> QED  BY <1>2, <1>9, <1>13

(* The roots are forms of the set, and a closed set that holds them holds   *)
(* every form of it: what no root reaches is a root of its own.             *)
LEMMA RootsCover ==
  ASSUME NEW forms, IsList(forms), NEW edges, IsList(edges), NEW g,
         NEW queue, queue = RootQueue(forms, edges, g)
  PROVE  /\ queue \in Seq(OwnIds(forms, g))
         /\ \A C : /\ Range(queue) \subseteq C
                   /\ \A y \in C : \A z : Child(edges, g, y, z) /\ HasForm(forms, <<g, z>>) => z \in C
                   => OwnIds(forms, g) \subseteq C
<1>1. PICK own : own = OfSet(forms, g)
  OBVIOUS
<1>2. PICK ids : ids = [i \in DOMAIN own |-> own[i].id]
  OBVIOUS
<1>3. PICK T : T = OwnIds(forms, g)
  OBVIOUS
<1>4. ids \in Seq(T) /\ Range(ids) = T
  BY <1>1, <1>2, <1>3, OwnIdsAre
<1>5. PICK I : I = {i \in DOMAIN ids : ids[i] \notin has_incoming(edges, g)}
  BY Zenon
<1>6. PICK roots : roots = Picked(ids, I)
  OBVIOUS
<1>7. PICK seen : seen = reachable(forms, edges, g, Range(roots))
  OBVIOUS
<1>8. PICK J : J = {i \in DOMAIN ids : ids[i] \notin seen /\ ids[i] \notin Range(roots)}
  BY Zenon
<1>9. PICK rest : rest = Picked(ids, J)
  OBVIOUS
<1>10. queue = roots \o Distinct(rest)
  BY <1>1, <1>2, <1>5, <1>6, <1>7, <1>8, <1>9 DEF RootQueue, QueueFrom, IdsOf, Keep
<1>11. roots \in Seq(T)
  BY <1>4, <1>6, PickedRange
<1>12. rest \in Seq(T) /\ \A x : x \in Range(rest) <=> \E k \in 1..Len(ids) : k \in J /\ x = ids[k]
  BY <1>4, <1>9, PickedRange
<1>13. Distinct(rest) \in Seq(T) /\ Range(Distinct(rest)) = Range(rest)
  BY <1>12, DistinctRange
<1>14. queue \in Seq(T) /\ Range(queue) = Range(roots) \cup Range(rest)
  BY <1>10, <1>11, <1>13, JoinedRange
<1>15. ASSUME NEW C, Range(queue) \subseteq C,
              \A y \in C : \A z : Child(edges, g, y, z) /\ HasForm(forms, <<g, z>>) => z \in C
       PROVE  T \subseteq C
  <2>1. Range(roots) \subseteq C /\ Range(rest) \subseteq C
    BY <1>14, <1>15
  <2>2. seen \subseteq C
    BY <1>7, <1>15, <2>1, ReachedIn
  <2>3. ASSUME NEW id \in T, id \notin seen, id \notin Range(roots) PROVE id \in Range(rest)
    <3>1. PICK k \in DOMAIN ids : ids[k] = id
      BY <1>4 DEF Range
    <3>2. k \in J /\ k \in 1..Len(ids)
      BY <1>4, <1>8, <2>3, <3>1
    <3> QED  BY <1>12, <3>1, <3>2
  <2> QED  BY <2>1, <2>2, <2>3
<1> QED  BY <1>3, <1>14, <1>15

(***************************************************************************)
(* The rows of a form set.                                                 *)
(***************************************************************************)
(* With one more root. *)
LEMMA WithRootRows ==
  ASSUME NEW forms, IsList(forms), NEW edges, IsList(edges), NEW expanded, NEW g, NEW id,
         HasForm(forms, <<g, id>>), NEW rows \in Seq(RowsOf(forms, edges)), NEW from,
         FitRows(forms, edges, expanded, g, from, rows),
         NEW r, r = WithRoot(rows, forms, edges, expanded, g, id)
  PROVE  r \in Seq(RowsOf(forms, edges)) /\ FitRows(forms, edges, expanded, g, from \cup {id}, r)
<1>1. CASE Shows(rows, g, id)
  <2>1. r = rows
    BY <1>1 DEF WithRoot
  <2>2. PICK i \in DOMAIN rows : rows[i].kind = "form" /\ <<rows[i].set, rows[i].id>> = <<g, id>>
    BY <1>1 DEF Shows
  <2>3. PICK x : x = rows[i]
    OBVIOUS
  <2>4. x \in Range(rows) /\ x.kind = "form" /\ x.set = g /\ x.id = id
    BY <2>2, <2>3 DEF Range
  <2>5. id \in ShownIds(rows, g)
    BY <2>4 DEF ShownIds
  <2>6. FitRows(forms, edges, expanded, g, from \cup {id}, rows)
    BY <2>5 DEF FitRows
  <2> QED  BY <2>1, <2>6
<1>2. CASE ~Shows(rows, g, id)
  <2>1. PICK q : q = emit_form(forms, edges, expanded, g, id)
    OBVIOUS
  <2>2. r = rows \o q
    BY <1>2, <2>1 DEF WithRoot
  <2>3. q \in Seq(RowsOf(forms, edges)) /\ FitRows(forms, edges, expanded, g, {id}, q)
    BY <2>1, EmitFormRows
  <2>4. r \in Seq(RowsOf(forms, edges))
    BY <2>2, <2>3
  <2>5. FitRows(forms, edges, expanded, g, from \cup {id}, rows \o q)
    BY <2>3, FitJoined
  <2> QED  BY <2>2, <2>4, <2>5
<1> QED  BY <1>1, <1>2

(* The tree of a form set is the rows of its roots. *)
LEMMA TreeOfSetFit ==
  ASSUME NEW forms, IsList(forms), NEW edges, IsList(edges), NEW expanded, NEW g,
         NEW r, r = tree_of_set(forms, edges, expanded, g)
  PROVE  /\ r \in Seq(RowsOf(forms, edges))
         /\ FitRows(forms, edges, expanded, g, Range(RootQueue(forms, edges, g)), r)
<1>1. PICK queue : queue = RootQueue(forms, edges, g)
  OBVIOUS
<1>2. queue \in Seq(OwnIds(forms, g))
  BY <1>1, RootsCover
<1>3. PICK N \in Nat : N = Len(queue)
  BY <1>2
<1>4. DOMAIN queue = 1..N
  BY <1>2, <1>3
<1>5. \A i \in 1..N : HasForm(forms, <<g, queue[i]>>)
  BY <1>2, <1>4 DEF OwnIds
<1>6. PICK A : A = Seq(RowsOf(forms, edges))
  OBVIOUS
<1> DEFINE Step(x, i) == WithRoot(x, forms, edges, expanded, g, queue[i])
           Fit(from, x) == FitRows(forms, edges, expanded, g, from, x)
           First(i) == {queue[j] : j \in 1..i}
           h == [i \in 1..N |-> [x \in A |-> IF Step(x, i) \in A THEN Step(x, i) ELSE <<>>]]
           Body(u) == [i \in 0..N |-> IF i = 0 THEN <<>> ELSE Step(u[i - 1], i)]
<1>7. \A i \in 1..N : \A x \in A : \A from :
         Fit(from, x) => Step(x, i) \in A /\ Fit(from \cup {queue[i]}, Step(x, i))
  <2> SUFFICES ASSUME NEW i \in 1..N, NEW x \in A, NEW from, Fit(from, x)
               PROVE  Step(x, i) \in A /\ Fit(from \cup {queue[i]}, Step(x, i))
    BY Zenon
  <2>1. PICK id : id = queue[i]
    OBVIOUS
  <2>2. PICK q : q = Step(x, i)
    OBVIOUS
  <2>3. HasForm(forms, <<g, id>>) /\ q = WithRoot(x, forms, edges, expanded, g, id)
    BY <1>5, <2>1, <2>2
  <2>4. q \in Seq(RowsOf(forms, edges)) /\ FitRows(forms, edges, expanded, g, from \cup {id}, q)
    <3> HIDE DEF Step
    <3> QED  BY <1>6, <2>3, WithRootRows
  <2> HIDE DEF Step
  <2> QED  BY <1>6, <2>1, <2>2, <2>4
<1>8. tree_of_set(forms, edges, expanded, g) = (CHOOSE u : u = Body(u))[N]
  BY <1>1, <1>3 DEF tree_of_set, QueueRows
<1>9. <<>> \in A /\ Fit({}, <<>>)
  <2>1. Range(<<>>) = {}
    BY DEF Range
  <2>2. ShownIds(<<>>, g) = {}
    BY <2>1 DEF ShownIds
  <2> QED  BY <1>6, <2>1, <2>2 DEF FitRows, ClosedUnder, BroughtRows
<1> HIDE DEF Step, Fit
<1>10. h \in [1..N -> [A -> A]]
  BY <1>9
<1>11. PICK f \in [0..N -> A] : f[0] = <<>> /\ \A i \in 1..N : f[i] = h[i][f[i - 1]]
  <2> HIDE DEF h
  <2>1. \E f : IsRun(N, A, <<>>, h, f)
    BY <1>9, <1>10, RunExists
  <2> QED  BY <2>1 DEF IsRun
<1> DEFINE Fine(i) == Fit(First(i), f[i]) /\ (i # 0 => f[i] = Step(f[i - 1], i))
           D == {i \in 0..N : Fine(i)}
<1>12. 0 \in D
  <2>1. First(0) = {}
    OBVIOUS
  <2>2. Fine(0)
    BY <1>9, <1>11, <2>1
  <2> HIDE DEF Fine
  <2> QED  BY <2>2
<1>13. ASSUME NEW i \in 1..N, i - 1 \in D PROVE i \in D
  <2>1. Fit(First(i - 1), f[i - 1])
    BY <1>13
  <2>2. PICK x \in A : x = f[i - 1]
    BY <1>11
  <2>3. Step(x, i) \in A /\ Fit(First(i - 1) \cup {queue[i]}, Step(x, i))
    BY <1>7, <2>1, <2>2
  <2>4. First(i) = First(i - 1) \cup {queue[i]}
    <3>1. \A j : j \in 1..i <=> j \in 1..(i - 1) \/ j = i
      OBVIOUS
    <3> QED  BY <3>1
  <2>5. f[i] = Step(x, i)
    BY <1>11, <2>2, <2>3
  <2>6. Fine(i)
    <3> HIDE DEF First
    <3> QED  BY <2>2, <2>3, <2>4, <2>5
  <2> HIDE DEF Fine
  <2> QED  BY <2>6
<1>14. \A i \in 0..N : Fine(i)
  <2>1. \A i \in 0..N : i \in D
    <3> HIDE DEF D
    <3> QED  BY <1>12, <1>13, UpTo
  <2> HIDE DEF Fine
  <2> QED  BY <2>1
<1>15. f = Body(f)
  <2>1. \A i \in 1..N : f[i] = Step(f[i - 1], i)
    <3> HIDE DEF First
    <3> QED  BY <1>14
  <2> QED  BY <1>11, <2>1
<1>16. PICK F : F = CHOOSE u : u = Body(u)
  OBVIOUS
<1>17. F = Body(F)
  <2> HIDE DEF Body
  <2> QED  BY <1>15, <1>16, Zenon
<1>18. \A i \in 0..N : F[i] = f[i]
  <2> DEFINE S == {i \in 0..N : F[i] = f[i]}
  <2>1. 0 \in S
    BY <1>11, <1>17
  <2>2. ASSUME NEW i \in 1..N, i - 1 \in S PROVE i \in S
    <3>1. F[i] = Step(F[i - 1], i) /\ f[i] = Step(f[i - 1], i)
      BY <1>15, <1>17
    <3> QED  BY <2>2, <3>1
  <2>3. \A i \in 0..N : i \in S
    <3> HIDE DEF S
    <3> QED  BY <2>1, <2>2, UpTo
  <2> QED  BY <2>3
<1>19. r = f[N]
  BY <1>8, <1>16, <1>18
<1>20. First(N) = Range(queue)
  BY <1>4 DEF Range
<1>21. Fit(Range(queue), r)
  <2>1. Fit(First(N), f[N])
    <3> HIDE DEF First
    <3> QED  BY <1>14
  <2> HIDE DEF First
  <2> QED  BY <1>19, <1>20, <2>1
<1> QED  BY <1>1, <1>6, <1>11, <1>19, <1>21 DEF Fit

(* The tree of a form set is made of rows; with every parent open it shows  *)
(* every form of the set.                                                   *)
LEMMA TreeOfSetRows ==
  ASSUME NEW forms, IsList(forms), NEW edges, IsList(edges), NEW expanded, NEW g,
         NEW r, r = tree_of_set(forms, edges, expanded, g)
  PROVE  /\ r \in Seq(RowsOf(forms, edges))
         /\ ParentsOpen(forms, edges, g, expanded) => OwnIds(forms, g) \subseteq ShownIds(r, g)
<1>1. PICK queue : queue = RootQueue(forms, edges, g)
  OBVIOUS
<1>2. r \in Seq(RowsOf(forms, edges)) /\ FitRows(forms, edges, expanded, g, Range(queue), r)
  BY <1>1, TreeOfSetFit
<1>3. ASSUME ParentsOpen(forms, edges, g, expanded) PROVE OwnIds(forms, g) \subseteq ShownIds(r, g)
  <2>1. PICK C : C = ShownIds(r, g) \cap OwnIds(forms, g)
    OBVIOUS
  <2>2. queue \in Seq(OwnIds(forms, g)) /\ Range(queue) \subseteq OwnIds(forms, g)
    <3>1. queue \in Seq(OwnIds(forms, g))
      BY <1>1, RootsCover
    <3> QED  BY <3>1 DEF Range
  <2>3. Range(queue) \subseteq C
    BY <1>2, <2>1, <2>2 DEF FitRows
  <2>4. ASSUME NEW y \in C, NEW z, Child(edges, g, y, z), HasForm(forms, <<g, z>>) PROVE z \in C
    <3>1. y \in ShownIds(r, g) /\ HasForm(forms, <<g, y>>)
      BY <2>1 DEF OwnIds
    <3>2. Opens(forms, edges, expanded, g, y, z)
      BY <1>3, <2>4, <3>1 DEF ParentsOpen, Opens
    <3>3. z \in ShownIds(r, g)
      BY <1>2, <3>1, <3>2 DEF FitRows, ClosedUnder
    <3>4. z \in OwnIds(forms, g)
      BY <2>4, IdOfForm DEF OwnIds
    <3> QED  BY <2>1, <3>3, <3>4
  <2>5. OwnIds(forms, g) \subseteq C
    BY <1>1, <2>3, <2>4, RootsCover
  <2> QED  BY <2>1, <2>5
<1> QED  BY <1>2, <1>3

(* Where nothing that is shown was closed, no row is lost. *)
LEMMA TreeStays ==
  ASSUME NEW forms, IsList(forms), NEW edges, IsList(edges), NEW before, NEW after, NEW g,
         NEW r, r = tree_of_set(forms, edges, before, g),
         NEW q, q = tree_of_set(forms, edges, after, g),
         \A y \in ShownIds(q, g) : <<g, y>> \in before => <<g, y>> \in after
  PROVE  Range(r) \subseteq Range(q)
<1>1. PICK roots : roots = Range(RootQueue(forms, edges, g))
  OBVIOUS
<1>2. FitRows(forms, edges, before, g, roots, r)
  BY <1>1, TreeOfSetFit
<1>3. FitRows(forms, edges, after, g, roots, q)
  BY <1>1, TreeOfSetFit
<1>4. ClosedUnder(forms, edges, before, g, ShownIds(q, g))
  BY <1>3 DEF FitRows, ClosedUnder, Opens
<1>5. ShownIds(r, g) \subseteq ShownIds(q, g)
  BY <1>2, <1>3, <1>4 DEF FitRows
<1>6. ASSUME NEW x \in Range(r) PROVE x \in Range(q)
  <2>1. PICK y \in ShownIds(r, g) : Brings(forms, edges, before, g, y, x)
    BY <1>2 DEF FitRows, BroughtRows
  <2>2. y \in ShownIds(q, g)
    BY <1>5
  <2>3. Brings(forms, edges, after, g, y, x)
    BY <2>1, <2>2 DEF Brings
  <2> QED  BY <1>3, <2>2, <2>3 DEF FitRows, BroughtRows
<1> QED  BY <1>6

(***************************************************************************)
(* The lists.                                                              *)
(***************************************************************************)
Sets(forms) == {f.set : f \in Range(forms)}

(* Every form set has its place in the order. *)
LEMMA OrderIs ==
  ASSUME NEW forms, IsList(forms)
  PROVE  formset_order(forms) \in Seq(Sets(forms)) /\ Range(formset_order(forms)) = Sets(forms)
<1>1. PICK s : s = [i \in DOMAIN forms |-> forms[i].set]
  OBVIOUS
<1>2. PICK N \in Nat : DOMAIN forms = 1..N
  BY DEF IsList
<1>3. \A g : g \in Sets(forms) <=> \E i \in 1..N : g = forms[i].set
  BY <1>2 DEF Sets, Range
<1>4. s \in [1..N -> Sets(forms)] /\ DOMAIN s = 1..N /\ \A i \in 1..N : s[i] = forms[i].set
  BY <1>1, <1>2, <1>3
<1>5. s \in Seq(Sets(forms))
  BY <1>4
<1>6. Range(s) = Sets(forms)
  BY <1>3, <1>4 DEF Range
<1>7. formset_order(forms) = Distinct(s)
  BY <1>1 DEF formset_order
<1> QED  BY <1>5, <1>6, <1>7, DistinctRange

SetParts(order, expanded, B) ==
  [n \in DOMAIN order |-> <<SetRow(order[n])>> \o (IF <<order[n]>> \in expanded THEN B[order[n]] ELSE <<>>)]

InSetParts(forms, expanded, B, x) ==
  \E g \in Sets(forms) : x = SetRow(g) \/ (<<g>> \in expanded /\ x \in Range(B[g]))

(* A row for every form set, and below it the rows B of the open ones. *)
LEMMA BySet ==
  ASSUME NEW forms, IsList(forms), NEW edges, NEW order, order = formset_order(forms), NEW expanded,
         NEW B \in [Sets(forms) -> Seq(RowsOf(forms, edges))], NEW ss,
         ss = SetParts(order, expanded, B)
  PROVE  /\ FlattenSeq(ss) \in Seq(RowsOf(forms, edges))
         /\ \A x : x \in Range(FlattenSeq(ss)) <=> InSetParts(forms, expanded, B, x)
<1>1. order \in Seq(Sets(forms)) /\ Range(order) = Sets(forms)
  BY OrderIs
<1>2. PICK N \in Nat : N = Len(order) /\ DOMAIN order = 1..N
  BY <1>1
<1>3. PICK R : R = RowsOf(forms, edges)
  OBVIOUS
<1> DEFINE Open(g) == IF <<g>> \in expanded THEN B[g] ELSE <<>>
           Part(g) == <<SetRow(g)>> \o Open(g)
<1>4. ss = [n \in 1..N |-> Part(order[n])]
  BY <1>2 DEF SetParts
<1>5. \A g \in Sets(forms) : Open(g) \in Seq(R)
  BY <1>3
<1>12. \A g, x : x \in Range(Open(g)) <=> <<g>> \in expanded /\ x \in Range(B[g])
  <2>1. Range(<<>>) = {}
    BY DEF Range
  <2> QED  BY <2>1 DEF Open
<1> HIDE DEF Open
<1>6. \A g \in Sets(forms) : Part(g) \in Seq(R) /\ \A x : x \in Range(Part(g)) <=> x = SetRow(g) \/ x \in Range(Open(g))
  <2>1. ASSUME NEW g \in Sets(forms)
        PROVE  Part(g) \in Seq(R) /\ \A x : x \in Range(Part(g)) <=> x = SetRow(g) \/ x \in Range(Open(g))
    <3>1. PICK row, rows : row = SetRow(g) /\ rows = Open(g)
      OBVIOUS
    <3>2. row \in R
      BY <1>3, <3>1 DEF RowsOf, Sets
    <3>3. rows \in Seq(R)
      BY <1>5, <3>1
    <3>4. <<row>> \in Seq(R) /\ Range(<<row>>) = {row}
      BY <3>2 DEF Range
    <3>5. <<row>> \o rows \in Seq(R) /\ Range(<<row>> \o rows) = Range(<<row>>) \cup Range(rows)
      BY <3>3, <3>4, JoinedRange
    <3> QED  BY <3>1, <3>4, <3>5
  <2> HIDE DEF Part
  <2> QED  BY <2>1
<1> HIDE DEF Part
<1>7. \A n \in 1..N : order[n] \in Sets(forms)
  BY <1>1, <1>2
<1>8. ss \in [1..N -> Seq(R)] /\ \A n \in 1..N : ss[n] = Part(order[n])
  <2>1. PICK A : A = Seq(R)
    OBVIOUS
  <2>2. \A n \in 1..N : Part(order[n]) \in A
    BY <1>6, <1>7, <2>1
  <2>3. ss \in [1..N -> A] /\ \A n \in 1..N : ss[n] = Part(order[n])
    BY ONLY <1>4, <2>2
  <2> QED  BY <2>1, <2>3
<1>9. ss \in Seq(Seq(R)) /\ Len(ss) = N
  BY <1>8
<1>10. /\ FlattenSeq(ss) \in Seq(R)
       /\ \A x : x \in Range(FlattenSeq(ss)) <=> \E i \in 1..N : x \in Range(ss[i])
  BY <1>9, FlattenRange
<1>11. \A g : g \in Sets(forms) <=> \E n \in 1..N : g = order[n]
  BY <1>1, <1>2 DEF Range
<1>13. ASSUME NEW x PROVE x \in Range(FlattenSeq(ss)) <=>
                     \E g \in Sets(forms) : x = SetRow(g) \/ (<<g>> \in expanded /\ x \in Range(B[g]))
  <2>1. x \in Range(FlattenSeq(ss)) <=> \E n \in 1..N : x \in Range(Part(order[n]))
    BY <1>8, <1>10
  <2>2. \A n \in 1..N : x \in Range(Part(order[n])) <=> x = SetRow(order[n]) \/ x \in Range(Open(order[n]))
    BY <1>6, <1>7
  <2>3. x \in Range(FlattenSeq(ss)) <=> \E n \in 1..N : x = SetRow(order[n]) \/ x \in Range(Open(order[n]))
    BY <2>1, <2>2
  <2>4. x \in Range(FlattenSeq(ss)) <=> \E g \in Sets(forms) : x = SetRow(g) \/ x \in Range(Open(g))
    BY ONLY <1>11, <2>3
  <2> QED  BY <1>12, <2>4
<1> QED  BY <1>3, <1>10, <1>13 DEF InSetParts

FlatRows(forms, g) == [i \in DOMAIN OfSet(forms, g) |-> FormRow(OfSet(forms, g)[i], FALSE)]

(* The rows of a form set of the flat list. *)
LEMMA FlatRowsAre ==
  ASSUME NEW forms, IsList(forms), NEW edges, NEW g
  PROVE  /\ FlatRows(forms, g) \in Seq(RowsOf(forms, edges))
         /\ \A x : x \in Range(FlatRows(forms, g)) <=> \E f \in Range(forms) : f.set = g /\ x = FormRow(f, FALSE)
<1>1. PICK own : own = OfSet(forms, g)
  OBVIOUS
<1>2. own \in Seq(Range(forms)) /\ \A f : f \in Range(own) <=> f \in Range(forms) /\ f.set = g
  BY <1>1, OfSetIs
<1>3. PICK N \in Nat : DOMAIN own = 1..N
  BY <1>2
<1>4. PICK b \in BOOLEAN : b = FALSE
  OBVIOUS
<1>5. PICK r : r = [i \in 1..N |-> FormRow(own[i], b)]
  OBVIOUS
<1>6. FlatRows(forms, g) = r
  BY <1>1, <1>3, <1>4, <1>5 DEF FlatRows
<1>7. \A f : f \in Range(own) <=> \E i \in 1..N : f = own[i]
  BY <1>3 DEF Range
<1>8. \A f \in Range(own) : FormRow(f, b) \in RowsOf(forms, edges)
  BY <1>2 DEF RowsOf
<1>9. DOMAIN r = 1..N /\ \A i \in 1..N : r[i] = FormRow(own[i], b)
  BY ONLY <1>5
<1>10. r \in Seq(RowsOf(forms, edges))
  <2>1. \A i \in 1..N : FormRow(own[i], b) \in RowsOf(forms, edges)
    BY <1>7, <1>8
  <2>2. r \in [1..N -> RowsOf(forms, edges)]
    BY ONLY <1>5, <2>1
  <2> QED  BY <2>2
<1>11. \A x : x \in Range(r) <=> \E i \in 1..N : x = FormRow(own[i], b)
  BY <1>9 DEF Range
<1>12. \A x : x \in Range(r) <=> \E f \in Range(own) : x = FormRow(f, b)
  BY ONLY <1>7, <1>11
<1> QED  BY <1>2, <1>4, <1>6, <1>10, <1>12

(* The flat list. *)
LEMMA BuildRowsAre ==
  ASSUME NEW forms, IsList(forms), NEW edges, NEW expanded, NEW r, r = build_rows(forms, expanded)
  PROVE  /\ r \in Seq(RowsOf(forms, edges))
         /\ \A x : x \in Range(r) <=>
                     \E g \in Sets(forms) : x = SetRow(g) \/ (<<g>> \in expanded /\ x \in Range(FlatRows(forms, g)))
<1>1. PICK order : order = formset_order(forms)
  OBVIOUS
<1>2. PICK B : B = [g \in Sets(forms) |-> FlatRows(forms, g)]
  OBVIOUS
<1>3. B \in [Sets(forms) -> Seq(RowsOf(forms, edges))] /\ \A g \in Sets(forms) : B[g] = FlatRows(forms, g)
  <2>1. PICK A : A = Seq(RowsOf(forms, edges))
    OBVIOUS
  <2>2. \A g \in Sets(forms) : FlatRows(forms, g) \in A
    BY <2>1, FlatRowsAre
  <2> QED  BY <1>2, <2>1, <2>2
<1>4. order \in Seq(Sets(forms))
  BY <1>1, OrderIs
<1>5. \A n \in DOMAIN order : order[n] \in Sets(forms)
  BY <1>4
<1>6. PICK ss : ss = SetParts(order, expanded, B)
  OBVIOUS
<1>7. ss = [n \in DOMAIN order |-> <<SetRow(order[n])>> \o (IF <<order[n]>> \in expanded THEN FlatRows(forms, order[n]) ELSE <<>>)]
  <2>1. \A n \in DOMAIN order : B[order[n]] = FlatRows(forms, order[n])
    BY <1>3, <1>5
  <2> QED  BY <1>6, <2>1 DEF SetParts
<1>8. r = FlattenSeq(ss)
  BY <1>1, <1>7 DEF build_rows, FlatRows
<1>9. /\ FlattenSeq(ss) \in Seq(RowsOf(forms, edges))
      /\ \A x : x \in Range(FlattenSeq(ss)) <=> InSetParts(forms, expanded, B, x)
  BY <1>1, <1>3, <1>6, BySet
<1>10. r \in Seq(RowsOf(forms, edges))
  BY <1>8, <1>9
<1>11. ASSUME NEW x
       PROVE  x \in Range(r) <=> \E g \in Sets(forms) : x = SetRow(g) \/ (<<g>> \in expanded /\ x \in Range(FlatRows(forms, g)))
  <2>1. x \in Range(r) <=> \E g \in Sets(forms) : x = SetRow(g) \/ (<<g>> \in expanded /\ x \in Range(B[g]))
    BY <1>8, <1>9 DEF InSetParts
  <2>2. \A g \in Sets(forms) : B[g] = FlatRows(forms, g)
    BY <1>3
  <2> QED  BY ONLY <2>1, <2>2
<1> QED  BY ONLY <1>10, <1>11

(* The tree. *)
LEMMA BuildTreeRowsAre ==
  ASSUME NEW forms, IsList(forms), NEW edges, IsList(edges), NEW expanded,
         NEW r, r = build_tree_rows(forms, edges, expanded)
  PROVE  /\ r \in Seq(RowsOf(forms, edges))
         /\ \A x : x \in Range(r) <=>
                     \E g \in Sets(forms) :
                        x = SetRow(g) \/ (<<g>> \in expanded /\ x \in Range(tree_of_set(forms, edges, expanded, g)))
<1>1. PICK order : order = formset_order(forms)
  OBVIOUS
<1>2. PICK B : B = [g \in Sets(forms) |-> tree_of_set(forms, edges, expanded, g)]
  OBVIOUS
<1>3. /\ B \in [Sets(forms) -> Seq(RowsOf(forms, edges))]
      /\ \A g \in Sets(forms) : B[g] = tree_of_set(forms, edges, expanded, g)
  <2>1. PICK A : A = Seq(RowsOf(forms, edges))
    OBVIOUS
  <2>2. ASSUME NEW g \in Sets(forms) PROVE tree_of_set(forms, edges, expanded, g) \in A
    <3>1. PICK q : q = tree_of_set(forms, edges, expanded, g)
      OBVIOUS
    <3>2. q \in Seq(RowsOf(forms, edges))
      BY <3>1, TreeOfSetRows
    <3> QED  BY <2>1, <3>1, <3>2
  <2> QED  BY <1>2, <2>1, <2>2
<1>4. order \in Seq(Sets(forms))
  BY <1>1, OrderIs
<1>5. \A n \in DOMAIN order : order[n] \in Sets(forms)
  BY <1>4
<1>6. PICK ss : ss = SetParts(order, expanded, B)
  OBVIOUS
<1>7. ss = [n \in DOMAIN order |-> <<SetRow(order[n])>> \o
              (IF <<order[n]>> \in expanded THEN tree_of_set(forms, edges, expanded, order[n]) ELSE <<>>)]
  <2>1. \A n \in DOMAIN order : B[order[n]] = tree_of_set(forms, edges, expanded, order[n])
    BY <1>3, <1>5
  <2> QED  BY <1>6, <2>1 DEF SetParts
<1>8. r = FlattenSeq(ss)
  BY <1>1, <1>7 DEF build_tree_rows
<1>9. /\ FlattenSeq(ss) \in Seq(RowsOf(forms, edges))
      /\ \A x : x \in Range(FlattenSeq(ss)) <=> InSetParts(forms, expanded, B, x)
  BY <1>1, <1>3, <1>6, BySet
<1>10. r \in Seq(RowsOf(forms, edges))
  BY <1>8, <1>9
<1>11. ASSUME NEW x
       PROVE  x \in Range(r) <=> \E g \in Sets(forms) : x = SetRow(g) \/ (<<g>> \in expanded /\ x \in Range(tree_of_set(forms, edges, expanded, g)))
  <2>1. x \in Range(r) <=> \E g \in Sets(forms) : x = SetRow(g) \/ (<<g>> \in expanded /\ x \in Range(B[g]))
    BY <1>8, <1>9 DEF InSetParts
  <2>2. \A g \in Sets(forms) : B[g] = tree_of_set(forms, edges, expanded, g)
    BY <1>3
  <2> QED  BY ONLY <2>1, <2>2
<1> QED  BY ONLY <1>10, <1>11

(* The list, flat or as a tree, is made of rows. *)
LEMMA FormsRowsAre ==
  ASSUME NEW f, IsList(f.forms), IsList(f.edges)
  PROVE  forms_rows(f) \in Seq(RowsOf(f.forms, f.edges))
<1>1. PICK a, b, e : a = f.forms /\ b = f.edges /\ e = f.expanded
  OBVIOUS
<1>2. IsList(a) /\ IsList(b)
  BY <1>1
<1>3. build_rows(a, e) \in Seq(RowsOf(a, b))
  <2>1. PICK r : r = build_rows(a, e)
    OBVIOUS
  <2>2. r \in Seq(RowsOf(a, b))
    BY <1>2, <2>1, BuildRowsAre
  <2> QED  BY <2>1, <2>2
<1>4. build_tree_rows(a, b, e) \in Seq(RowsOf(a, b))
  <2>1. PICK r : r = build_tree_rows(a, b, e)
    OBVIOUS
  <2>2. r \in Seq(RowsOf(a, b))
    BY <1>2, <2>1, BuildTreeRowsAre
  <2> QED  BY <2>1, <2>2
<1>5. forms_rows(f) = build_rows(a, e) \/ forms_rows(f) = build_tree_rows(a, b, e)
  BY <1>1 DEF forms_rows
<1> QED  BY <1>1, <1>3, <1>4, <1>5

(* The keys of the forms that are shown. *)
ShownKeys(rows) == {FormKey(rows[i]) : i \in {j \in DOMAIN rows : rows[j].kind = "form"}}

(* Opened completely, both lists show every form. *)
LEMMA EveryForm ==
  ASSUME NEW forms, IsList(forms), NEW edges, IsList(edges), NEW all, all = all_row_keys(forms, edges)
  PROVE  ShownKeys(build_tree_rows(forms, edges, all)) = ShownKeys(build_rows(forms, all))
<1>1. \A rows, key : key \in ShownKeys(rows) <=> \E x \in Range(rows) : x.kind = "form" /\ key = <<x.set, x.id>>
  <2> SUFFICES ASSUME NEW rows, NEW key
               PROVE  key \in ShownKeys(rows) <=> \E x \in Range(rows) : x.kind = "form" /\ key = <<x.set, x.id>>
    OBVIOUS
  <2>1. key \in ShownKeys(rows) <=> \E i \in DOMAIN rows : rows[i].kind = "form" /\ key = FormKey(rows[i])
    BY DEF ShownKeys
  <2> QED  BY <2>1 DEF Range, FormKey
<1>2. PICK K : K = {<<f.set, f.id>> : f \in Range(forms)}
  OBVIOUS
<1>3. \A g \in Sets(forms) : <<g>> \in all
  BY DEF all_row_keys, Sets, Range
<1>4. \A g : ParentsOpen(forms, edges, g, all)
  <2> SUFFICES ASSUME NEW g, NEW y, NEW z, HasForm(forms, <<g, y>>), Child(edges, g, y, z)
               PROVE  <<g, y>> \in all
    BY DEF ParentsOpen
  <2>1. PICK i \in DOMAIN forms : FormKey(forms[i]) = <<g, y>>
    BY DEF HasForm
  <2>2. forms[i].set = g /\ forms[i].id = y
    BY <2>1 DEF FormKey
  <2>3. PICK e \in Range(edges) : e.set = g /\ e.parent = y
    BY DEF Child
  <2>4. \E e1 \in Range(edges) : e1.set = forms[i].set /\ e1.parent = forms[i].id
    BY <2>2, <2>3
  <2>5. FormKey(forms[i]) \in all
    BY <2>4 DEF all_row_keys
  <2> QED  BY <2>1, <2>5
<1>5. \A key : HasForm(forms, key) <=> key \in K
  BY <1>2 DEF HasForm, FormKey, Range
<1>6. ASSUME NEW rows \in Seq(RowsOf(forms, edges)) PROVE ShownKeys(rows) \subseteq K
  <2>1. ASSUME NEW key \in ShownKeys(rows) PROVE key \in K
    <3>1. PICK x \in Range(rows) : x.kind = "form" /\ key = <<x.set, x.id>>
      BY <1>1
    <3>2. x \in RowsOf(forms, edges)
      BY DEF Range
    <3>3. HasForm(forms, <<x.set, x.id>>)
      BY <3>1, <3>2, FormRowIs
    <3> QED  BY <1>5, <3>1, <3>3
  <2> QED  BY <2>1
<1>7. PICK t : t = build_tree_rows(forms, edges, all)
  OBVIOUS
<1>8. PICK r : r = build_rows(forms, all)
  OBVIOUS
<1>9. /\ r \in Seq(RowsOf(forms, edges))
      /\ \A x : x \in Range(r) <=> \E g \in Sets(forms) : x = SetRow(g) \/ (<<g>> \in all /\ x \in Range(FlatRows(forms, g)))
  BY <1>8, BuildRowsAre
<1>10. /\ t \in Seq(RowsOf(forms, edges))
       /\ \A x : x \in Range(t) <=>
                   \E g \in Sets(forms) : x = SetRow(g) \/ (<<g>> \in all /\ x \in Range(tree_of_set(forms, edges, all, g)))
  BY <1>7, BuildTreeRowsAre
<1>11. ASSUME NEW f \in Range(forms) PROVE <<f.set, f.id>> \in ShownKeys(r)
  <2>1. PICK g, id : g = f.set /\ id = f.id
    OBVIOUS
  <2>2. g \in Sets(forms) /\ <<g>> \in all
    BY <1>3, <2>1 DEF Sets
  <2>3. PICK b \in BOOLEAN : b = FALSE
    OBVIOUS
  <2>4. PICK x : x = FormRow(f, b)
    OBVIOUS
  <2>5. x \in Range(FlatRows(forms, g))
    BY <2>1, <2>3, <2>4, FlatRowsAre
  <2>6. x.kind = "form" /\ x.set = g /\ x.id = id
    BY <2>1, <2>4 DEF FormRow
  <2>7. x \in Range(r)
    BY <1>9, <2>2, <2>5
  <2> QED  BY <1>1, <2>1, <2>6, <2>7
<1>12. ASSUME NEW f \in Range(forms) PROVE <<f.set, f.id>> \in ShownKeys(t)
  <2>1. PICK g, id : g = f.set /\ id = f.id
    OBVIOUS
  <2>2. g \in Sets(forms) /\ <<g>> \in all
    BY <1>3, <2>1 DEF Sets
  <2>3. HasForm(forms, <<g, id>>)
    BY <1>2, <1>5, <2>1
  <2>4. id \in OwnIds(forms, g)
    BY <2>3, IdOfForm DEF OwnIds
  <2>5. PICK q : q = tree_of_set(forms, edges, all, g)
    OBVIOUS
  <2>6. id \in ShownIds(q, g)
    BY <1>4, <2>4, <2>5, TreeOfSetRows
  <2>7. PICK x \in Range(q) : x.kind = "form" /\ x.set = g /\ x.id = id
    BY <2>6 DEF ShownIds
  <2>8. x \in Range(t)
    BY <1>10, <2>2, <2>5
  <2> QED  BY <1>1, <2>1, <2>7, <2>8
<1>13. ShownKeys(t) = K /\ ShownKeys(r) = K
  BY <1>2, <1>6, <1>9, <1>10, <1>11, <1>12
<1> QED  BY <1>7, <1>8, <1>13

(***************************************************************************)
(* Opening and closing.                                                    *)
(***************************************************************************)
(* What is opened or closed is a form set, or in the tree a form of the set *)
(* of the selected row.                                                     *)
LEMMA KeyShape ==
  ASSUME NEW f, NEW row, row.kind \in {"set", "form", "dangling"}, NEW key, key = ExpandKey(f, row), key # <<>>
  PROVE  /\ row.kind \in {"set", "form"}
         /\ \/ key = <<row.set>>
            \/ row.kind = "form" /\ ~f.flat /\ \E p : key = <<row.set, p>>
<1>1. PICK flat \in BOOLEAN : flat <=> f.flat
  OBVIOUS
<1>2. PICK kids \in BOOLEAN : kids <=> row.kids
  OBVIOUS
<1>3. PICK parent : parent = Keep(f.edges, LAMBDA e : e.set = row.set /\ e.id = row.id)
  OBVIOUS
<1>4. key = CASE row.kind = "set" -> <<row.set>>
              [] row.kind = "form" /\ ~flat /\ kids -> <<row.set, row.id>>
              [] row.kind = "form" /\ ~flat /\ ~kids /\ parent # <<>> -> <<row.set, parent[1].parent>>
              [] row.kind = "form" /\ (flat \/ (~kids /\ parent = <<>>)) -> <<row.set>>
              [] OTHER -> <<>>
  BY <1>1, <1>2, <1>3, Zenon DEF ExpandKey, FormKey
<1>5. CASE row.kind = "set"
  BY <1>4, <1>5
<1>6. CASE row.kind = "dangling"
  BY <1>4, <1>6
<1>7. CASE row.kind = "form"
  BY <1>1, <1>4, <1>7
<1> QED  BY <1>5, <1>6, <1>7

(* The flat list and the tree, by the form sets. *)
LEMMA ListBySet ==
  ASSUME NEW f, IsList(f.forms), IsList(f.edges), NEW rows, rows = forms_rows(f)
  PROVE  \A x : x \in Range(rows) <=>
           \E g \in Sets(f.forms) :
             \/ x = SetRow(g)
             \/ <<g>> \in f.expanded /\ f.flat /\ x \in Range(FlatRows(f.forms, g))
             \/ <<g>> \in f.expanded /\ ~f.flat /\ x \in Range(tree_of_set(f.forms, f.edges, f.expanded, g))
<1>1. PICK a, b, e : a = f.forms /\ b = f.edges /\ e = f.expanded
  OBVIOUS
<1>2. IsList(a) /\ IsList(b)
  BY <1>1
<1>3. CASE f.flat
  <2>1. rows = build_rows(a, e)
    BY <1>1, <1>3 DEF forms_rows
  <2>2. \A x : x \in Range(rows) <=>
           \E g \in Sets(a) : x = SetRow(g) \/ (<<g>> \in e /\ x \in Range(FlatRows(a, g)))
    BY <1>2, <2>1, BuildRowsAre
  <2> QED  BY <1>1, <1>3, <2>2
<1>4. CASE ~f.flat
  <2>1. rows = build_tree_rows(a, b, e)
    BY <1>1, <1>4 DEF forms_rows
  <2>2. \A x : x \in Range(rows) <=>
           \E g \in Sets(a) : x = SetRow(g) \/ (<<g>> \in e /\ x \in Range(tree_of_set(a, b, e, g)))
    BY <1>2, <2>1, BuildTreeRowsAre
  <2> QED  BY <1>1, <1>4, <2>2
<1> QED  BY <1>3, <1>4

(* A row of the same form or form set, or the row that the key names. *)
Lands(flat, row, key, x) ==
  \/ x.kind = row.kind /\ FormKey(x) = FormKey(row)
  \/ IsRow(x, key) /\ (x.kind = "set" \/ ~flat)

(* After a row was opened or closed, one of them is there. *)
LEMMA FoldFound ==
  ASSUME NEW f, IsList(f.forms), IsList(f.edges), NEW row \in Range(forms_rows(f)),
         NEW key, key = ExpandKey(f, row), key # <<>>,
         NEW h, h.forms = f.forms, h.edges = f.edges, h.flat = f.flat,
         h.expanded = f.expanded \cup {key} \/ h.expanded = f.expanded \ {key}
  PROVE  \E x \in Range(forms_rows(h)) : Lands(h.flat, row, key, x)
<1>1. PICK forms, edges, before, after :
          forms = f.forms /\ edges = f.edges /\ before = f.expanded /\ after = h.expanded
  OBVIOUS
<1>2. IsList(forms) /\ IsList(edges) /\ (after = before \cup {key} \/ after = before \ {key})
  BY <1>1
<1>3. PICK rows : rows = forms_rows(f)
  OBVIOUS
<1>4. PICK new : new = forms_rows(h)
  OBVIOUS
<1>5. row \in RowsOf(forms, edges)
  <2>1. rows \in Seq(RowsOf(f.forms, f.edges))
    BY <1>3, FormsRowsAre
  <2> QED  BY <1>1, <1>3, <2>1 DEF Range
<1>6. row.kind \in {"set", "form", "dangling"}
  BY <1>5 DEF RowsOf, FormRow, SetRow, DanglingRef
<1>7. /\ row.kind \in {"set", "form"}
      /\ key = <<row.set>> \/ (row.kind = "form" /\ ~f.flat /\ \E p : key = <<row.set, p>>)
  BY <1>6, KeyShape
<1>8. \A x : x \in Range(new) <=>
         \E g \in Sets(forms) :
           \/ x = SetRow(g)
           \/ <<g>> \in after /\ h.flat /\ x \in Range(FlatRows(forms, g))
           \/ <<g>> \in after /\ ~h.flat /\ x \in Range(tree_of_set(forms, edges, after, g))
  BY <1>1, <1>4, ListBySet
<1>9. CASE key = <<row.set>>
  <2>1. row.set \in Sets(forms)
    <3>1. PICK i \in Range(forms) : row.set = i.set
      BY <1>5, <1>7 DEF RowsOf, FormRow, SetRow, DanglingRef
    <3> QED  BY <3>1 DEF Sets
  <2>2. PICK x : x = SetRow(row.set)
    OBVIOUS
  <2>3. x \in Range(new)
    BY <1>8, <2>1, <2>2
  <2>4. x.kind = "set" /\ x.set = row.set
    BY <2>2 DEF SetRow
  <2>5. Lands(h.flat, row, key, x)
    BY <1>9, <2>4 DEF Lands, IsRow
  <2> QED  BY <1>4, <2>3, <2>5
<1>10. CASE key # <<row.set>>
  <2>1. row.kind = "form" /\ ~f.flat /\ ~h.flat
    BY <1>7, <1>10
  <2>2. PICK p : key = <<row.set, p>>
    BY <1>7, <1>10
  <2>3. PICK g \in Sets(forms) : <<g>> \in before /\ row \in Range(tree_of_set(forms, edges, before, g))
    <3>1. \E g \in Sets(f.forms) :
             \/ row = SetRow(g)
             \/ <<g>> \in f.expanded /\ f.flat /\ row \in Range(FlatRows(f.forms, g))
             \/ <<g>> \in f.expanded /\ ~f.flat /\ row \in Range(tree_of_set(f.forms, f.edges, f.expanded, g))
      BY <1>3, ListBySet
    <3>2. \A g : row # SetRow(g)
      BY <2>1 DEF SetRow
    <3> QED  BY <1>1, <2>1, <3>1, <3>2
  <2>4. <<g>> \in after
    <3>1. <<g>> # key
      BY <2>2
    <3> QED  BY <1>2, <2>3, <3>1
  <2>5. PICK r : r = tree_of_set(forms, edges, before, g)
    OBVIOUS
  <2>6. PICK q : q = tree_of_set(forms, edges, after, g)
    OBVIOUS
  <2>7. Range(q) \subseteq Range(new)
    BY <1>8, <2>1, <2>4, <2>6
  <2>8. CASE key = <<g, p>> /\ p \in ShownIds(q, g)
    <3>1. PICK x \in Range(q) : x.kind = "form" /\ x.set = g /\ x.id = p
      BY <2>8 DEF ShownIds
    <3>2. Lands(h.flat, row, key, x)
      BY <2>1, <2>8, <3>1 DEF Lands, IsRow, FormKey
    <3> QED  BY <1>4, <2>7, <3>1, <3>2
  <2>9. CASE ~(key = <<g, p>> /\ p \in ShownIds(q, g))
    <3>1. ASSUME NEW y \in ShownIds(q, g), <<g, y>> \in before PROVE <<g, y>> \in after
      <4>1. <<g, y>> # key
        BY <2>2, <2>9
      <4> QED  BY <1>2, <3>1, <4>1
    <3>2. Range(r) \subseteq Range(q)
      BY <1>2, <2>5, <2>6, <3>1, TreeStays
    <3>3. row \in Range(new)
      BY <2>3, <2>5, <2>7, <3>2
    <3>4. Lands(h.flat, row, key, row)
      BY DEF Lands
    <3> QED  BY <1>4, <3>3, <3>4
  <2> QED  BY <2>8, <2>9
<1> QED  BY <1>9, <1>10

=============================================================================
