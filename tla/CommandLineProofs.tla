------------------------- MODULE CommandLineProofs -------------------------
(* The command line of the terminal client, for all command words, rules    *)
(* and lists of candidates, directories (names with blanks too), home       *)
(* directories, letters, menu and history sizes: what split_whitespace,     *)
(* complete, common_prefix and the history compute (by induction up to the  *)
(* length of their input), then that CLInv is inductive, and from it        *)
(* LineSound and CompletionKeepsTyped.                                      *)
EXTENDS CommandLine, LoopLemmas, FiniteSetTheorems, SequenceTheorems

Lines == Seq(Chars)

(***************************************************************************)
(* Words of a line.                                                        *)
(***************************************************************************)
(* Words(s) is the result of the loop over the characters, and its words    *)
(* have no blank and are not empty.                                         *)
LEMMA WordsRun ==
  ASSUME NEW s \in Seq(Chars)
  PROVE  \E f \in [0..Len(s) -> Seq(Word)] :
           /\ f[0] = <<>> /\ \A i \in 1..Len(s) : f[i] = WithChar(f[i - 1], s, i)
           /\ Words(s) = f[Len(s)]
<1> DEFINE N == Len(s)
           T == Seq(Word)
           g == [i \in 1..N |-> [x \in T |-> WithChar(x, s, i)]]
           Body(f) == [i \in 0..N |-> IF i = 0 THEN <<>> ELSE WithChar(f[i - 1], s, i)]
<1>0. N \in Nat /\ <<>> \in T
  OBVIOUS
<1>1. ASSUME NEW i \in 1..N, NEW x \in T PROVE WithChar(x, s, i) \in T
  <2>1. s[i] \in Chars
    OBVIOUS
  <2>2. CASE s[i] = Blank
    BY <2>2 DEF WithChar
  <2>3. CASE s[i] # Blank /\ (x = <<>> \/ s[i - 1] = Blank)
    <3>1. <<s[i]>> \in Seq(Chars \ {Blank}) /\ <<s[i]>> # <<>>
      BY <2>1, <2>3
    <3>2. <<s[i]>> \in Word
      BY <3>1 DEF Word
    <3> QED  BY <2>3, <3>2 DEF WithChar
  <2>4. CASE s[i] # Blank /\ ~(x = <<>> \/ s[i - 1] = Blank)
    <3>1. Len(x) \in 1..Len(x) /\ x[Len(x)] \in Word
      BY <2>4, EmptySeq
    <3>2. x[Len(x)] \in Seq(Chars \ {Blank})
      BY <3>1 DEF Word
    <3>3. Append(x[Len(x)], s[i]) \in Word
      <4>1. PICK w \in Seq(Chars \ {Blank}), c \in Chars \ {Blank} : w = x[Len(x)] /\ c = s[i]
        BY <2>1, <2>4, <3>2
      <4>2. PICK C : C = Chars \ {Blank}
        OBVIOUS
      <4>3. w \in Seq(C) /\ c \in C
        BY <4>2
      <4>4. Append(w, c) \in Seq(C) /\ Append(w, c) # <<>>
        BY <4>3, AppendProperties
      <4> QED  BY <4>1, <4>2, <4>4 DEF Word
    <3>4. SubSeq(x, 1, Len(x) - 1) \in Seq(Word)
      BY <3>1
    <3> QED  BY <2>4, <3>3, <3>4 DEF WithChar, Front, Last
  <2> QED  BY <2>2, <2>3, <2>4
<1>2. g \in [1..N -> [T -> T]]
  BY <1>1
<1>3. PICK f \in [0..N -> T] : f[0] = <<>> /\ \A i \in 1..N : f[i] = g[i][f[i - 1]]
  <2> HIDE DEF g, N, T
  <2>1. \E h : IsRun(N, T, <<>>, g, h)
    BY <1>0, <1>2, RunExists
  <2> QED  BY <2>1 DEF IsRun
<1>4. f = Body(f)
  <2>1. ASSUME NEW i \in 1..N PROVE f[i] = WithChar(f[i - 1], s, i)
    <3>1. f[i - 1] \in T
      OBVIOUS
    <3> QED  BY <1>3, <3>1
  <2> HIDE DEF T
  <2> QED  BY <1>3, <2>1
<1>5. PICK F : F = CHOOSE h : h = Body(h)
  OBVIOUS
<1>6. F = Body(F)
  <2> HIDE DEF Body
  <2> QED  BY <1>4, <1>5, Zenon
<1>7. Words(s) = F[N]
  BY <1>5 DEF Words
<1>8. F[0] = <<>> /\ \A i \in 1..N : F[i] = WithChar(F[i - 1], s, i)
  BY <1>0, <1>6
<1>9. \A i \in 0..N : F[i] \in T
  <2> DEFINE S == {i \in 0..N : F[i] \in T}
  <2>1. 0 \in S
    <3>1. 0 \in 0..N /\ F[0] \in T
      <4> HIDE DEF T, N
      <4> QED  BY <1>0, <1>8
    <3> QED  BY <3>1
  <2>2. ASSUME NEW i \in 1..N, i - 1 \in S PROVE i \in S
    BY <1>1, <1>8, <2>2
  <2>3. \A i \in 0..N : i \in S
    <3> HIDE DEF S
    <3> QED  BY <1>0, <2>1, <2>2, UpTo
  <2> QED  BY <2>3
<1>10. F \in [0..N -> T]
  BY <1>6, <1>9
<1> QED  BY <1>7, <1>8, <1>10

(* The words of a line are words, and a line that does not end in a blank   *)
(* has one.                                                                 *)
LEMMA WordsType ==
  ASSUME NEW s \in Seq(Chars)
  PROVE  Words(s) \in Seq(Word) /\ (~EndsBlank(s) => Words(s) # <<>>)
<1>1. PICK f \in [0..Len(s) -> Seq(Word)] :
           /\ f[0] = <<>> /\ \A i \in 1..Len(s) : f[i] = WithChar(f[i - 1], s, i)
           /\ Words(s) = f[Len(s)]
  BY WordsRun
<1>2. Len(s) \in Nat
  OBVIOUS
<1>3. ASSUME ~EndsBlank(s) PROVE Words(s) # <<>>
  <2>1. s # <<>> /\ s[Len(s)] # Blank
    BY <1>3 DEF EndsBlank
  <2>2. Len(s) \in 1..Len(s)
    BY <2>1, EmptySeq
  <2>3. Words(s) = WithChar(f[Len(s) - 1], s, Len(s)) /\ f[Len(s) - 1] \in Seq(Word)
    <3>1. PICK n \in Nat : n = Len(s)
      OBVIOUS
    <3>2. n - 1 \in 0..n
      BY <2>2, <3>1
    <3>3. f[n - 1] \in Seq(Word)
      BY <3>1, <3>2
    <3>4. f[n] = WithChar(f[n - 1], s, n)
      BY <1>1, <2>2, <3>1
    <3> QED  BY <1>1, <3>1, <3>3, <3>4
  <2>4. \A y : \A x \in Seq(Word) : Len(Append(x, y)) = Len(x) + 1 /\ Len(x) \in Nat
    OBVIOUS
  <2>5. PICK x : x = f[Len(s) - 1] /\ x \in Seq(Word)
    BY <2>3
  <2>6. CASE x = <<>> \/ s[Len(s) - 1] = Blank
    <3>1. Words(s) = Append(x, <<s[Len(s)]>>)
      BY <2>1, <2>3, <2>5, <2>6 DEF WithChar
    <3> QED  BY <2>4, <2>5, <3>1
  <2>7. CASE ~(x = <<>> \/ s[Len(s) - 1] = Blank)
    <3>1. Words(s) = Append(Front(x), Append(Last(x), s[Len(s)]))
      BY <2>1, <2>3, <2>5, <2>7 DEF WithChar
    <3>2. Len(x) \in 1..Len(x)
      BY <2>5, <2>7, EmptySeq
    <3>3. Front(x) \in Seq(Word)
      BY <2>5, <3>2 DEF Front
    <3> QED  BY <2>4, <3>1, <3>3
  <2> QED  BY <2>6, <2>7
<1> QED  BY <1>1, <1>2, <1>3

(* Joined(head) is the result of the loop over the words. *)
LEMMA JoinedRun ==
  ASSUME NEW head \in Seq(Word)
  PROVE  \E f \in [0..Len(head) -> Seq(Chars)] :
           /\ f[0] = <<>> /\ \A i \in 1..Len(head) : f[i] = f[i - 1] \o Append(head[i], Blank)
           /\ Joined(head) = f[Len(head)]
<1> DEFINE N == Len(head)
           T == Seq(Chars)
           g == [i \in 1..N |-> [x \in T |-> x \o Append(head[i], Blank)]]
           Body(f) == [i \in 0..N |-> IF i = 0 THEN <<>> ELSE f[i - 1] \o Append(head[i], Blank)]
<1>0. N \in Nat /\ <<>> \in T
  OBVIOUS
<1>1. ASSUME NEW i \in 1..N, NEW x \in T PROVE x \o Append(head[i], Blank) \in T
  <2>1. head[i] \in Word
    OBVIOUS
  <2>2. head[i] \in Seq(Chars) /\ Blank \in Chars
    BY <2>1 DEF Word, Chars
  <2> QED  BY <2>2
<1>2. g \in [1..N -> [T -> T]]
  BY <1>1
<1>3. PICK f \in [0..N -> T] : f[0] = <<>> /\ \A i \in 1..N : f[i] = g[i][f[i - 1]]
  <2> HIDE DEF g, N, T
  <2>1. \E h : IsRun(N, T, <<>>, g, h)
    BY <1>0, <1>2, RunExists
  <2> QED  BY <2>1 DEF IsRun
<1>4. f = Body(f)
  <2>1. ASSUME NEW i \in 1..N PROVE f[i] = f[i - 1] \o Append(head[i], Blank)
    <3>1. f[i - 1] \in T
      OBVIOUS
    <3> QED  BY <1>3, <3>1
  <2> HIDE DEF T
  <2> QED  BY <1>3, <2>1
<1>5. PICK F : F = CHOOSE h : h = Body(h)
  OBVIOUS
<1>6. F = Body(F)
  <2> HIDE DEF Body
  <2> QED  BY <1>4, <1>5, Zenon
<1>7. Joined(head) = F[N]
  BY <1>5 DEF Joined
<1>8. F[0] = <<>> /\ \A i \in 1..N : F[i] = F[i - 1] \o Append(head[i], Blank)
  <2>1. F = [i \in 0..N |-> IF i = 0 THEN <<>> ELSE F[i - 1] \o Append(head[i], Blank)]
    BY <1>6
  <2> HIDE DEF N
  <2>2. F[0] = <<>>
    BY <1>0, <2>1
  <2>3. ASSUME NEW i \in 1..N PROVE F[i] = F[i - 1] \o Append(head[i], Blank)
    <3>1. i \in 0..N /\ i # 0
      BY <1>0
    <3> QED  BY <2>1, <3>1
  <2> QED  BY <2>2, <2>3
<1>9. \A i \in 0..N : F[i] \in T
  <2> DEFINE S == {i \in 0..N : F[i] \in T}
  <2>1. 0 \in S
    <3>1. 0 \in 0..N /\ F[0] \in T
      <4> HIDE DEF T, N
      <4> QED  BY <1>0, <1>8
    <3> QED  BY <3>1
  <2>2. ASSUME NEW i \in 1..N, i - 1 \in S PROVE i \in S
    <3>1. F[i - 1] \in T /\ F[i] = F[i - 1] \o Append(head[i], Blank)
      BY <1>8, <2>2
    <3>2. F[i - 1] \o Append(head[i], Blank) \in T
      <4> HIDE DEF T
      <4> QED  BY <1>1, <3>1
    <3>3. i \in 0..N /\ F[i] \in T
      <4> HIDE DEF T
      <4> QED  BY <3>1, <3>2
    <3> QED  BY <3>3
  <2>3. \A i \in 0..N : i \in S
    <3> HIDE DEF S
    <3> QED  BY <1>0, <2>1, <2>2, UpTo
  <2> QED  BY <2>3
<1>10. F \in [0..N -> T]
  BY <1>6, <1>9
<1> QED  BY <1>7, <1>8, <1>10

(* Head and token of a line, and of the words it is put together from.      *)
LEMMA HeadAndToken ==
  ASSUME NEW s \in Seq(Chars)
  PROVE  /\ Head0(s) \in Seq(Word) /\ Token(s) \in Seq(Chars \ {Blank})
         /\ EndsBlank(s) <=> Token(s) = <<>>
         /\ Words(s) = IF Token(s) = <<>> THEN Head0(s) ELSE Append(Head0(s), Token(s))
<1>1. Words(s) \in Seq(Word) /\ (~EndsBlank(s) => Words(s) # <<>>)
  BY WordsType
<1>2. CASE EndsBlank(s)
  BY <1>1, <1>2 DEF Head0, Token
<1>3. CASE ~EndsBlank(s)
  <2>1. PICK x \in Seq(Word) : x = Words(s)
    BY <1>1
  <2>2. Len(x) \in Nat \ {0} /\ Len(x) \in 1..Len(x)
    BY <1>1, <1>3, <2>1, EmptySeq
  <2>3. Front(x) \in Seq(Word) /\ Len(Front(x)) = Len(x) - 1 /\ \A i \in 1..(Len(x) - 1) : Front(x)[i] = x[i]
    <3>1. PICK n \in 0..Len(x) : n = Len(x) - 1
      <4>1. Len(x) - 1 \in 0..Len(x)
        BY <2>2
      <4> QED  BY <4>1
    <3>2. SubSeq(x, 1, n) \in Seq(Word) /\ Len(SubSeq(x, 1, n)) = n /\ \A i \in 1..n : SubSeq(x, 1, n)[i] = x[i]
      OBVIOUS
    <3> QED  BY <3>1, <3>2 DEF Front
  <2>4. Last(x) \in Word
    BY <2>2 DEF Last
  <2>5. Append(Front(x), Last(x)) \in Seq(Word) /\ Len(Append(Front(x), Last(x))) = Len(x)
        /\ \A i \in 1..Len(x) : Append(Front(x), Last(x))[i] = x[i]
    <3>1. Append(Front(x), Last(x))[Len(x)] = x[Len(x)]
      BY <2>2, <2>3, <2>4 DEF Last
    <3>2. PICK fr \in Seq(Word) : fr = Front(x)
      BY <2>3
    <3>3. PICK la \in Word : la = Last(x)
      BY <2>4
    <3>4. \A i \in 1..(Len(x) - 1) : Append(fr, la)[i] = fr[i]
      BY <2>2, <2>3, <3>2
    <3>5. Append(fr, la) \in Seq(Word) /\ Len(Append(fr, la)) = Len(x)
      BY <2>2, <2>3, <3>2
    <3> QED  BY <2>2, <2>3, <3>1, <3>2, <3>3, <3>4, <3>5
  <2>6. Append(Front(x), Last(x)) = x
    BY <2>5, SeqEqual
  <2> QED  BY <1>3, <2>1, <2>3, <2>4, <2>6 DEF Head0, Token, Word
<1> QED  BY <1>2, <1>3

(***************************************************************************)
(* Candidates.                                                             *)
(***************************************************************************)
(* StartingWith is the result of the loop over the list. *)
LEMMA StartingRun ==
  ASSUME NEW words \in Seq(Lines), NEW token
  PROVE  \E f \in [0..Len(words) -> Seq(Lines)] :
           /\ f[0] = <<>>
           /\ \A i \in 1..Len(words) : f[i] = IF IsPrefix(token, words[i]) THEN Append(f[i - 1], words[i]) ELSE f[i - 1]
           /\ StartingWith(words, token) = f[Len(words)]
<1> DEFINE N == Len(words)
           T == Seq(Lines)
           H(x, i) == IF IsPrefix(token, words[i]) THEN Append(x, words[i]) ELSE x
           g == [i \in 1..N |-> [x \in T |-> H(x, i)]]
           Body(f) == [i \in 0..N |-> IF i = 0 THEN <<>> ELSE H(f[i - 1], i)]
<1>0. N \in Nat /\ <<>> \in T
  OBVIOUS
<1>1. ASSUME NEW i \in 1..N, NEW x \in T PROVE H(x, i) \in T
  OBVIOUS
<1>2. g \in [1..N -> [T -> T]]
  <2> HIDE DEF H, T, N
  <2> QED  BY <1>1
<1>3. PICK f \in [0..N -> T] : f[0] = <<>> /\ \A i \in 1..N : f[i] = g[i][f[i - 1]]
  <2> HIDE DEF g, N, T
  <2>1. \E h : IsRun(N, T, <<>>, g, h)
    BY <1>0, <1>2, RunExists
  <2> QED  BY <2>1 DEF IsRun
<1>4. f = Body(f)
  <2>1. ASSUME NEW i \in 1..N PROVE f[i] = H(f[i - 1], i)
    <3>1. f[i - 1] \in T
      OBVIOUS
    <3> HIDE DEF H
    <3> QED  BY <1>3, <3>1
  <2> HIDE DEF T, H
  <2> QED  BY <1>3, <2>1
<1>5. PICK F : F = CHOOSE h : h = Body(h)
  OBVIOUS
<1>6. F = Body(F)
  <2> HIDE DEF Body
  <2> QED  BY <1>4, <1>5, Zenon
<1>7. StartingWith(words, token) = F[N]
  BY <1>5 DEF StartingWith
<1>8. F[0] = <<>> /\ \A i \in 1..N : F[i] = H(F[i - 1], i)
  <2> HIDE DEF H
  <2> QED  BY <1>0, <1>6
<1>9. \A i \in 0..N : F[i] \in T
  <2> DEFINE S == {i \in 0..N : F[i] \in T}
  <2>1. 0 \in S
    <3>1. 0 \in 0..N /\ F[0] \in T
      <4> HIDE DEF T, N
      <4> QED  BY <1>0, <1>8
    <3> QED  BY <3>1
  <2>2. ASSUME NEW i \in 1..N, i - 1 \in S PROVE i \in S
    <3>1. F[i - 1] \in T /\ F[i] = H(F[i - 1], i)
      <4> HIDE DEF H
      <4> QED  BY <1>8, <2>2
    <3>2. i \in 0..N /\ F[i] \in T
      <4> HIDE DEF H, T
      <4> QED  BY <1>1, <3>1
    <3> QED  BY <3>2
  <2>3. \A i \in 0..N : i \in S
    <3> HIDE DEF S
    <3> QED  BY <1>0, <2>1, <2>2, UpTo
  <2> QED  BY <2>3
<1>10. F \in [0..N -> T]
  BY <1>6, <1>9
<1> QED  BY <1>7, <1>8, <1>10

(* What is offered is in the list and starts with the token, and everything *)
(* in the list that does is offered.                                        *)
LEMMA StartingFacts ==
  ASSUME NEW words \in Seq(Lines), NEW token
  PROVE  LET r == StartingWith(words, token)
         IN  /\ r \in Seq(Lines) /\ Len(r) <= Len(words)
             /\ \A k \in 1..Len(r) : IsPrefix(token, r[k])
             /\ \A j \in 1..Len(words) : IsPrefix(token, words[j]) => \E k \in 1..Len(r) : r[k] = words[j]
<1>1. PICK f \in [0..Len(words) -> Seq(Lines)] :
           /\ f[0] = <<>>
           /\ \A i \in 1..Len(words) : f[i] = IF IsPrefix(token, words[i]) THEN Append(f[i - 1], words[i]) ELSE f[i - 1]
           /\ StartingWith(words, token) = f[Len(words)]
  BY StartingRun
<1> DEFINE Good(r, i) == /\ Len(r) <= i
                         /\ \A k \in 1..Len(r) : IsPrefix(token, r[k])
                         /\ \A j \in 1..i : IsPrefix(token, words[j]) => \E k \in 1..Len(r) : r[k] = words[j]
           S == {i \in 0..Len(words) : Good(f[i], i)}
<1>2. Len(words) \in Nat
  OBVIOUS
<1>3. 0 \in S
  BY <1>1, <1>2
<1>4. ASSUME NEW i \in 1..Len(words), i - 1 \in S PROVE i \in S
  <2>1. PICK r \in Seq(Lines) : r = f[i - 1]
    OBVIOUS
  <2>2. Good(r, i - 1)
    BY <1>4, <2>1
  <2>3. CASE ~IsPrefix(token, words[i])
    <3>1. f[i] = r
      BY <1>1, <2>1, <2>3
    <3>2. Good(r, i)
      <4>1. ASSUME NEW j \in 1..i, IsPrefix(token, words[j]) PROVE \E k \in 1..Len(r) : r[k] = words[j]
        <5>1. j \in 1..(i - 1)
          BY <2>3, <4>1
        <5> QED  BY <2>2, <4>1, <5>1
      <4>2. Len(r) <= i
        BY <2>2
      <4> QED  BY <2>2, <4>1, <4>2
    <3> HIDE DEF Good
    <3> QED  BY <3>1, <3>2
  <2>4. CASE IsPrefix(token, words[i])
    <3>1. PICK q : q = Append(r, words[i])
      OBVIOUS
    <3>2. words[i] \in Lines
      OBVIOUS
    <3>3. q \in Seq(Lines) /\ Len(q) = Len(r) + 1 /\ q[Len(r) + 1] = words[i] /\ (\A k \in 1..Len(r) : q[k] = r[k]) /\ Len(r) \in Nat
      BY <3>1, <3>2
    <3>4. f[i] = q
      BY <1>1, <2>1, <2>4, <3>1
    <3>5. Good(q, i)
      <4>1. ASSUME NEW j \in 1..i, IsPrefix(token, words[j]) PROVE \E k \in 1..Len(q) : q[k] = words[j]
        <5>1. CASE j = i
          BY <3>3, <5>1
        <5>2. CASE j # i
          <6>1. j \in 1..(i - 1)
            BY <5>2
          <6>2. PICK k \in 1..Len(r) : r[k] = words[j]
            BY <2>2, <4>1, <6>1
          <6>3. k \in 1..Len(q) /\ q[k] = words[j]
            BY <3>3, <6>2
          <6> QED  BY <6>3
        <5> QED  BY <5>1, <5>2
      <4>2. ASSUME NEW k \in 1..Len(q) PROVE IsPrefix(token, q[k])
        <5>1. CASE k = Len(r) + 1
          BY <2>4, <3>3, <5>1
        <5>2. CASE k # Len(r) + 1
          <6>1. k \in 1..Len(r)
            BY <3>3, <5>2
          <6>2. IsPrefix(token, r[k])
            BY <2>2, <6>1
          <6> QED  BY <3>3, <6>1, <6>2
        <5> QED  BY <5>1, <5>2
      <4>3. Len(q) <= i
        BY <2>2, <3>3
      <4> QED  BY <4>1, <4>2, <4>3
    <3> HIDE DEF Good
    <3> QED  BY <3>4, <3>5
  <2> QED  BY <2>3, <2>4
<1>5. Len(words) \in S
  <2> HIDE DEF S
  <2>1. \A i \in 0..Len(words) : i \in S
    BY <1>2, <1>3, <1>4, UpTo
  <2> QED  BY <1>2, <2>1
<1>6. Good(f[Len(words)], Len(words)) /\ f[Len(words)] \in Seq(Lines)
  <2> HIDE DEF Good
  <2> QED  BY <1>2, <1>5
<1> QED  BY <1>1, <1>6

(***************************************************************************)
(* The common prefix.                                                      *)
(***************************************************************************)
(* A prefix, character by character. *)
LEMMA PrefixIs ==
  ASSUME NEW X, NEW s \in Seq(X), NEW t \in Seq(X)
  PROVE  IsPrefix(s, t) <=> Len(s) <= Len(t) /\ \A i \in 1..Len(s) : s[i] = t[i]
<1>1. Len(s) \in Nat /\ Len(t) \in Nat
  OBVIOUS
<1>2. ASSUME Len(s) <= Len(t)
      PROVE  SubSeq(s, 1, Len(s)) = SubSeq(t, 1, Len(s)) <=> \A i \in 1..Len(s) : s[i] = t[i]
  <2>1. PICK u : u = SubSeq(t, 1, Len(s))
    OBVIOUS
  <2>2. u \in Seq(X) /\ Len(u) = Len(s) /\ \A i \in 1..Len(s) : u[i] = t[i]
    BY <1>1, <1>2, <2>1
  <2>3. SubSeq(s, 1, Len(s)) = s
    OBVIOUS
  <2>4. s = u <=> \A i \in 1..Len(s) : s[i] = t[i]
    BY <2>2, SeqEqual
  <2> QED  BY <2>1, <2>3, <2>4
<1> QED  BY <1>2 DEF IsPrefix

(* A bounded set of numbers has a largest and a smallest member. *)
LEMMA Largest ==
  ASSUME NEW N \in Nat, NEW S \in SUBSET (0..N), S # {}
  PROVE  \E m \in S : \A y \in S : y <= m
<1> DEFINE U(n) == (\E y \in S : y <= n) => \E m \in S : m <= n /\ \A y \in S : y <= n => y <= m
           Q == {n \in 0..N : U(n)}
<1>1. 0 \in Q
  OBVIOUS
<1>2. ASSUME NEW n \in 1..N, n - 1 \in Q PROVE n \in Q
  <2>1. CASE n \in S
    BY <2>1
  <2>2. CASE n \notin S
    <3>1. \A y \in S : y <= n <=> y <= n - 1
      BY <2>2
    <3>2. U(n - 1)
      BY <1>2
    <3>3. U(n)
      <4> SUFFICES ASSUME NEW z \in S, z <= n PROVE \E m \in S : m <= n /\ \A y \in S : y <= n => y <= m
        OBVIOUS
      <4>1. PICK m \in S : m <= n - 1 /\ \A y \in S : y <= n - 1 => y <= m
        BY <3>1, <3>2
      <4>2. m <= n /\ \A y \in S : y <= n => y <= m
        BY <3>1, <4>1
      <4> QED  BY <4>2
    <3> HIDE DEF U
    <3> QED  BY <3>3
  <2> QED  BY <2>1, <2>2
<1>3. N \in Q
  <2> HIDE DEF Q
  <2>1. \A n \in 0..N : n \in Q
    BY <1>1, <1>2, UpTo
  <2> QED  BY <2>1
<1>4. U(N)
  <2> HIDE DEF U
  <2> QED  BY <1>3
<1>5. \A y \in S : y <= N
  OBVIOUS
<1> QED  BY <1>4, <1>5

(* The largest and the smallest member of a bounded set. *)
LEMMA GreatestIs ==
  ASSUME NEW N \in Nat, NEW S \in SUBSET (0..N), NEW d
  PROVE  IF S = {} THEN Greatest(S, d) = d ELSE Greatest(S, d) \in S
<1>1. ASSUME S # {} PROVE \E x \in S : \A y \in S : y <= x
  BY <1>1, Largest
<1> QED  BY <1>1, Zenon DEF Greatest

(* SameChars is how far two words agree. *)
LEMMA SameCharsIs ==
  ASSUME NEW X, NEW p \in Seq(X), NEW w \in Seq(X)
  PROVE  LET n == SameChars(p, w)
         IN  /\ n \in 0..Len(p) /\ n <= Len(w) /\ \A i \in 1..n : p[i] = w[i]
             /\ n = Len(p) \/ n = Len(w) \/ p[n + 1] # w[n + 1]
<1>1. Len(p) \in Nat /\ Len(w) \in Nat
  OBVIOUS
<1> DEFINE Same(n) == n <= Len(w) /\ \A i \in 1..n : p[i] = w[i]
           S == {n \in 0..Len(p) : Same(n)}
           Is(n) == Same(n) /\ (n = Len(p) \/ n = Len(w) \/ p[n + 1] # w[n + 1])
<1>2. 0 \in S
  BY <1>1
<1>3. PICK m \in S : \A y \in S : y <= m
  <2>1. S \in SUBSET (0..Len(p)) /\ S # {}
    BY <1>2
  <2> HIDE DEF S
  <2> QED  BY <1>1, <2>1, Largest
<1>4. m \in 0..Len(p) /\ Same(m)
  <2> HIDE DEF Same
  <2> QED  OBVIOUS
<1>5. Is(m)
  <2> SUFFICES ASSUME m # Len(p), m # Len(w), p[m + 1] = w[m + 1] PROVE FALSE
    BY <1>4
  <2>1. m + 1 \in 0..Len(p) /\ m + 1 <= Len(w)
    BY <1>1, <1>4
  <2>2. ASSUME NEW i \in 1..(m + 1) PROVE p[i] = w[i]
    <3>1. CASE i = m + 1
      BY <3>1
    <3>2. CASE i # m + 1
      BY <1>4, <3>2
    <3> QED  BY <3>1, <3>2
  <2>3. m + 1 \in S
    BY <2>1, <2>2
  <2> HIDE DEF S
  <2> QED  BY <1>3, <1>4, <2>3
<1>6. \E n \in 0..Len(p) : Is(n)
  <2> HIDE DEF Is
  <2> QED  BY <1>4, <1>5
<1>7. SameChars(p, w) = CHOOSE n \in 0..Len(p) : Is(n)
  BY DEF SameChars
<1>8. SameChars(p, w) \in 0..Len(p) /\ Is(SameChars(p, w))
  <2> HIDE DEF Is
  <2> QED  BY <1>6, <1>7, Zenon
<1> QED  BY <1>8

(* A word has a byte for every character, and no more if none is wide. *)
LEMMA BytesIs ==
  ASSUME NEW X, NEW w \in Seq(X)
  PROVE  /\ Bytes(w) \in Nat /\ Bytes(w) >= Len(w)
         /\ (\A i \in 1..Len(w) : w[i] \notin Wide) => Bytes(w) = Len(w)
<1> DEFINE W == {i \in 1..Len(w) : w[i] \in Wide}
<1>1. Len(w) \in Nat /\ DOMAIN w = 1..Len(w)
  OBVIOUS
<1>2. Bytes(w) = Len(w) + Cardinality(W)
  BY <1>1 DEF Bytes
<1>3. IsFiniteSet(W) /\ Cardinality(W) \in Nat
  <2>1. IsFiniteSet(1..Len(w))
    BY <1>1, FS_Interval
  <2>2. W \subseteq 1..Len(w)
    OBVIOUS
  <2>3. IsFiniteSet(W)
    BY <2>1, <2>2, FS_Subset
  <2> QED  BY <2>3, FS_CardinalityType
<1>4. ASSUME \A i \in 1..Len(w) : w[i] \notin Wide PROVE Cardinality(W) = 0
  <2>1. W = {}
    BY <1>4
  <2> QED  BY <2>1, FS_EmptySet
<1> HIDE DEF W
<1> QED  BY <1>1, <1>2, <1>3, <1>4

(* What truncate leaves: a panic or the first characters, at most as many   *)
(* as bytes are kept, and exactly as many where every character is a byte.  *)
LEMMA TruncateIs ==
  ASSUME NEW X, NEW w \in Seq(X), NEW n \in 0..Len(w)
  PROVE  /\ truncate(w, n) = Panic \/ \E k \in 0..n : truncate(w, n) = SubSeq(w, 1, k) /\ (n > 0 => k > 0)
         /\ (\A i \in 1..Len(w) : w[i] \notin Wide) => truncate(w, n) = SubSeq(w, 1, n)
<1>1. Len(w) \in Nat /\ SubSeq(w, 1, Len(w)) = w
  OBVIOUS
<1> DEFINE At(k) == Bytes(SubSeq(w, 1, k)) = n
           K == CHOOSE k \in 0..Len(w) : At(k)
<1>2. ASSUME NEW k \in 0..Len(w)
      PROVE  SubSeq(w, 1, k) \in Seq(X) /\ Len(SubSeq(w, 1, k)) = k /\ \A i \in 1..k : SubSeq(w, 1, k)[i] = w[i]
  BY <1>1
<1>3. ASSUME NEW k \in 0..Len(w), At(k) PROVE k <= n /\ (n > 0 => k > 0)
  <2>1. PICK q \in Seq(X) : q = SubSeq(w, 1, k) /\ Len(q) = k
    BY <1>2
  <2>2. Bytes(q) = n /\ Bytes(q) >= k
    BY <1>3, <2>1, BytesIs
  <2>3. ASSUME k = 0 PROVE Bytes(q) = 0
    <3>1. \A i \in 1..Len(q) : q[i] \notin Wide
      BY <2>1, <2>3
    <3>2. Bytes(q) = Len(q)
      BY <3>1, BytesIs
    <3> QED  BY <2>1, <2>3, <3>2
  <2> QED  BY <2>2, <2>3
<1>4. Bytes(w) <= n => Len(w) = n
  <2>1. Bytes(w) \in Nat /\ Bytes(w) >= Len(w)
    BY BytesIs
  <2>2. PICK b \in Nat : b = Bytes(w)
    BY <2>1
  <2>3. n \in Nat /\ n <= Len(w)
    BY <1>1
  <2>4. b >= Len(w)
    BY <2>1, <2>2
  <2>5. PICK len \in Nat : len = Len(w)
    BY <1>1
  <2>6. b <= n => len = n
    BY <2>3, <2>4, <2>5
  <2> QED  BY <2>2, <2>5, <2>6
<1>5. CASE Bytes(w) <= n
  <2>1. truncate(w, n) = w /\ n = Len(w)
    BY <1>4, <1>5 DEF truncate
  <2> QED  BY <1>1, <2>1
<1>6. CASE ~(Bytes(w) <= n) /\ \E k \in 0..Len(w) : At(k)
  <2>1. K \in 0..Len(w) /\ At(K)
    <3> HIDE DEF At
    <3> QED  BY <1>6, Zenon
  <2>2. truncate(w, n) = SubSeq(w, 1, K)
    BY <1>6 DEF truncate
  <2> HIDE DEF K
  <2>3. K <= n /\ (n > 0 => K > 0) /\ K \in 0..n
    BY <1>3, <2>1
  <2>4. ASSUME \A i \in 1..Len(w) : w[i] \notin Wide PROVE K = n
    <3>1. PICK q \in Seq(X) : q = SubSeq(w, 1, K) /\ Len(q) = K /\ \A i \in 1..K : q[i] = w[i]
      BY <1>2, <2>1
    <3>2. \A i \in 1..Len(q) : q[i] \notin Wide
      BY <2>1, <2>4, <3>1
    <3>3. Bytes(q) = Len(q)
      BY <3>2, BytesIs
    <3> QED  BY <2>1, <3>1, <3>3
  <2> HIDE DEF At
  <2> QED  BY <2>2, <2>3, <2>4
<1>7. CASE ~(Bytes(w) <= n) /\ ~\E k \in 0..Len(w) : At(k)
  <2>1. truncate(w, n) = Panic
    BY <1>7 DEF truncate
  <2>2. ASSUME \A i \in 1..Len(w) : w[i] \notin Wide PROVE FALSE
    <3>1. PICK q \in Seq(X) : q = SubSeq(w, 1, n) /\ Len(q) = n /\ \A i \in 1..n : q[i] = w[i]
      BY <1>2
    <3>2. \A i \in 1..Len(q) : q[i] \notin Wide
      BY <1>1, <2>2, <3>1
    <3>3. Bytes(q) = n
      BY <3>1, <3>2, BytesIs
    <3>4. At(n)
      BY <3>1, <3>3
    <3> HIDE DEF At
    <3> QED  BY <1>7, <3>4
  <2> QED  BY <2>1, <2>2
<1> QED  BY <1>5, <1>6, <1>7

(* A prefix of a prefix. *)
LEMMA PrefixTrans ==
  ASSUME NEW X, NEW s \in Seq(X), NEW t \in Seq(X), NEW u \in Seq(X), IsPrefix(s, t), IsPrefix(t, u)
  PROVE  IsPrefix(s, u)
<1>1. Len(s) \in Nat /\ Len(t) \in Nat /\ Len(u) \in Nat
  OBVIOUS
<1>2. Len(s) <= Len(t) /\ (\A i \in 1..Len(s) : s[i] = t[i])
  BY PrefixIs
<1>3. Len(t) <= Len(u) /\ (\A i \in 1..Len(t) : t[i] = u[i])
  BY PrefixIs
<1>4. Len(s) <= Len(u) /\ (\A i \in 1..Len(s) : s[i] = u[i])
  BY <1>1, <1>2, <1>3
<1> QED  BY <1>4, PrefixIs

(* No line is the mark of a panic or of no saved text. *)
LEMMA NoMark ==
  ASSUME NEW s \in Seq(Chars)
  PROVE  s # Panic /\ s # None
<1>1. "panic" \notin Chars /\ "none" \notin Chars
  BY TextAssumption
<1>2. s = Panic => s[1] = "panic" /\ Len(s) = 1
  BY DEF Panic
<1>3. s = None => s[1] = "none" /\ Len(s) = 1
  BY DEF None
<1>4. Len(s) = 1 => s[1] \in Chars
  OBVIOUS
<1> QED  BY <1>1, <1>2, <1>3, <1>4

(* One step of common_prefix. *)
LEMMA ShorterIs ==
  ASSUME NEW p \in Seq(Chars), NEW w \in Seq(Chars)
  PROVE  LET q == Shorter(p, w)
         IN  /\ q = Panic \/ (q \in Seq(Chars) /\ IsPrefix(q, p) /\ IsPrefix(q, w))
             /\ (\A i \in 1..Len(p) : p[i] \notin Wide) =>
                  /\ q # Panic
                  /\ \A t \in Seq(Chars) : IsPrefix(t, p) /\ IsPrefix(t, w) => IsPrefix(t, q)
<1>1. PICK n \in 0..Len(p) : /\ n = SameChars(p, w) /\ n <= Len(w) /\ \A i \in 1..n : p[i] = w[i]
                             /\ n = Len(p) \/ n = Len(w) \/ p[n + 1] # w[n + 1]
  BY SameCharsIs
<1>2. p # Panic /\ Len(p) \in Nat /\ Len(w) \in Nat
  BY NoMark
<1>3. PICK q : q = Shorter(p, w)
  OBVIOUS
<1>4. q = truncate(p, n)
  BY <1>1, <1>2, <1>3 DEF Shorter
<1>6. ASSUME NEW k \in 0..n
      PROVE  /\ SubSeq(p, 1, k) \in Seq(Chars) /\ Len(SubSeq(p, 1, k)) = k
             /\ \A i \in 1..k : SubSeq(p, 1, k)[i] = p[i] /\ p[i] = w[i]
  <2>1. k \in 0..Len(p) /\ k <= Len(w)
    BY <1>1, <1>2
  <2> QED  BY <1>1, <2>1
<1>7. ASSUME NEW k \in 0..n, q = SubSeq(p, 1, k)
      PROVE  q \in Seq(Chars) /\ IsPrefix(q, p) /\ IsPrefix(q, w)
  <2>1. q \in Seq(Chars) /\ Len(q) = k /\ \A i \in 1..k : q[i] = p[i] /\ q[i] = w[i]
    BY <1>6, <1>7
  <2>2. Len(q) <= Len(p) /\ Len(q) <= Len(w)
    BY <1>1, <1>2, <2>1
  <2>3. IsPrefix(q, p) /\ IsPrefix(q, w)
    BY <2>1, <2>2, PrefixIs
  <2> QED  BY <2>1, <2>3
<1>8. q = Panic \/ (q \in Seq(Chars) /\ IsPrefix(q, p) /\ IsPrefix(q, w))
  <2>1. q = Panic \/ \E k \in 0..n : q = SubSeq(p, 1, k)
    BY <1>4, TruncateIs
  <2> QED  BY <1>7, <2>1
<1>9. ASSUME \A i \in 1..Len(p) : p[i] \notin Wide
      PROVE  q # Panic /\ \A t \in Seq(Chars) : IsPrefix(t, p) /\ IsPrefix(t, w) => IsPrefix(t, q)
  <2>1. q = SubSeq(p, 1, n)
    BY <1>4, <1>9, TruncateIs
  <2>2. q \in Seq(Chars) /\ Len(q) = n /\ \A i \in 1..n : q[i] = p[i]
    BY <1>1, <1>6, <2>1
  <2>3. ASSUME NEW t \in Seq(Chars), IsPrefix(t, p), IsPrefix(t, w) PROVE IsPrefix(t, q)
    <3>1. Len(t) \in Nat /\ Len(t) <= Len(p) /\ Len(t) <= Len(w)
      BY <2>3, PrefixIs
    <3>2. \A i \in 1..Len(t) : t[i] = p[i] /\ t[i] = w[i]
      BY <2>3, PrefixIs
    <3>3. Len(t) <= n
      BY <1>1, <1>2, <3>1, <3>2
    <3>4. \A i \in 1..Len(t) : t[i] = q[i]
      BY <1>1, <2>2, <3>1, <3>2, <3>3
    <3> QED  BY <2>2, <3>3, <3>4, PrefixIs
  <2>4. q # Panic
    BY <2>2, NoMark
  <2> QED  BY <2>3, <2>4
<1> QED  BY <1>3, <1>8, <1>9

(* common_prefix is the result of the loop over the words. *)
LEMMA PrefixRun ==
  ASSUME NEW words \in Seq(Lines), words # <<>>
  PROVE  \E f \in [0..Len(words) -> Seq(Chars) \cup {Panic}] :
           /\ f[0] = words[1] /\ \A i \in 1..Len(words) : f[i] = Shorter(f[i - 1], words[i])
           /\ common_prefix(words) = f[Len(words)]
<1> DEFINE N == Len(words)
           T == Seq(Chars) \cup {Panic}
           g == [i \in 1..N |-> [x \in T |-> Shorter(x, words[i])]]
           Body(f) == [i \in 0..N |-> IF i = 0 THEN words[1] ELSE Shorter(f[i - 1], words[i])]
<1>0. N \in Nat /\ words[1] \in T
  <2>1. N \in Nat \ {0}
    BY EmptySeq
  <2>2. words[1] \in Lines
    BY <2>1
  <2> QED  BY <2>1, <2>2 DEF Lines
<1>1. ASSUME NEW i \in 1..N, NEW x \in T PROVE Shorter(x, words[i]) \in T
  <2>1. words[i] \in Seq(Chars)
    <3>1. words[i] \in Lines
      OBVIOUS
    <3> QED  BY <3>1 DEF Lines
  <2>2. CASE x = Panic
    BY <2>2 DEF Shorter
  <2>3. CASE x \in Seq(Chars)
    BY <2>1, <2>3, ShorterIs
  <2> QED  BY <2>2, <2>3
<1>2. g \in [1..N -> [T -> T]]
  <2> HIDE DEF T, N
  <2> QED  BY <1>1
<1>3. PICK f \in [0..N -> T] : f[0] = words[1] /\ \A i \in 1..N : f[i] = g[i][f[i - 1]]
  <2> HIDE DEF g, N, T
  <2>1. \E h : IsRun(N, T, words[1], g, h)
    BY <1>0, <1>2, RunExists
  <2> QED  BY <2>1 DEF IsRun
<1>4. f = Body(f)
  <2>1. ASSUME NEW i \in 1..N PROVE f[i] = Shorter(f[i - 1], words[i])
    <3>1. f[i - 1] \in T
      OBVIOUS
    <3> HIDE DEF T
    <3> QED  BY <1>3, <3>1
  <2> HIDE DEF T
  <2> QED  BY <1>3, <2>1
<1>5. PICK F : F = CHOOSE h : h = Body(h)
  OBVIOUS
<1>6. F = Body(F)
  <2> HIDE DEF Body
  <2> QED  BY <1>4, <1>5, Zenon
<1>7. common_prefix(words) = F[N]
  BY <1>5 DEF common_prefix
<1>8. F[0] = words[1] /\ \A i \in 1..N : F[i] = Shorter(F[i - 1], words[i])
  BY <1>0, <1>6
<1>9. \A i \in 0..N : F[i] \in T
  <2> DEFINE S == {i \in 0..N : F[i] \in T}
  <2>1. 0 \in S
    <3>1. 0 \in 0..N /\ F[0] \in T
      <4> HIDE DEF T, N
      <4> QED  BY <1>0, <1>8
    <3> HIDE DEF T
    <3> QED  BY <3>1
  <2>2. ASSUME NEW i \in 1..N, i - 1 \in S PROVE i \in S
    <3> HIDE DEF T
    <3>1. F[i - 1] \in T /\ F[i] = Shorter(F[i - 1], words[i])
      BY <1>8, <2>2
    <3>2. i \in 0..N /\ F[i] \in T
      BY <1>1, <3>1
    <3> QED  BY <3>2
  <2>3. \A i \in 0..N : i \in S
    <3> HIDE DEF S
    <3> QED  BY <1>0, <2>1, <2>2, UpTo
  <2> HIDE DEF T
  <2> QED  BY <2>3
<1>10. F \in [0..N -> T]
  <2> HIDE DEF T
  <2> QED  BY <1>6, <1>9
<1> QED  BY <1>7, <1>8, <1>10

(* The common prefix starts every word; of ASCII words it is the longest,   *)
(* and there is no panic.                                                   *)
LEMMA CommonPrefix ==
  ASSUME NEW words \in Seq(Lines), words # <<>>
  PROVE  LET cp == common_prefix(words)
         IN  /\ cp = Panic \/ (cp \in Seq(Chars) /\ \A j \in 1..Len(words) : IsPrefix(cp, words[j]))
             /\ (\A j \in 1..Len(words) : Range(words[j]) \cap Wide = {}) =>
                  /\ cp # Panic
                  /\ \A t \in Seq(Chars) : (\A j \in 1..Len(words) : IsPrefix(t, words[j])) => IsPrefix(t, cp)
<1>1. PICK f \in [0..Len(words) -> Seq(Chars) \cup {Panic}] :
           /\ f[0] = words[1] /\ \A i \in 1..Len(words) : f[i] = Shorter(f[i - 1], words[i])
           /\ common_prefix(words) = f[Len(words)]
  BY PrefixRun
<1>2. Len(words) \in Nat \ {0}
  BY EmptySeq
<1>3. ASSUME NEW j \in 1..Len(words)
      PROVE words[j] \in Seq(Chars) /\ words[j] # Panic
  <2>1. words[j] \in Lines
    OBVIOUS
  <2> QED  BY <2>1, NoMark DEF Lines
<1> DEFINE Ascii == \A j \in 1..Len(words) : Range(words[j]) \cap Wide = {}
           Part(x, i) == x \in Seq(Chars) /\ IsPrefix(x, words[1]) /\ \A j \in 1..i : IsPrefix(x, words[j])
           Best(x) == \A t \in Seq(Chars) : (\A j \in 1..Len(words) : IsPrefix(t, words[j])) => IsPrefix(t, x)
           Good(x, i) == (x = Panic \/ Part(x, i)) /\ (Ascii => x # Panic /\ Best(x))
           S == {i \in 0..Len(words) : Good(f[i], i)}
<1>4. 1 \in 1..Len(words)
  BY <1>2
<1>5. 0 \in S
  <2>1. IsPrefix(words[1], words[1])
    BY <1>3, <1>4, PrefixIs
  <2>2. Part(words[1], 0)
    BY <1>3, <1>4, <2>1
  <2>3. words[1] # Panic /\ Best(words[1])
    BY <1>3, <1>4
  <2>4. Good(f[0], 0)
    <3> HIDE DEF Part, Best, Ascii
    <3> QED  BY <1>1, <2>2, <2>3
  <2> HIDE DEF Good
  <2> QED  BY <1>2, <2>4
<1>6. ASSUME NEW i \in 1..Len(words), i - 1 \in S PROVE i \in S
  <2>1. PICK p : p = f[i - 1]
    OBVIOUS
  <2>2. PICK q : q = Shorter(p, words[i])
    OBVIOUS
  <2>3. Good(p, i - 1) /\ f[i] = q
    <3> HIDE DEF Good
    <3> QED  BY <1>1, <1>6, <2>1, <2>2
  <2>4. CASE p = Panic
    <3>1. q = Panic /\ ~Ascii
      <4> HIDE DEF Ascii, Best, Part
      <4> QED  BY <2>2, <2>3, <2>4 DEF Shorter
    <3>2. Good(q, i)
      <4> HIDE DEF Ascii, Best, Part
      <4> QED  BY <3>1
    <3> HIDE DEF Good
    <3> QED  BY <2>3, <3>2
  <2>5. CASE p # Panic
    <3>1. Part(p, i - 1) /\ (Ascii => Best(p))
      <4> HIDE DEF Ascii, Best, Part
      <4> QED  BY <2>3, <2>5
    <3>2. p \in Seq(Chars) /\ words[i] \in Seq(Chars) /\ words[1] \in Seq(Chars)
      BY <1>3, <1>4, <3>1
    <3>3. q = Panic \/ (q \in Seq(Chars) /\ IsPrefix(q, p) /\ IsPrefix(q, words[i]))
      BY <2>2, <3>2, ShorterIs
    <3>4. ASSUME q # Panic PROVE Part(q, i)
      <4>1. q \in Seq(Chars) /\ IsPrefix(q, p) /\ IsPrefix(q, words[i])
        BY <3>3, <3>4
      <4>2. ASSUME NEW j \in 1..i PROVE IsPrefix(q, words[j])
        <5>1. CASE j = i
          BY <4>1, <5>1
        <5>2. CASE j # i
          <6>1. j \in 1..(i - 1) /\ j \in 1..Len(words)
            BY <1>2, <5>2
          <6>2. IsPrefix(p, words[j]) /\ words[j] \in Seq(Chars)
            BY <1>3, <3>1, <6>1
          <6> QED  BY <3>2, <4>1, <6>2, PrefixTrans
        <5> QED  BY <5>1, <5>2
      <4>3. IsPrefix(q, words[1])
        BY <3>1, <3>2, <4>1, PrefixTrans
      <4> QED  BY <4>1, <4>2, <4>3
    <3>5. ASSUME Ascii PROVE q # Panic /\ Best(q)
      <4>1. \A n \in 1..Len(p) : p[n] \notin Wide
        <5>1. Len(p) <= Len(words[1]) /\ \A n \in 1..Len(p) : p[n] = words[1][n]
          BY <3>1, <3>2, PrefixIs
        <5>2. \A n \in 1..Len(words[1]) : words[1][n] \notin Wide
          <6>1. Range(words[1]) \cap Wide = {} /\ DOMAIN words[1] = 1..Len(words[1])
            BY <1>4, <3>2, <3>5
          <6> QED  BY <6>1 DEF Range
        <5>3. Len(p) \in Nat /\ Len(words[1]) \in Nat
          BY <3>2
        <5> QED  BY <5>1, <5>2, <5>3
      <4>2. q # Panic /\ \A t \in Seq(Chars) : IsPrefix(t, p) /\ IsPrefix(t, words[i]) => IsPrefix(t, q)
        BY <2>2, <3>2, <4>1, ShorterIs
      <4>3. ASSUME NEW t \in Seq(Chars), \A j \in 1..Len(words) : IsPrefix(t, words[j]) PROVE IsPrefix(t, q)
        <5>1. IsPrefix(t, p) /\ IsPrefix(t, words[i])
          BY <3>1, <3>5, <4>3
        <5> QED  BY <4>2, <5>1
      <4> QED  BY <4>2, <4>3
    <3>6. Good(q, i)
      <4> HIDE DEF Ascii, Best, Part
      <4> QED  BY <3>4, <3>5
    <3> HIDE DEF Good
    <3> QED  BY <2>3, <3>6
  <2> QED  BY <2>4, <2>5
<1>7. Len(words) \in S
  <2> HIDE DEF S
  <2>1. \A i \in 0..Len(words) : i \in S
    BY <1>2, <1>5, <1>6, UpTo
  <2> QED  BY <1>2, <2>1
<1>8. Good(common_prefix(words), Len(words))
  <2> HIDE DEF Good
  <2> QED  BY <1>1, <1>7
<1> QED  BY <1>8

(***************************************************************************)
(* Completion.                                                             *)
(***************************************************************************)
(* The two parts of a line at a place in it. *)
LEMMA CutIs ==
  ASSUME NEW s \in Lines, NEW k \in 0..Len(s)
  PROVE  /\ Len(s) \in Nat
         /\ SubSeq(s, 1, k) \in Lines /\ Len(SubSeq(s, 1, k)) = k
         /\ SubSeq(s, k + 1, Len(s)) \in Lines /\ Len(SubSeq(s, k + 1, Len(s))) = Len(s) - k
<1>1. PICK n \in Nat : n = Len(s)
  BY DEF Lines
<1>2. 1 \in Int /\ k \in Int /\ n \in Int /\ k + 1 \in Int /\ 0 <= k /\ k <= n
  BY <1>1
<1>3. \A i \in 1..n : s[i] \in Chars
  BY <1>1 DEF Lines
<1>4. (\A i \in 1..k : s[i] \in Chars) /\ (\A i \in (k + 1)..n : s[i] \in Chars)
  BY <1>2, <1>3
<1>5. SubSeq(s, 1, k) \in Seq(Chars) /\ Len(SubSeq(s, 1, k)) = IF 1 <= k THEN k - 1 + 1 ELSE 0
  BY <1>2, <1>4, SubSeqProperties
<1>6. SubSeq(s, k + 1, n) \in Seq(Chars) /\ Len(SubSeq(s, k + 1, n)) = IF k + 1 <= n THEN n - (k + 1) + 1 ELSE 0
  BY <1>2, <1>4, SubSeqProperties
<1>7. (IF 1 <= k THEN k - 1 + 1 ELSE 0) = k /\ (IF k + 1 <= n THEN n - (k + 1) + 1 ELSE 0) = n - k
  BY <1>2
<1> QED  BY <1>1, <1>5, <1>6, <1>7 DEF Lines

(* Joining two parts. *)
LEMMA JoinIs ==
  ASSUME NEW s \in Lines, NEW t \in Lines
  PROVE  s \o t \in Lines /\ Len(s \o t) = Len(s) + Len(t) /\ Len(s) \in Nat /\ Len(t) \in Nat
BY DEF Lines

(* A line is the two parts of it. *)
LEMMA CutJoin ==
  ASSUME NEW s \in Lines, NEW k \in 0..Len(s)
  PROVE  SubSeq(s, 1, k) \o SubSeq(s, k + 1, Len(s)) = s
<1>1. PICK n \in Nat : n = Len(s)
  BY DEF Lines
<1>2. PICK a \in Lines : a = SubSeq(s, 1, k) /\ Len(a) = k /\ \A i \in 1..k : a[i] = s[i]
  <2>1. \A i \in 1..k : SubSeq(s, 1, k)[i] = s[i]
    BY <1>1 DEF Lines
  <2> QED  BY <2>1, CutIs
<1>3. PICK b \in Lines : b = SubSeq(s, k + 1, n) /\ Len(b) = n - k /\ \A i \in 1..(n - k) : b[i] = s[k + i]
  <2>1. ASSUME NEW i \in 1..(n - k) PROVE SubSeq(s, k + 1, n)[i] = s[k + i]
    BY <1>1 DEF Lines
  <2> QED  BY <1>1, <2>1, CutIs
<1>4. a \o b \in Lines /\ Len(a \o b) = n
  <2>1. a \o b \in Lines /\ Len(a \o b) = Len(a) + Len(b)
    BY JoinIs
  <2>2. k + (n - k) = n
    BY <1>1
  <2> QED  BY <1>2, <1>3, <2>1, <2>2
<1>5. ASSUME NEW i \in 1..n PROVE (a \o b)[i] = s[i]
  <2>1. CASE i <= k
    <3>1. i \in 1..k
      BY <2>1
    <3>2. (a \o b)[i] = a[i]
      BY <1>2, <3>1 DEF Lines
    <3> QED  BY <1>2, <3>1, <3>2
  <2>2. CASE ~(i <= k)
    <3>1. i - k \in 1..(n - k) /\ k + (i - k) = i
      BY <2>2
    <3>2. (a \o b)[i] = b[i - k]
      BY <1>2, <1>3, <2>2, <3>1 DEF Lines
    <3> QED  BY <1>3, <3>1, <3>2
  <2> QED  BY <2>1, <2>2
<1>6. a \o b = s
  BY <1>1, <1>4, <1>5, SeqEqual DEF Lines
<1> QED  BY <1>1, <1>2, <1>3, <1>6

(* What is put in front of a line is put in front of its prefixes. *)
LEMMA ConcatPrefix ==
  ASSUME NEW b \in Lines, NEW p \in Lines, NEW c \in Lines, IsPrefix(p, c)
  PROVE  IsPrefix(b \o p, b \o c)
<1>1. Len(p) <= Len(c) /\ (\A i \in 1..Len(p) : p[i] = c[i])
  BY PrefixIs DEF Lines
<1>2. PICK u \in Lines : u = b \o p /\ Len(u) = Len(b) + Len(p)
  BY JoinIs
<1>3. PICK v \in Lines : v = b \o c /\ Len(v) = Len(b) + Len(c)
  BY JoinIs
<1>4. PICK k \in Nat, m \in Nat, n \in Nat : k = Len(b) /\ m = Len(p) /\ n = Len(c)
  BY DEF Lines
<1>5. ASSUME NEW i \in 1..(k + m) PROVE u[i] = v[i]
  <2>1. CASE i <= k
    BY <1>2, <1>3, <1>4, <2>1 DEF Lines
  <2>2. CASE ~(i <= k)
    <3>1. i - k \in 1..m /\ i - k \in 1..n
      BY <1>1, <1>4, <2>2
    <3>2. u[i] = p[i - k] /\ v[i] = c[i - k]
      BY <1>2, <1>3, <1>4, <2>2, <3>1 DEF Lines
    <3> QED  BY <1>1, <1>4, <3>1, <3>2
  <2> QED  BY <2>1, <2>2
<1>6. Len(u) <= Len(v) /\ Len(u) = k + m
  BY <1>1, <1>2, <1>3, <1>4
<1>7. IsPrefix(u, v)
  BY <1>5, <1>6, PrefixIs DEF Lines
<1> QED  BY <1>2, <1>3, <1>7

(* A line is a prefix of what it is the first part of. *)
LEMMA FirstPart ==
  ASSUME NEW s \in Lines, NEW e \in Lines
  PROVE  IsPrefix(s, s \o e) /\ IsPrefix(s, s)
<1>1. PICK u \in Lines : u = s \o e /\ Len(u) = Len(s) + Len(e)
  BY JoinIs
<1>2. PICK m \in Nat, n \in Nat : m = Len(s) /\ n = Len(e)
  BY DEF Lines
<1>3. \A i \in 1..m : u[i] = s[i]
  BY <1>1, <1>2 DEF Lines
<1>4. Len(s) <= Len(u) /\ Len(s) <= Len(s)
  BY <1>1, <1>2
<1> QED  BY <1>1, <1>2, <1>3, <1>4, PrefixIs DEF Lines

(* What is offered is a list of lines. *)
LEMMA OfferedType ==
  ASSUME NEW ws \in Offered
  PROVE  ws \in Seq(Lines)
<1>1. ws \in Seq(Range(ws)) /\ \A w \in Range(ws) : w \in Lines
  BY TextAssumption DEF Lines
<1>2. PICK R : R = Range(ws)
  OBVIOUS
<1>3. ws \in Seq(R) /\ \A w \in R : w \in Lines
  BY <1>1, <1>2
<1>4. \A i \in 1..Len(ws) : ws[i] \in Lines
  BY <1>3
<1> QED  BY <1>3, <1>4, SeqDef

(* "~" is replaced by text. *)
LEMMA TildeType ==
  ASSUME NEW t \in Lines
  PROVE  expand_tilde(t) \in Lines
<1>1. Home \in Lines
  BY TextAssumption DEF Lines
<1>2. ASSUME t # <<>> PROVE Home \o Tail(t) \in Lines
  <2>1. Tail(t) \in Lines
    BY <1>2, HeadTailProperties DEF Lines
  <2> QED  BY <1>1, <2>1, JoinIs
<1>3. t = <<"~">> \/ Len(t) > 1 => t # <<>>
  OBVIOUS
<1> QED  BY <1>2, <1>3 DEF expand_tilde

(* Paths is the result of the loop over the entries; every path it offers   *)
(* goes on from the directory and what was typed of the name.               *)
LEMMA PathsFacts ==
  ASSUME NEW names \in Seq(Lines), NEW dir \in Lines, NEW rest \in Lines
  PROVE  /\ Paths(names, dir, rest) \in Seq(Lines)
         /\ \A k \in 1..Len(Paths(names, dir, rest)) : IsPrefix(dir \o rest, Paths(names, dir, rest)[k])
<1> DEFINE N == Len(names)
           P == {c \in Lines : IsPrefix(dir \o rest, c)}
           T == Seq(P)
           H(x, i) == IF Listed(names[i], rest) THEN Append(x, dir \o names[i]) ELSE x
           g == [i \in 1..N |-> [x \in T |-> H(x, i)]]
           Body(f) == [i \in 0..N |-> IF i = 0 THEN <<>> ELSE H(f[i - 1], i)]
<1>0. N \in Nat /\ <<>> \in T
  OBVIOUS
<1>1. ASSUME NEW i \in 1..N, NEW x \in T PROVE H(x, i) \in T
  <2>1. CASE Listed(names[i], rest)
    <3>1. names[i] \in Lines /\ IsPrefix(rest, names[i])
      BY <2>1 DEF Listed
    <3>2. dir \o names[i] \in Lines /\ IsPrefix(dir \o rest, dir \o names[i])
      BY <3>1, JoinIs, ConcatPrefix
    <3>3. PICK y : y = dir \o names[i]
      OBVIOUS
    <3>4. y \in P
      BY <3>2, <3>3
    <3>5. Append(x, y) \in T
      <4> HIDE DEF P
      <4> QED  BY <3>4
    <3> QED  BY <2>1, <3>3, <3>5
  <2>2. CASE ~Listed(names[i], rest)
    BY <2>2
  <2> QED  BY <2>1, <2>2
<1>2. g \in [1..N -> [T -> T]]
  <2> HIDE DEF H, T, N
  <2> QED  BY <1>1
<1>3. PICK f \in [0..N -> T] : f[0] = <<>> /\ \A i \in 1..N : f[i] = g[i][f[i - 1]]
  <2> HIDE DEF g, N, T
  <2>1. \E h : IsRun(N, T, <<>>, g, h)
    BY <1>0, <1>2, RunExists
  <2> QED  BY <2>1 DEF IsRun
<1>4. f = Body(f)
  <2> HIDE DEF T, H
  <2>1. ASSUME NEW i \in 1..N PROVE f[i] = H(f[i - 1], i)
    <3>1. f[i - 1] \in T
      OBVIOUS
    <3> QED  BY <1>3, <3>1
  <2> QED  BY <1>3, <2>1
<1>5. PICK F : F = CHOOSE h : h = Body(h)
  OBVIOUS
<1>6. F = Body(F)
  <2> HIDE DEF Body
  <2> QED  BY <1>4, <1>5, Zenon
<1>7. Paths(names, dir, rest) = F[N]
  BY <1>5 DEF Paths
<1>8. F[0] = <<>> /\ \A i \in 1..N : F[i] = H(F[i - 1], i)
  <2> HIDE DEF H
  <2> QED  BY <1>0, <1>6
<1> DEFINE S == {i \in 0..N : F[i] \in T}
<1>9. 0 \in S
  <2>1. 0 \in 0..N /\ F[0] \in T
    <3> HIDE DEF T, N
    <3> QED  BY <1>0, <1>8
  <2> HIDE DEF T
  <2> QED  BY <2>1
<1>10. ASSUME NEW i \in 1..N, i - 1 \in S PROVE i \in S
  <2> HIDE DEF H, T
  <2>1. F[i - 1] \in T /\ F[i] = H(F[i - 1], i)
    BY <1>8, <1>10
  <2>2. i \in 0..N /\ F[i] \in T
    BY <1>1, <2>1
  <2> QED  BY <2>2
<1>11. F[N] \in T
  <2> HIDE DEF T
  <2>1. \A i \in 0..N : i \in S
    <3> HIDE DEF S
    <3> QED  BY <1>0, <1>9, <1>10, UpTo
  <2> QED  BY <1>0, <2>1
<1>12. PICK r : r = Paths(names, dir, rest)
  OBVIOUS
<1>13. r \in Seq(P)
  <2> HIDE DEF P
  <2> QED  BY <1>7, <1>11, <1>12
<1>14. Len(r) \in Nat /\ \A k \in 1..Len(r) : r[k] \in P
  <2> HIDE DEF P
  <2> QED  BY <1>13
<1>15. \A k \in 1..Len(r) : r[k] \in Lines /\ IsPrefix(dir \o rest, r[k])
  BY <1>14
<1>16. r \in Seq(Lines)
  <2> HIDE DEF P
  <2> QED  BY <1>13, <1>15, SeqDef
<1> QED  BY <1>12, <1>15, <1>16

(* What complete_path offers goes on from the token with "~" replaced. *)
LEMMA PathFacts ==
  ASSUME NEW token \in Lines
  PROVE  /\ complete_path(token) \in Seq(Lines)
         /\ \A k \in 1..Len(complete_path(token)) : IsPrefix(expand_tilde(token), complete_path(token)[k])
<1>1. PICK full \in Lines : full = expand_tilde(token)
  BY TildeType
<1>2. PICK n \in Nat : n = Len(full)
  BY DEF Lines
<1>3. PICK cut \in 0..n : cut = LastSlash(full)
  <2>1. PICK S : S = {i \in 1..n : full[i] = "/"}
    OBVIOUS
  <2>2. S \in SUBSET (0..n)
    BY <2>1
  <2>3. Greatest(S, 0) \in 0..n
    <3>1. IF S = {} THEN Greatest(S, 0) = 0 ELSE Greatest(S, 0) \in S
      BY <2>2, GreatestIs
    <3>2. 0 \in 0..n
      OBVIOUS
    <3> QED  BY <2>2, <3>1, <3>2
  <2> QED  BY <1>2, <2>1, <2>3 DEF LastSlash
<1>4. PICK dir \in Lines, rest \in Lines : dir = SubSeq(full, 1, cut) /\ rest = SubSeq(full, cut + 1, Len(full))
  BY <1>2, CutIs
<1>5. dir \o rest = full
  BY <1>2, <1>4, CutJoin
<1>6. PICK r : r = complete_path(token)
  OBVIOUS
<1>7. r = IF dir \in DOMAIN Dirs THEN Paths(Dirs[dir], dir, rest) ELSE <<>>
  BY <1>1, <1>3, <1>4, <1>6 DEF complete_path, PathsAt
<1>8. CASE dir \in DOMAIN Dirs
  <2>1. Dirs[dir] \in Offered
    BY <1>8 DEF Offered, Range
  <2>2. Dirs[dir] \in Seq(Lines)
    BY <2>1, OfferedType
  <2>3. r \in Seq(Lines) /\ \A k \in 1..Len(r) : IsPrefix(dir \o rest, r[k])
    BY <1>7, <1>8, <2>2, PathsFacts
  <2> QED  BY <1>1, <1>5, <1>6, <2>3
<1>9. CASE dir \notin DOMAIN Dirs
  <2>1. r = <<>> /\ <<>> \in Seq(Lines)
    BY <1>7, <1>9
  <2> QED  BY <1>6, <2>1
<1> QED  BY <1>8, <1>9

(* Every candidate goes on from the token, as it was typed or with its "~"  *)
(* replaced.                                                                *)
LEMMA CandidatesAre ==
  ASSUME NEW s \in Lines
  PROVE  /\ candidates(s) \in Seq(Lines)
         /\ \E t \in {Token(s), expand_tilde(Token(s))} : \A k \in 1..Len(candidates(s)) : IsPrefix(t, candidates(s)[k])
<1>1. PICK token \in Lines : token = Token(s)
  <2>1. Token(s) \in Seq(Chars \ {Blank})
    BY HeadAndToken DEF Lines
  <2> QED  BY <2>1 DEF Lines
<1>2. PICK r : r = candidates(s)
  OBVIOUS
<1>3. ASSUME NEW ws \in Offered, r = StartingWith(ws, token)
      PROVE  r \in Seq(Lines) /\ \A k \in 1..Len(r) : IsPrefix(token, r[k])
  BY <1>3, OfferedType, StartingFacts
<1>4. CASE Head0(s) = <<>>
  <2>1. r = StartingWith(COMMANDS, token)
    BY <1>1, <1>2, <1>4 DEF candidates, CandidatesAt
  <2>2. COMMANDS \in Offered
    BY DEF Offered
  <2> QED  BY <1>1, <1>2, <1>3, <2>1, <2>2
<1>5. CASE Head0(s) # <<>>
  <2>1. PICK role : role = RoleAt(Head0(s), token)
    OBVIOUS
  <2>2. r = FromList(role, token)
    BY <1>1, <1>2, <1>5, <2>1 DEF candidates, CandidatesAt, context_candidates
  <2>3. CASE role = "path"
    <3>1. r = complete_path(token)
      BY <2>2, <2>3 DEF FromList
    <3>2. r \in Seq(Lines) /\ \A k \in 1..Len(r) : IsPrefix(expand_tilde(token), r[k])
      BY <3>1, PathFacts
    <3> QED  BY <1>1, <1>2, <3>2
  <2>4. CASE role # "path" /\ role \in DOMAIN Lists
    <3>1. r = StartingWith(Lists[role], token)
      BY <2>2, <2>4 DEF FromList
    <3>2. Lists[role] \in Offered
      BY <2>4 DEF Offered, Range
    <3> QED  BY <1>1, <1>2, <1>3, <3>1, <3>2
  <2>5. CASE role # "path" /\ role \notin DOMAIN Lists
    <3>1. r = <<>> /\ <<>> \in Seq(Lines)
      BY <2>2, <2>5 DEF FromList
    <3> QED  BY <1>1, <1>2, <3>1
  <2> QED  BY <2>3, <2>4, <2>5
<1> QED  BY <1>4, <1>5

(* What completion works on: the words before the last one, and a token that *)
(* every candidate goes on from and that the line may begin with.            *)
LEMMA CompletionBase ==
  ASSUME NEW s \in Lines
  PROVE  \E base \in Lines, t \in Lines :
           /\ base = Joined(Head0(s)) /\ base \o t \in Typed(s, Head0(s), Token(s))
           /\ \A k \in 1..Len(candidates(s)) : IsPrefix(t, candidates(s)[k])
<1>1. PICK base \in Lines : base = Joined(Head0(s))
  <2>1. Head0(s) \in Seq(Word)
    BY HeadAndToken DEF Lines
  <2>2. PICK head \in Seq(Word) : head = Head0(s)
    BY <2>1
  <2>3. PICK f \in [0..Len(head) -> Seq(Chars)] : Joined(head) = f[Len(head)]
    BY JoinedRun
  <2>4. Len(head) \in 0..Len(head)
    OBVIOUS
  <2> QED  BY <2>2, <2>3, <2>4 DEF Lines
<1>2. PICK t \in {Token(s), expand_tilde(Token(s))} : \A k \in 1..Len(candidates(s)) : IsPrefix(t, candidates(s)[k])
  BY CandidatesAre
<1>3. t \in Lines
  <2>1. Token(s) \in Seq(Chars \ {Blank})
    BY HeadAndToken DEF Lines
  <2>2. Token(s) \in Lines
    BY <2>1 DEF Lines
  <2> QED  BY <1>2, <2>2, TildeType
<1>4. base \o t \in Typed(s, Head0(s), Token(s))
  BY <1>1, <1>2 DEF Typed
<1> QED  BY <1>1, <1>2, <1>3, <1>4

(* A choice is a line that begins with the base and the candidate. *)
LEMMA ItemIs ==
  ASSUME NEW base \in Lines, NEW p \in Lines, NEW c \in Lines, IsPrefix(p, c)
  PROVE  Item(base, c) \in Lines /\ IsPrefix(base \o p, Item(base, c))
<1>1. PICK e \in Lines : Item(base, c) = base \o c \o e
  <2>1. <<>> \in Lines /\ <<Blank>> \in Lines
    BY DEF Lines, Chars
  <2> QED  BY <2>1 DEF Item
<1>2. PICK u \in Lines : u = base \o c
  BY JoinIs
<1>3. u \o e \in Lines /\ IsPrefix(u, u \o e)
  BY JoinIs, FirstPart
<1>4. base \o p \in Lines /\ IsPrefix(base \o p, u)
  BY <1>2, JoinIs, ConcatPrefix
<1>5. PICK v, w : v = base \o p /\ w = u \o e
  OBVIOUS
<1>6. v \in Lines /\ w \in Lines /\ IsPrefix(v, u) /\ IsPrefix(u, w)
  BY <1>3, <1>4, <1>5
<1>7. IsPrefix(v, w)
  BY <1>6, PrefixTrans DEF Lines
<1> QED  BY <1>1, <1>2, <1>5, <1>6, <1>7

(* What complete computes: lines; every choice goes on from the line it was  *)
(* computed for and from the line it leaves; and with ASCII candidates there *)
(* is no panic and the line it leaves goes on from the one before it.        *)
LEMMA CompleteIs ==
  ASSUME NEW s \in Lines
  PROVE  LET c == complete(s)
         IN  /\ c.items \in Seq(Lines) /\ c.common \in Lines \cup {Panic}
             /\ candidates(s) = <<>> => c.common = s
             /\ \A i \in DOMAIN c.items : GoesOn(s, c.items[i])
             /\ c.common # Panic => \A i \in DOMAIN c.items : GoesOn(c.common, c.items[i])
             /\ AllAscii(candidates(s)) => c.common # Panic /\ GoesOn(s, c.common)
<1>1. PICK base \in Lines, t \in Lines :
           /\ base = Joined(Head0(s)) /\ base \o t \in Typed(s, Head0(s), Token(s))
           /\ \A k \in 1..Len(candidates(s)) : IsPrefix(t, candidates(s)[k])
  BY CompletionBase
<1>2. PICK cs \in Seq(Lines) : cs = candidates(s)
  BY CandidatesAre
<1>3. PICK n \in Nat : n = Len(cs)
  OBVIOUS
<1>4. DOMAIN cs = 1..n /\ \A i \in 1..n : cs[i] \in Lines /\ IsPrefix(t, cs[i])
  BY <1>1, <1>2, <1>3
<1>5. ASSUME NEW i \in 1..n PROVE Item(base, cs[i]) \in Lines /\ GoesOn(s, Item(base, cs[i]))
  <2>1. Item(base, cs[i]) \in Lines /\ IsPrefix(base \o t, Item(base, cs[i]))
    BY <1>4, ItemIs
  <2> QED  BY <1>1, <2>1 DEF GoesOn
<1>6. PICK c : c = complete(s)
  OBVIOUS
<1>7. c = Completion(s, cs, base)
  BY <1>1, <1>2, <1>6 DEF complete
<1>8. \A x \in Lines : GoesOn(x, x) /\ x # Panic
  <2> SUFFICES ASSUME NEW x \in Lines PROVE GoesOn(x, x) /\ x # Panic
    OBVIOUS
  <2>1. IsPrefix(x, x)
    BY FirstPart
  <2>2. x \in Typed(x, Head0(x), Token(x))
    BY DEF Typed
  <2>3. x # Panic
    BY NoMark DEF Lines
  <2> QED  BY <2>1, <2>2, <2>3 DEF GoesOn
<1>9. CASE n = 0
  <2>1. cs = <<>>
    BY <1>3, <1>9, EmptySeq
  <2>2. c = [common |-> s, items |-> <<>>]
    BY <1>7, <2>1 DEF Completion
  <2>3. c.common = s /\ c.items = <<>>
    BY <2>2
  <2>4. <<>> \in Seq(Lines) /\ DOMAIN <<>> = {}
    OBVIOUS
  <2> QED  BY <1>6, <1>8, <2>3, <2>4
<1>10. CASE n = 1
  <2>1. cs # <<>> /\ Len(cs) = 1
    <3>1. Len(cs) = 1 /\ Len(cs) # 0
      BY <1>3, <1>10
    <3>2. cs = <<>> => Len(cs) = 0
      OBVIOUS
    <3> QED  BY <3>1, <3>2
  <2>2. c = [common |-> Item(base, cs[1]), items |-> <<>>]
    BY <1>7, <2>1 DEF Completion
  <2>3. c.common = Item(base, cs[1]) /\ c.items = <<>>
    BY <2>2
  <2>4. <<>> \in Seq(Lines) /\ DOMAIN <<>> = {}
    OBVIOUS
  <2>5. c.common \in Lines /\ GoesOn(s, c.common)
    BY <1>5, <1>10, <2>3
  <2>6. c.common # Panic
    BY <1>8, <2>5
  <2> QED  BY <1>2, <1>6, <2>1, <2>3, <2>4, <2>5, <2>6
<1>11. CASE n > 1
  <2>1. cs # <<>> /\ Len(cs) > 1 /\ Len(cs) # 1
    <3>1. Len(cs) > 1 /\ Len(cs) # 1 /\ Len(cs) # 0
      BY <1>3, <1>11
    <3>2. cs = <<>> => Len(cs) = 0
      OBVIOUS
    <3> QED  BY <3>1, <3>2
  <2>2. PICK cp : cp = common_prefix(cs)
    OBVIOUS
  <2>3. c = [common |-> Common(base, cp), items |-> [i \in DOMAIN cs |-> Item(base, cs[i])]]
    BY <1>7, <2>1, <2>2 DEF Completion
  <2>4. /\ c.common = Common(base, cp)
        /\ c.items = [i \in 1..n |-> Item(base, cs[i])]
    BY <1>4, <2>3
  <2>5. c.items \in Seq(Lines) /\ DOMAIN c.items = 1..n
    BY <1>5, <2>4
  <2>6. \A i \in DOMAIN c.items : GoesOn(s, c.items[i])
    BY <1>5, <2>4, <2>5
  <2>7. cp = Panic \/ (cp \in Lines /\ \A j \in 1..n : IsPrefix(cp, cs[j]))
    BY <1>3, <2>1, <2>2, CommonPrefix DEF Lines
  <2>8. ASSUME cp # Panic
        PROVE  /\ c.common = base \o cp /\ c.common \in Lines
               /\ \A i \in DOMAIN c.items : GoesOn(c.common, c.items[i])
    <3>1. c.common = base \o cp /\ cp \in Lines
      BY <2>4, <2>7, <2>8 DEF Common
    <3>2. c.common \in Lines
      BY <3>1, JoinIs
    <3>3. ASSUME NEW i \in 1..n PROVE GoesOn(c.common, c.items[i])
      <4>1. IsPrefix(c.common, Item(base, cs[i]))
        BY <1>4, <2>7, <2>8, <3>1, ItemIs
      <4>2. c.common \in Typed(c.common, Head0(c.common), Token(c.common))
        BY DEF Typed
      <4> QED  BY <2>4, <4>1, <4>2 DEF GoesOn
    <3> QED  BY <2>5, <3>1, <3>2, <3>3
  <2>9. cp = Panic => c.common = Panic
    BY <2>4 DEF Common
  <2>10. ASSUME AllAscii(candidates(s)) PROVE c.common # Panic /\ GoesOn(s, c.common)
    <3>1. \A j \in 1..n : Range(cs[j]) \cap Wide = {}
      BY <1>2, <1>4, <2>10 DEF AllAscii
    <3>2. cp # Panic /\ IsPrefix(t, cp)
      <4>1. t \in Seq(Chars)
        BY DEF Lines
      <4> QED  BY <1>3, <1>4, <2>1, <2>2, <3>1, <4>1, CommonPrefix
    <3>3. c.common = base \o cp /\ c.common \in Lines /\ cp \in Lines
      BY <2>7, <2>8, <3>2
    <3>4. IsPrefix(base \o t, c.common)
      BY <3>2, <3>3, ConcatPrefix
    <3> QED  BY <1>1, <1>8, <3>3, <3>4 DEF GoesOn
  <2>11. c.common \in Lines \cup {Panic} /\ (c.common # Panic => \A i \in DOMAIN c.items : GoesOn(c.common, c.items[i]))
    BY <2>8, <2>9
  <2> QED  BY <1>2, <1>6, <2>1, <2>5, <2>6, <2>10, <2>11
<1> QED  BY <1>9, <1>10, <1>11

(***************************************************************************)
(* Places in a line, and the history.                                      *)
(***************************************************************************)
(* The least number of a set. *)
LEMMA LeastIs ==
  ASSUME NEW N \in Nat, NEW S \in SUBSET (0..N), NEW d
  PROVE  IF S = {} THEN Least(S, d) = d ELSE Least(S, d) \in S
<1>1. ASSUME S # {} PROVE \E x \in S : \A y \in S : x <= y
  <2> DEFINE T == {N - x : x \in S}
  <2>1. T \in SUBSET (0..N) /\ T # {}
    <3>1. \A x \in S : N - x \in 0..N
      OBVIOUS
    <3>2. PICK x : x \in S
      BY <1>1
    <3>3. N - x \in T
      BY <3>2
    <3> QED  BY <3>1, <3>3
  <2>2. PICK m \in T : \A y \in T : y <= m
    <3> HIDE DEF T
    <3> QED  BY <2>1, Largest
  <2>3. PICK x \in S : m = N - x
    OBVIOUS
  <2>4. ASSUME NEW y \in S PROVE x <= y
    <3>1. N - y \in T
      OBVIOUS
    <3>2. N - y <= N - x /\ x \in 0..N /\ y \in 0..N
      BY <2>2, <2>3, <3>1
    <3> QED  BY <3>2
  <2> QED  BY <2>4
<1> QED  BY <1>1, Zenon DEF Least

(* No two lines in a row are the same. *)
Unrepeated(h) == \A i \in 1..(Len(h) - 1) : h[i] # h[i + 1]

(* One more line that is not the last one. *)
LEMMA UnrepeatedAppend ==
  ASSUME NEW h \in Seq(Seq(Chars)), Unrepeated(h), NEW l \in Seq(Chars), h = <<>> \/ Last(h) # l
  PROVE  Append(h, l) \in Seq(Seq(Chars)) /\ Unrepeated(Append(h, l))
<1>1. PICK g : g = Append(h, l)
  OBVIOUS
<1>2. g \in Seq(Seq(Chars)) /\ Len(g) = Len(h) + 1 /\ g[Len(h) + 1] = l /\ (\A i \in 1..Len(h) : g[i] = h[i]) /\ Len(h) \in Nat
  BY <1>1
<1>3. ASSUME NEW i \in 1..(Len(g) - 1) PROVE g[i] # g[i + 1]
  <2>1. CASE i = Len(h)
    <3>1. h # <<>>
      BY <2>1
    <3> QED  BY <1>2, <2>1, <3>1 DEF Last
  <2>2. CASE i # Len(h)
    <3>1. i \in 1..(Len(h) - 1) /\ i \in 1..Len(h) /\ i + 1 \in 1..Len(h)
      BY <1>2, <2>2
    <3>2. h[i] # h[i + 1]
      BY <3>1 DEF Unrepeated
    <3> QED  BY <1>2, <3>1, <3>2
  <2> QED  BY <2>1, <2>2
<1> QED  BY <1>1, <1>2, <1>3 DEF Unrepeated

(* A later part of such a list. *)
LEMMA UnrepeatedTail ==
  ASSUME NEW h \in Seq(Seq(Chars)), Unrepeated(h), NEW m \in Nat \ {0}
  PROVE  SubSeq(h, m, Len(h)) \in Seq(Seq(Chars)) /\ Unrepeated(SubSeq(h, m, Len(h)))
<1>1. PICK n \in Nat : n = Len(h)
  OBVIOUS
<1>2. \A i \in m..n : h[i] \in Seq(Chars)
  BY <1>1
<1>3. PICK g : g = SubSeq(h, m, n)
  OBVIOUS
<1>4. /\ g \in Seq(Seq(Chars)) /\ Len(g) = (IF m <= n THEN n - m + 1 ELSE 0)
      /\ \A i \in 1..(n - m + 1) : g[i] = h[m + i - 1]
  <2>1. m \in Int /\ n \in Int
    OBVIOUS
  <2> QED  BY <1>2, <1>3, <2>1, SubSeqProperties
<1>5. ASSUME NEW i \in 1..(Len(g) - 1) PROVE g[i] # g[i + 1]
  <2>1. m <= n /\ Len(g) = n - m + 1 /\ i \in 1..(n - m)
    BY <1>4
  <2>2. i \in 1..(n - m + 1) /\ i + 1 \in 1..(n - m + 1) /\ m + i - 1 \in 1..(n - 1) /\ m + (i + 1) - 1 = (m + i - 1) + 1
    BY <2>1
  <2>3. g[i] = h[m + i - 1] /\ g[i + 1] = h[(m + i - 1) + 1]
    BY <1>4, <2>2
  <2>4. h[m + i - 1] # h[(m + i - 1) + 1]
    BY <1>1, <2>2 DEF Unrepeated
  <2> QED  BY <2>3, <2>4
<1> QED  BY <1>1, <1>3, <1>4, <1>5 DEF Unrepeated

(* dedup leaves no two lines in a row the same. *)
LEMMA DedupIs ==
  ASSUME NEW f \in Seq(Seq(Chars))
  PROVE  dedup(f) \in Seq(Seq(Chars)) /\ Unrepeated(dedup(f))
<1> DEFINE N == Len(f)
           T == Seq(Seq(Chars))
           g == [i \in 1..N |-> [x \in T |-> WithLine(x, f[i])]]
           Body(h) == [i \in 0..N |-> IF i = 0 THEN <<>> ELSE WithLine(h[i - 1], f[i])]
<1>0. N \in Nat /\ <<>> \in T
  OBVIOUS
<1>1. ASSUME NEW i \in 1..N, NEW x \in T PROVE WithLine(x, f[i]) \in T /\ (Unrepeated(x) => Unrepeated(WithLine(x, f[i])))
  <2>1. f[i] \in Seq(Chars)
    OBVIOUS
  <2>2. CASE x # <<>> /\ Last(x) = f[i]
    BY <2>2 DEF WithLine
  <2>3. CASE ~(x # <<>> /\ Last(x) = f[i])
    <3>1. WithLine(x, f[i]) = Append(x, f[i])
      BY <2>3 DEF WithLine
    <3>2. Append(x, f[i]) \in T
      BY <2>1
    <3> QED  BY <2>1, <2>3, <3>1, <3>2, UnrepeatedAppend
  <2> QED  BY <2>2, <2>3
<1>2. g \in [1..N -> [T -> T]]
  <2> HIDE DEF T, N
  <2> QED  BY <1>1
<1>3. PICK h \in [0..N -> T] : h[0] = <<>> /\ \A i \in 1..N : h[i] = g[i][h[i - 1]]
  <2> HIDE DEF g, N, T
  <2>1. \E h : IsRun(N, T, <<>>, g, h)
    BY <1>0, <1>2, RunExists
  <2> QED  BY <2>1 DEF IsRun
<1>4. h = Body(h)
  <2>1. ASSUME NEW i \in 1..N PROVE h[i] = WithLine(h[i - 1], f[i])
    <3>1. h[i - 1] \in T
      OBVIOUS
    <3> HIDE DEF T
    <3> QED  BY <1>3, <3>1
  <2> HIDE DEF T
  <2> QED  BY <1>3, <2>1
<1>5. PICK F : F = CHOOSE x : x = Body(x)
  OBVIOUS
<1>6. F = Body(F)
  <2> HIDE DEF Body
  <2> QED  BY <1>4, <1>5, Zenon
<1>7. dedup(f) = F[N]
  BY <1>5 DEF dedup
<1>8. F[0] = <<>> /\ \A i \in 1..N : F[i] = WithLine(F[i - 1], f[i])
  <2>1. F = [i \in 0..N |-> IF i = 0 THEN <<>> ELSE WithLine(F[i - 1], f[i])]
    BY <1>6
  <2> HIDE DEF N
  <2>2. F[0] = <<>>
    BY <1>0, <2>1
  <2>3. ASSUME NEW i \in 1..N PROVE F[i] = WithLine(F[i - 1], f[i])
    <3>1. i \in 0..N /\ i # 0
      BY <1>0
    <3> QED  BY <2>1, <3>1
  <2> QED  BY <2>2, <2>3
<1> DEFINE S == {i \in 0..N : F[i] \in T /\ Unrepeated(F[i])}
<1>9. 0 \in S
  <2>1. 0 \in 0..N /\ F[0] \in T
    <3> HIDE DEF T, N
    <3> QED  BY <1>0, <1>8
  <2>2. Unrepeated(F[0])
    BY <1>8 DEF Unrepeated
  <2> HIDE DEF T
  <2> QED  BY <2>1, <2>2
<1>10. ASSUME NEW i \in 1..N, i - 1 \in S PROVE i \in S
  <2> HIDE DEF T
  <2>1. F[i - 1] \in T /\ Unrepeated(F[i - 1]) /\ F[i] = WithLine(F[i - 1], f[i])
    BY <1>8, <1>10
  <2>2. i \in 0..N /\ F[i] \in T /\ Unrepeated(F[i])
    BY <1>1, <2>1
  <2> QED  BY <2>2
<1>11. N \in S
  <2> HIDE DEF S
  <2>1. \A i \in 0..N : i \in S
    BY <1>0, <1>9, <1>10, UpTo
  <2> QED  BY <1>0, <2>1
<1>12. F[N] \in T /\ Unrepeated(F[N])
  <2> HIDE DEF T
  <2> QED  BY <1>11
<1> QED  BY <1>7, <1>12

(* What a new process reads has no two lines in a row the same. *)
LEMMA LoadIs ==
  ASSUME NEW f \in Seq(Seq(Chars))
  PROVE  load_from(f) \in Seq(Seq(Chars)) /\ Unrepeated(load_from(f))
<1>1. PICK d \in Seq(Seq(Chars)) : d = dedup(f) /\ Unrepeated(d)
  BY DedupIs
<1>2. PICK b \in Int : b = Len(d) - CAP + 1
  <2>1. Len(d) \in Nat /\ CAP \in Nat
    BY BoundsAssumption
  <2>2. Len(d) - CAP + 1 \in Int
    BY <2>1
  <2> QED  BY <2>2
<1>3. PICK m : m = Greatest({1, b}, 1)
  OBVIOUS
<1>4. m \in Nat \ {0}
  <2>1. \E x \in {1, b} : \A y \in {1, b} : y <= x
    <3>1. CASE b <= 1
      BY <3>1
    <3>2. CASE ~(b <= 1)
      BY <3>2
    <3> QED  BY <3>1, <3>2
  <2>2. m \in {1, b} /\ \A y \in {1, b} : y <= m
    BY <1>3, <2>1, Zenon DEF Greatest
  <2>3. m \in Int /\ 1 <= m
    BY <2>2
  <2> QED  BY <2>3
<1>5. load_from(f) = SubSeq(d, m, Len(d))
  BY <1>1, <1>2, <1>3 DEF load_from
<1> QED  BY <1>1, <1>4, <1>5, UnrepeatedTail

(* A line without the blanks around it is a line. *)
LEMMA TrimIs ==
  ASSUME NEW s \in Seq(Chars)
  PROVE  Trim(s) \in Seq(Chars)
<1> DEFINE solid == {i \in 1..Len(s) : s[i] # Blank}
<1>1. Len(s) \in Nat /\ solid \in SUBSET (0..Len(s)) /\ solid \subseteq 1..Len(s)
  OBVIOUS
<1>2. CASE solid = {}
  <2>1. Trim(s) = <<>>
    BY <1>2 DEF Trim
  <2> QED  BY <2>1
<1>3. CASE solid # {}
  <2>1. PICK m, n : m = Least(solid, 0) /\ n = Greatest(solid, 0)
    OBVIOUS
  <2>2. m \in 1..Len(s) /\ n \in 1..Len(s)
    <3> HIDE DEF solid
    <3> QED  BY <1>1, <1>3, <2>1, GreatestIs, LeastIs
  <2>3. Trim(s) = SubSeq(s, m, n)
    BY <1>3, <2>1 DEF Trim
  <2>4. m \in Int /\ n \in Int /\ \A i \in m..n : s[i] \in Chars
    BY <2>2
  <2>5. SubSeq(s, m, n) \in Seq(Chars)
    BY <2>4, SubSeqProperties
  <2> QED  BY <2>3, <2>5
<1> QED  BY <1>2, <1>3

(***************************************************************************)
(* The command line: CLInv is inductive.                                   *)
(***************************************************************************)
(* Lines are made of characters, the cursor is in the line, and what is     *)
(* recalled is in the history.                                              *)
CLTypeOK ==
  /\ line \in Lines /\ cursor \in 0..Len(line) /\ mode \in {"Normal", "Command", "panicked"}
  /\ history \in Seq(Lines) /\ file \in Seq(Lines)
  /\ recall \in 0..Len(history) /\ saved \in Lines \cup {None}
  /\ menu \in [open : BOOLEAN, items : Seq(Lines), selected : Nat, offset : Nat]

(* The menu m fits the line l. *)
MenuFits(m, l) ==
  m.open => /\ m.selected < Len(m.items)
            /\ m.offset <= m.selected /\ m.selected < m.offset + MENU_ROWS
            /\ \A i \in DOMAIN m.items : GoesOn(l, m.items[i])
WalkFits(h, r, sv, l) == r # NoRecall => l = h[r] /\ sv # None /\ IsPrefix(sv, l)

CLInv ==
  /\ CLTypeOK /\ MenuFits(menu, line) /\ Unrepeated(history)
  /\ mode = "Command" => WalkFits(history, recall, saved, line)

(* CLInv is LineSound with the types. *)
LEMMA InvIsSound == CLInv => LineSound
BY DEF CLInv, LineSound, MenuFollowsLine, WalkShowsEntry, NoRepeats, MenuFits, WalkFits, Unrepeated, Editing

Menus == [open : BOOLEAN, items : Seq(Lines), selected : Nat, offset : Nat]

(* A closed menu, and one that is just opened. *)
LEMMA ClosedFits == Closed \in Menus /\ ~Closed.open /\ \A l : MenuFits(Closed, l)
<1>1. <<>> \in Seq(Lines)
  OBVIOUS
<1> QED  BY <1>1 DEF Closed, Menus, MenuFits

(* A menu with items that is just opened: the first one is selected.        *)
LEMMA OpenedFits ==
  ASSUME NEW items \in Seq(Lines), items # <<>>, NEW l, \A i \in DOMAIN items : GoesOn(l, items[i])
  PROVE  OpenWith(items) \in Menus /\ MenuFits(OpenWith(items), l)
<1>1. OpenWith(items) = [open |-> TRUE, items |-> items, selected |-> 0, offset |-> 0]
  <2>1. PICK c : c = [Closed EXCEPT !.open = TRUE]
    OBVIOUS
  <2>2. c = [open |-> TRUE, items |-> <<>>, selected |-> 0, offset |-> 0]
    BY <2>1 DEF Closed
  <2>3. OpenWith(items) = [c EXCEPT !.items = items]
    BY <2>1 DEF OpenWith
  <2> QED  BY <2>2, <2>3
<1>2. PICK n \in Nat : n = Len(items)
  OBVIOUS
<1>3. n # 0
  BY <1>2, EmptySeq
<1>4. 0 < n /\ 0 <= 0
  BY ONLY n \in Nat, <1>3
<1>5. 0 < 0 + MENU_ROWS
  BY BoundsAssumption
<1>6. OpenWith(items) \in Menus
  BY <1>1 DEF Menus
<1>7. PICK m : m = OpenWith(items)
  OBVIOUS
<1>8. m.selected = 0 /\ m.offset = 0 /\ m.items = items
  BY <1>1, <1>7
<1>9. m.selected < Len(m.items) /\ m.offset <= m.selected /\ m.selected < m.offset + MENU_ROWS
  BY <1>2, <1>4, <1>5, <1>8
<1> QED  BY <1>6, <1>7, <1>8, <1>9 DEF MenuFits

(* What Follow does to the menu. *)
LEMMA FollowStep ==
  ASSUME menu \in Menus, MenuFits(menu, line), mode = "Command", NEW l \in Lines, Follow(l)
  PROVE  menu' \in Menus /\ MenuFits(menu', l) /\ mode' \in {"Command", "panicked"}
<1>1. PICK c : c = complete(l)
  OBVIOUS
<1>2. c.items \in Seq(Lines) /\ \A i \in DOMAIN c.items : GoesOn(l, c.items[i])
  BY <1>1, CompleteIs
<1>3. Followed(c)
  BY <1>1 DEF Follow
<1>4. CASE menu.open /\ c.common = Panic
  <2>1. mode' = "panicked" /\ menu' = Closed
    BY <1>3, <1>4 DEF Followed
  <2> QED  BY <2>1, ClosedFits
<1>5. CASE ~(menu.open /\ c.common = Panic)
  <2>1. mode' = mode /\ menu' = IF menu.open THEN refresh(c.items) ELSE menu
    BY <1>3, <1>5 DEF Followed
  <2>2. CASE ~menu.open
    BY <2>1, <2>2 DEF MenuFits
  <2>3. CASE menu.open
    <3>1. menu' = IF c.items = <<>> THEN Closed ELSE OpenWith(c.items)
      BY <2>1, <2>3 DEF refresh
    <3> QED  BY <1>2, <2>1, <3>1, ClosedFits, OpenedFits
  <2> QED  BY <2>2, <2>3
<1> QED  BY <1>4, <1>5

(* A key that changes the line. *)
LEMMA MutatedStep ==
  ASSUME CLInv, Editing, NEW l \in Lines, NEW c \in 0..Len(l), Mutated(l, c)
  PROVE  CLInv'
<1>1. line' = l /\ cursor' = c /\ recall' = NoRecall /\ saved' = None /\ history' = history /\ file' = file /\ Follow(l)
  BY DEF Mutated
<1>2. menu' \in Menus /\ MenuFits(menu', l) /\ mode' \in {"Command", "panicked"}
  BY <1>1, FollowStep DEF CLInv, CLTypeOK, Editing, Menus
<1>3. CLTypeOK'
  <2>1. 0 \in 0..Len(history)
    BY DEF CLInv, CLTypeOK
  <2> QED  BY <1>1, <1>2, <2>1 DEF CLInv, CLTypeOK, Menus, NoRecall
<1>4. MenuFits(menu, line)'
  BY <1>1, <1>2
<1>5. Unrepeated(history)'
  BY <1>1 DEF CLInv
<1>6. WalkFits(history, recall, saved, line)'
  BY <1>1 DEF WalkFits
<1> QED  BY <1>3, <1>4, <1>5, <1>6 DEF CLInv

(* The word keys move inside the line. *)
LEMMA LinePlaces ==
  ASSUME CLTypeOK
  PROVE  /\ word_left \in 0..Len(line) /\ word_right \in 0..Len(line) /\ kill_word_start \in 0..Len(line)
         /\ Len(line) \in Nat
<1>1. PICK n \in Nat : n = Len(line)
  BY DEF CLTypeOK, Lines
<1>2. PICK a : a = {i - 1 : i \in {j \in WordStarts : j - 1 < cursor}}
  OBVIOUS
<1>3. PICK b : b = {i \in WordEnds : i > cursor}
  OBVIOUS
<1>4. a \in SUBSET (0..n)
  <2>1. WordStarts \subseteq 1..n
    BY <1>1 DEF WordStarts
  <2>2. ASSUME NEW x \in a PROVE x \in 0..n
    <3>1. PICK i \in {j \in WordStarts : j - 1 < cursor} : x = i - 1
      BY <1>2, <2>2
    <3>2. i \in 1..n
      BY <2>1, <3>1
    <3> QED  BY <3>1, <3>2
  <2> QED  BY <2>2
<1>5. b \in SUBSET (0..n)
  <2>1. WordEnds \subseteq 1..n
    BY <1>1 DEF WordEnds
  <2>2. 1..n \subseteq 0..n
    OBVIOUS
  <2> QED  BY <1>3, <2>1, <2>2
<1>6. Greatest(a, cursor) \in 0..n
  <2>1. cursor \in 0..n
    BY <1>1 DEF CLTypeOK
  <2> QED  BY <1>4, <2>1, GreatestIs
<1>7. Greatest(a, 0) \in 0..n
  <2>1. 0 \in 0..n
    OBVIOUS
  <2> QED  BY <1>4, <2>1, GreatestIs
<1>8. Least(b, Len(line)) \in 0..n
  <2>1. Len(line) \in 0..n
    BY <1>1
  <2> QED  BY <1>5, <2>1, LeastIs
<1> QED  BY <1>1, <1>2, <1>3, <1>6, <1>7, <1>8 DEF word_left, word_right, kill_word_start

(* The keys that change the line. *)
LEMMA EditStep ==
  ASSUME CLInv, (\E c \in Letters : Insert(c)) \/ Backspace \/ Delete \/ KillWord \/ KillToStart \/ KillToEnd
  PROVE  CLInv'
<1>1. line \in Lines /\ cursor \in 0..Len(line) /\ CLTypeOK
  BY DEF CLInv, CLTypeOK
<1>2. PICK n \in Nat : n = Len(line)
  BY <1>1, CutIs
<1>3. PICK b \in Lines : b = Before /\ Len(b) = cursor
  BY <1>1, CutIs DEF Before
<1>4. PICK e \in Lines : e = Behind /\ Len(e) = n - cursor
  BY <1>1, <1>2, CutIs DEF Behind
<1>5. PICK k \in 0..n : k = cursor
  BY <1>1, <1>2
<1>6. CASE \E c \in Letters : Insert(c)
  <2>1. PICK c \in Letters : Insert(c)
    BY <1>6
  <2>2. <<c>> \in Lines /\ Len(<<c>>) = 1
    BY DEF Lines, Chars
  <2>3. PICK l : l = b \o <<c>> \o e
    OBVIOUS
  <2>4. l \in Lines /\ Len(l) = n + 1
    <3>1. b \o <<c>> \in Lines /\ Len(b \o <<c>>) = k + 1
      BY <1>3, <1>5, <2>2, JoinIs
    <3>2. l \in Lines /\ Len(l) = Len(b \o <<c>>) + Len(e)
      BY <2>3, <3>1, JoinIs
    <3> QED  BY <1>4, <1>5, <3>1, <3>2
  <2>5. Mutated(l, k + 1) /\ Editing
    BY <1>3, <1>4, <1>5, <2>1, <2>3 DEF Insert
  <2>6. k + 1 \in 0..Len(l)
    BY <1>5, <2>4
  <2> QED  BY <2>4, <2>5, <2>6, MutatedStep
<1>7. ASSUME Mutated(line, cursor), Editing PROVE CLInv'
  <2>1. PICK l \in Lines : l = line
    BY <1>1
  <2>2. Mutated(l, k) /\ k \in 0..Len(l)
    BY <1>2, <1>5, <1>7, <2>1
  <2> QED  BY <1>7, <2>2, MutatedStep
<1>8. CASE Backspace
  <2>1. CASE cursor > 0
    <3>1. PICK f : f = Front(b)
      OBVIOUS
    <3>2. k - 1 \in 0..Len(b)
      BY <1>3, <1>5, <2>1
    <3>3. f \in Lines /\ Len(f) = k - 1
      <4>1. SubSeq(b, 1, k - 1) \in Lines /\ Len(SubSeq(b, 1, k - 1)) = k - 1
        BY <3>2, CutIs
      <4> QED  BY <1>3, <1>5, <3>1, <4>1 DEF Front
    <3>4. PICK l : l = f \o e
      OBVIOUS
    <3>5. l \in Lines /\ Len(l) = Len(f) + Len(e)
      BY <3>3, <3>4, JoinIs
    <3>6. k - 1 \in 0..Len(l)
      BY <1>4, <1>5, <2>1, <3>3, <3>5
    <3>7. Mutated(l, k - 1) /\ Editing
      BY <1>3, <1>4, <1>5, <1>8, <2>1, <3>1, <3>4 DEF Backspace
    <3> QED  BY <3>5, <3>6, <3>7, MutatedStep
  <2>2. CASE ~(cursor > 0)
    BY <1>7, <1>8, <2>2 DEF Backspace
  <2> QED  BY <2>1, <2>2
<1>9. CASE Delete
  <2>1. CASE cursor < Len(line)
    <3>1. PICK t : t = Tail(e)
      OBVIOUS
    <3>2. t \in Lines /\ Len(t) \in Nat
      <4>1. Len(e) # 0
        BY <1>2, <1>4, <1>5, <2>1
      <4>2. e # <<>>
        BY <4>1
      <4> QED  BY <3>1, <4>2, HeadTailProperties DEF Lines
    <3>3. PICK l : l = b \o t
      OBVIOUS
    <3>4. l \in Lines /\ Len(l) = Len(b) + Len(t)
      BY <3>2, <3>3, JoinIs
    <3>5. k \in 0..Len(l)
      BY <1>3, <1>5, <3>2, <3>4
    <3>6. Mutated(l, k) /\ Editing
      BY <1>3, <1>4, <1>5, <1>9, <2>1, <3>1, <3>3 DEF Delete
    <3> QED  BY <3>4, <3>5, <3>6, MutatedStep
  <2>2. CASE ~(cursor < Len(line))
    BY <1>7, <1>9, <2>2 DEF Delete
  <2> QED  BY <2>1, <2>2
<1>10. CASE KillWord
  <2>1. PICK j \in 0..n : j = kill_word_start
    BY <1>1, <1>2, LinePlaces
  <2>2. PICK f \in Lines : f = SubSeq(line, 1, j) /\ Len(f) = j
    BY <1>1, <1>2, <2>1, CutIs
  <2>3. PICK l : l = f \o e
    OBVIOUS
  <2>4. l \in Lines /\ Len(l) = Len(f) + Len(e) /\ Len(e) \in Nat
    BY <2>2, <2>3, JoinIs
  <2>5. j \in 0..Len(l)
    BY <2>2, <2>4
  <2>6. Mutated(l, j) /\ Editing
    BY <1>4, <1>10, <2>1, <2>2, <2>3 DEF KillWord
  <2> QED  BY <2>4, <2>5, <2>6, MutatedStep
<1>11. CASE KillToStart
  <2>1. Mutated(e, 0) /\ Editing /\ 0 \in 0..Len(e)
    <3>1. Len(e) \in Nat
      BY JoinIs
    <3> QED  BY <1>4, <1>11, <3>1 DEF KillToStart
  <2> QED  BY <2>1, MutatedStep
<1>12. CASE KillToEnd
  <2>1. Mutated(b, k) /\ Editing /\ k \in 0..Len(b)
    BY <1>3, <1>5, <1>12 DEF KillToEnd
  <2> QED  BY <2>1, MutatedStep
<1> QED  BY <1>6, <1>8, <1>9, <1>10, <1>11, <1>12

(***************************************************************************)
(* The other keys.                                                         *)
(***************************************************************************)
(* A step that leaves the line to a menu that fits it and ends the walk.    *)
LEMMA EndWalk ==
  ASSUME CLInv, line' \in Lines, cursor' \in 0..Len(line'), mode' \in {"Normal", "Command", "panicked"},
         menu' \in Menus, MenuFits(menu', line'), recall' = NoRecall, saved' = None,
         history' \in Seq(Lines), Unrepeated(history'), file' \in Seq(Lines)
  PROVE  CLInv'
<1>1. 0 \in 0..Len(history')
  <2>1. PICK n \in Nat : n = Len(history')
    OBVIOUS
  <2> QED  BY <2>1
<1>2. CLTypeOK'
  BY <1>1 DEF CLTypeOK, Menus, NoRecall
<1>3. WalkFits(history', recall', saved', line')
  BY DEF WalkFits
<1> QED  BY <1>2, <1>3 DEF CLInv

(* The empty line of a mode change. *)
LEMMA EmptyLine == <<>> \in Lines /\ 0 \in 0..Len(<<>>)
BY DEF Lines

(* Opening the command line. *)
LEMMA EnterStep ==
  ASSUME CLInv, enter_command_mode
  PROVE  CLInv'
<1>1. /\ mode' = "Command" /\ line' = <<>> /\ cursor' = 0 /\ menu' = Closed
      /\ recall' = NoRecall /\ saved' = None /\ history' = history /\ file' = file
  BY DEF enter_command_mode
<1>2. menu' \in Menus /\ MenuFits(menu', line')
  BY <1>1, ClosedFits
<1>3. history' \in Seq(Lines) /\ Unrepeated(history') /\ file' \in Seq(Lines)
  BY <1>1 DEF CLInv, CLTypeOK
<1>4. line' \in Lines /\ cursor' \in 0..Len(line')
  BY <1>1, EmptyLine
<1> QED  BY <1>1, <1>2, <1>3, <1>4, EndWalk

(* A cursor key. *)
LEMMA MoveStep ==
  ASSUME CLInv, MoveKey
  PROVE  CLInv'
<1>1. PICK n \in Nat : n = Len(line)
  BY LinePlaces DEF CLInv
<1>2. cursor \in 0..n
  BY <1>1 DEF CLInv, CLTypeOK
<1>3. word_left \in 0..n /\ word_right \in 0..n
  BY <1>1, LinePlaces DEF CLInv
<1>4. \E c \in 0..n : Move(c)
  <2>1. CASE cursor > 0 /\ Move(cursor - 1)
    <3>1. cursor - 1 \in 0..n
      BY <1>2, <2>1
    <3> QED  BY <2>1, <3>1
  <2>2. CASE cursor < Len(line) /\ Move(cursor + 1)
    <3>1. cursor + 1 \in 0..n
      BY <1>1, <1>2, <2>2
    <3> QED  BY <2>2, <3>1
  <2>3. CASE Move(0)
    <3>1. 0 \in 0..n
      OBVIOUS
    <3> QED  BY <2>3, <3>1
  <2>4. CASE Move(Len(line))
    <3>1. n \in 0..n
      OBVIOUS
    <3> QED  BY <1>1, <2>4, <3>1
  <2>5. CASE Move(word_left) \/ Move(word_right)
    BY <1>3, <2>5
  <2> QED  BY <2>1, <2>2, <2>3, <2>4, <2>5 DEF MoveKey
<1>5. cursor' \in 0..n /\ line' = line /\ mode' = mode /\ history' = history /\ recall' = recall
      /\ saved' = saved /\ menu' = menu /\ file' = file
  BY <1>4 DEF Move
<1>6. CLTypeOK'
  BY <1>1, <1>5 DEF CLInv, CLTypeOK
<1> QED  BY <1>5, <1>6 DEF CLInv

(* The window follows the selection. *)
LEMMA ScrollFits ==
  ASSUME NEW m \in Menus, NEW n \in Nat, n = Len(m.items), m.selected < n
  PROVE  LET r == scroll(m)
         IN  /\ r \in Menus /\ r.open = m.open /\ r.items = m.items /\ r.selected = m.selected
             /\ r.offset <= r.selected /\ r.selected < r.offset + MENU_ROWS
<1>0. PICK s \in Nat, o \in Nat : s = m.selected /\ o = m.offset
  BY DEF Menus
<1>1. PICK q : q = IF s < o THEN s ELSE IF s >= o + MENU_ROWS THEN s + 1 - MENU_ROWS ELSE o
  OBVIOUS
<1>2. q \in Nat /\ q <= s /\ s < q + MENU_ROWS
  <2>1. PICK r \in Nat \ {0} : r = MENU_ROWS
    BY BoundsAssumption
  <2>2. q = IF s < o THEN s ELSE IF s >= o + r THEN s + 1 - r ELSE o
    BY <1>1, <2>1
  <2>3. q \in Nat /\ q <= s /\ s < q + r
    BY ONLY s \in Nat, o \in Nat, r \in Nat \ {0}, <2>2
  <2> QED  BY <2>1, <2>3
<1>3. scroll(m) = [m EXCEPT !.offset = q]
  BY <1>0, <1>1 DEF scroll
<1>4. scroll(m) = [open |-> m.open, items |-> m.items, selected |-> m.selected, offset |-> q]
  BY <1>3 DEF Menus
<1> QED  BY <1>0, <1>2, <1>4 DEF Menus

(* Up and Down in the menu. *)
LEMMA MenuStep ==
  ASSUME CLInv, MenuMove
  PROVE  CLInv'
<1>1. menu \in Menus /\ menu.open /\ MenuFits(menu, line)
  BY DEF CLInv, CLTypeOK, Menus, MenuMove
<1>2. PICK n \in Nat : n = Len(menu.items)
  BY <1>1 DEF Menus
<1>3. PICK s \in Nat : s = menu.selected
  BY <1>1 DEF Menus
<1>4. s < n
  BY <1>1, <1>2, <1>3 DEF MenuFits
<1>5. (s + 1) % n \in Nat /\ (s + 1) % n < n
  BY <1>4
<1>6. PICK t \in Nat : t < n /\ menu' = scroll([menu EXCEPT !.selected = t])
  <2>1. CASE menu' = up(menu)
    <3>1. PICK t : t = IF s = 0 THEN n - 1 ELSE s - 1
      OBVIOUS
    <3>2. t \in Nat /\ t < n
      BY <1>4, <3>1
    <3>3. menu' = scroll([menu EXCEPT !.selected = t])
      BY <1>2, <1>3, <2>1, <3>1 DEF up
    <3> QED  BY <3>2, <3>3
  <2>2. CASE menu' = down(menu)
    <3>1. PICK t : t = (s + 1) % n
      OBVIOUS
    <3>2. menu' = scroll([menu EXCEPT !.selected = t])
      BY <1>2, <1>3, <2>2, <3>1 DEF down
    <3> QED  BY <1>5, <3>1, <3>2
  <2> QED  BY <2>1, <2>2 DEF MenuMove
<1>7. PICK m : m = [menu EXCEPT !.selected = t]
  OBVIOUS
<1>8. m \in Menus /\ m.open = menu.open /\ m.items = menu.items /\ m.selected = t
  BY <1>1, <1>7 DEF Menus
<1>9. /\ menu' \in Menus /\ menu'.items = menu.items /\ menu'.selected = t
      /\ menu'.offset <= menu'.selected /\ menu'.selected < menu'.offset + MENU_ROWS
  <2>1. menu' = scroll(m)
    BY <1>6, <1>7
  <2> QED  BY <1>2, <1>6, <1>8, <2>1, ScrollFits
<1>10. line' = line /\ cursor' = cursor /\ mode' = mode /\ history' = history /\ recall' = recall
       /\ saved' = saved /\ file' = file
  BY DEF MenuMove
<1>11. MenuFits(menu', line')
  BY <1>1, <1>2, <1>6, <1>9, <1>10 DEF MenuFits
<1>12. CLTypeOK'
  BY <1>9, <1>10 DEF CLInv, CLTypeOK, Menus
<1> QED  BY <1>10, <1>11, <1>12 DEF CLInv

(* Accepting the selected item. *)
LEMMA AcceptStep ==
  ASSUME CLInv, accept_menu_selection
  PROVE  CLInv'
<1>1. menu \in Menus /\ menu.open /\ MenuFits(menu, line) /\ mode = "Command"
  BY DEF CLInv, CLTypeOK, Menus, accept_menu_selection, Editing
<1>2. PICK n \in Nat, s \in Nat : n = Len(menu.items) /\ s = menu.selected
  BY <1>1 DEF Menus
<1>3. s + 1 \in 1..n
  BY <1>1, <1>2 DEF MenuFits
<1>4. PICK l \in Lines : l = menu.items[s + 1]
  BY <1>1, <1>2, <1>3 DEF Menus
<1>5. /\ line' = l /\ cursor' = Len(l) /\ Follow(l) /\ recall' = NoRecall /\ saved' = None
      /\ history' = history /\ file' = file
  BY <1>2, <1>4 DEF accept_menu_selection
<1>6. menu' \in Menus /\ MenuFits(menu', l) /\ mode' \in {"Command", "panicked"}
  BY <1>1, <1>5, FollowStep
<1>7. cursor' \in 0..Len(line')
  <2>1. Len(l) \in Nat
    BY DEF Lines
  <2> QED  BY <1>5, <2>1
<1>8. history' \in Seq(Lines) /\ Unrepeated(history') /\ file' \in Seq(Lines)
  BY <1>5 DEF CLInv, CLTypeOK
<1> QED  BY <1>5, <1>6, <1>7, <1>8, EndWalk

(* Tab without a menu. *)
LEMMA TabStep ==
  ASSUME CLInv, TabKey
  PROVE  CLInv'
<1>1. PICK s \in Lines : s = line
  BY DEF CLInv, CLTypeOK
<1>2. PICK c, items, common : c = complete(s) /\ items = c.items /\ common = c.common
  OBVIOUS
<1>3. /\ items \in Seq(Lines) /\ common \in Lines \cup {Panic}
      /\ common # Panic => \A i \in DOMAIN items : GoesOn(common, items[i])
  BY <1>2, CompleteIs
<1>6. Completed(c)
  BY <1>1, <1>2 DEF TabKey
<1>4. CASE common = Panic
  <2>1. mode' = "panicked" /\ line' = line /\ cursor' = cursor /\ history' = history /\ recall' = recall
        /\ saved' = saved /\ menu' = menu /\ file' = file
    BY <1>2, <1>4, <1>6 DEF Completed
  <2>2. CLTypeOK'
    BY <2>1 DEF CLInv, CLTypeOK
  <2> QED  BY <2>1, <2>2 DEF CLInv
<1>5. CASE common # Panic
  <2>1. /\ line' = common /\ cursor' = IF candidates(line) = <<>> THEN cursor ELSE Len(line')
        /\ menu' = IF items = <<>> THEN Closed ELSE OpenWith(items)
        /\ recall' = NoRecall /\ saved' = None /\ mode' = mode /\ history' = history /\ file' = file
    BY <1>2, <1>5, <1>6 DEF Completed
  <2>2. common \in Lines
    BY <1>3, <1>5
  <2>3. cursor' \in 0..Len(line')
    <3>1. CASE candidates(line) = <<>>
      <4>1. common = s
        BY <1>1, <1>2, <3>1, CompleteIs
      <4> QED  BY <1>1, <2>1, <3>1, <4>1 DEF CLInv, CLTypeOK
    <3>2. CASE candidates(line) # <<>>
      <4>1. PICK n \in Nat : n = Len(common)
        BY <2>2 DEF Lines
      <4> QED  BY <2>1, <3>2, <4>1
    <3> QED  BY <3>1, <3>2
  <2>4. menu' \in Menus /\ MenuFits(menu', line')
    <3>1. CASE items = <<>>
      BY <2>1, <3>1, ClosedFits
    <3>2. CASE items # <<>>
      <4>1. \A i \in DOMAIN items : GoesOn(common, items[i])
        BY <1>3, <1>5
      <4> QED  BY <1>3, <2>1, <3>2, <4>1, OpenedFits
    <3> QED  BY <3>1, <3>2
  <2>5. history' \in Seq(Lines) /\ Unrepeated(history') /\ file' \in Seq(Lines) /\ mode' \in {"Normal", "Command", "panicked"}
    BY <2>1 DEF CLInv, CLTypeOK
  <2>6. line' \in Lines
    BY <2>1, <2>2
  <2> QED  BY <2>1, <2>3, <2>4, <2>5, <2>6, EndWalk
<1> QED  BY <1>4, <1>5

(* Up: an older entry that starts with what was typed. *)
LEMMA PrevStep ==
  ASSUME CLInv, prev
  PROVE  CLInv'
<1>1. PICK n \in Nat : n = Len(history)
  BY DEF CLInv, CLTypeOK
<1>2. line \in Lines /\ history \in Seq(Lines) /\ recall \in 0..n /\ mode = "Command" /\ ~menu.open
  BY <1>1 DEF CLInv, CLTypeOK, prev, Editing
<1>3. recall # 0 => line = history[recall] /\ saved # None /\ IsPrefix(saved, line)
  BY <1>2 DEF CLInv, WalkFits, NoRecall
<1>4. PICK p, from : /\ p = IF recall = NoRecall THEN line ELSE saved
                     /\ from = IF recall = NoRecall THEN Len(history) + 1 ELSE recall
  OBVIOUS
<1>5. p \in Lines /\ p # None
  <2>1. line # None
    BY <1>2, NoMark DEF Lines
  <2> QED  BY <1>2, <1>3, <1>4, <2>1 DEF CLInv, CLTypeOK, NoRecall
<1>6. from - 1 \in 0..n
  BY <1>1, <1>2, <1>4 DEF NoRecall
<1>7. PICK S : S = {i \in 1..(from - 1) : IsPrefix(p, history[i])}
  OBVIOUS
<1>8. PICK at : at = Greatest(S, 0)
  OBVIOUS
<1>9. /\ saved' = p
      /\ IF at = 0 THEN line' = line /\ cursor' = cursor /\ recall' = recall
         ELSE line' = history[at] /\ cursor' = Len(history[at]) /\ recall' = at
      /\ mode' = mode /\ history' = history /\ menu' = menu /\ file' = file
  <2>1. Prefix = IF recall # NoRecall THEN saved ELSE line
    BY <1>3 DEF Prefix, NoRecall
  <2>2. p = IF recall = NoRecall THEN line ELSE Prefix
    BY <1>4, <2>1
  <2>3. at = Greatest({i \in 1..(from - 1) : IsPrefix(IF recall = NoRecall THEN line ELSE Prefix, history[i])}, 0)
    BY <1>7, <1>8, <2>2
  <2> QED  BY <1>4, <2>3, Zenon DEF prev
<1>10. at # 0 => at \in 1..n /\ IsPrefix(p, history[at])
  <2>1. S \in SUBSET (0..n)
    BY <1>6, <1>7
  <2>2. at # 0 => at \in S
    BY <1>8, <2>1, GreatestIs
  <2>3. \A i \in S : i \in 1..n
    BY <1>6, <1>7
  <2> QED  BY <1>7, <2>2, <2>3
<1>11. CASE at = 0
  <2>1. line' = line /\ cursor' = cursor /\ recall' = recall
    BY <1>9, <1>11
  <2>2. CLTypeOK'
    BY <1>5, <1>9, <2>1 DEF CLInv, CLTypeOK
  <2>3. WalkFits(history', recall', saved', line')
    <3>1. recall # 0 => p = saved
      BY <1>4 DEF NoRecall
    <3> QED  BY <1>3, <1>9, <2>1, <3>1 DEF WalkFits, NoRecall
  <2> QED  BY <1>9, <2>1, <2>2, <2>3 DEF CLInv
<1>12. CASE at # 0
  <2>1. PICK h \in Lines : h = history[at]
    BY <1>1, <1>2, <1>10, <1>12
  <2>2. line' = h /\ cursor' = Len(h) /\ recall' = at /\ saved' = p
    BY <1>9, <1>12, <2>1
  <2>3. Len(h) \in 0..Len(h)
    BY DEF Lines
  <2>4. CLTypeOK'
    <3>1. recall' \in 0..n
      BY <1>10, <1>12, <2>2
    <3> QED  BY <1>1, <1>5, <1>9, <2>2, <2>3, <3>1 DEF CLInv, CLTypeOK
  <2>5. WalkFits(history', recall', saved', line')
    BY <1>5, <1>9, <1>10, <1>12, <2>1, <2>2 DEF WalkFits
  <2>6. MenuFits(menu', line')
    BY <1>2, <1>9 DEF MenuFits
  <2> QED  BY <1>9, <2>4, <2>5, <2>6 DEF CLInv
<1> QED  BY <1>11, <1>12

(* Down: a newer entry, or in the end what was typed. *)
LEMMA NextStep ==
  ASSUME CLInv, next
  PROVE  CLInv'
<1>1. PICK n \in Nat : n = Len(history)
  BY DEF CLInv, CLTypeOK
<1>2. history \in Seq(Lines) /\ recall \in 1..n /\ mode = "Command" /\ ~menu.open
  BY <1>1 DEF CLInv, CLTypeOK, next, Editing, NoRecall
<1>3. saved # None /\ saved \in Lines
  BY <1>2 DEF CLInv, WalkFits, NoRecall, CLTypeOK
<1>4. PICK p \in Lines : p = saved /\ p = Prefix
  BY <1>2, <1>3 DEF Prefix, NoRecall
<1>5. PICK S : S = {i \in (recall + 1)..Len(history) : IsPrefix(Prefix, history[i])}
  OBVIOUS
<1>6. PICK at : at = Least(S, 0)
  OBVIOUS
<1>7. /\ IF at # 0 THEN line' = history[at] /\ recall' = at /\ saved' = saved
         ELSE line' = saved /\ recall' = NoRecall /\ saved' = None
      /\ cursor' = Len(line') /\ mode' = mode /\ history' = history /\ menu' = menu /\ file' = file
  BY <1>5, <1>6, Zenon DEF next
<1>8. MenuFits(menu', line')
  BY <1>2, <1>7 DEF MenuFits
<1>9. at # 0 => at \in 1..n /\ IsPrefix(p, history[at])
  <2>1. \A i \in S : i \in 1..n /\ i \in 0..n
    BY <1>1, <1>2, <1>5
  <2>2. at # 0 => at \in S
    BY <1>6, <2>1, LeastIs
  <2> QED  BY <1>4, <1>5, <2>1, <2>2
<1>10. line' \in Lines
  <2>1. CASE at # 0
    BY <1>1, <1>2, <1>7, <1>9, <2>1
  <2>2. CASE at = 0
    BY <1>3, <1>7, <2>2
  <2> QED  BY <2>1, <2>2
<1>11. cursor' \in 0..Len(line')
  <2>1. PICK m \in Nat : m = Len(line')
    BY <1>10 DEF Lines
  <2> QED  BY <1>7, <2>1
<1>12. CASE at # 0
  <2>1. CLTypeOK'
    <3>1. recall' \in 0..n
      BY <1>7, <1>9, <1>12
    <3> QED  BY <1>1, <1>7, <1>10, <1>11, <1>12, <3>1 DEF CLInv, CLTypeOK
  <2>2. WalkFits(history', recall', saved', line')
    BY <1>3, <1>4, <1>7, <1>9, <1>12 DEF WalkFits
  <2> QED  BY <1>7, <1>8, <2>1, <2>2 DEF CLInv
<1>13. CASE at = 0
  <2>1. recall' = NoRecall /\ saved' = None
    BY <1>7, <1>13
  <2>2. menu' \in Menus /\ history' \in Seq(Lines) /\ Unrepeated(history') /\ file' \in Seq(Lines)
        /\ mode' \in {"Normal", "Command", "panicked"}
    BY <1>7 DEF CLInv, CLTypeOK, Menus
  <2> QED  BY <1>8, <1>10, <1>11, <2>1, <2>2, EndWalk
<1> QED  BY <1>12, <1>13

(* Entering a line keeps the history free of repetitions. *)
LEMMA SubmittedIs ==
  ASSUME CLInv
  PROVE  submitted(line) \in Seq(Lines) /\ Unrepeated(submitted(line))
<1>1. PICK h : h = history
  OBVIOUS
<1>2. h \in Seq(Seq(Chars)) /\ Unrepeated(h)
  BY <1>1 DEF CLInv, CLTypeOK, Lines
<1>3. PICK t \in Seq(Chars) : t = Trim(line)
  BY TrimIs DEF CLInv, CLTypeOK, Lines
<1>4. PICK g : g = Append(h, t)
  OBVIOUS
<1>5. submitted(line) = IF t = <<>> \/ (h # <<>> /\ Last(h) = t) THEN h ELSE IF Len(g) > CAP THEN Tail(g) ELSE g
  BY <1>1, <1>3, <1>4 DEF submitted
<1>6. CASE t = <<>> \/ (h # <<>> /\ Last(h) = t)
  BY <1>2, <1>5, <1>6 DEF Lines
<1>7. CASE ~(t = <<>> \/ (h # <<>> /\ Last(h) = t))
  <2>1. g \in Seq(Seq(Chars)) /\ Unrepeated(g)
    BY <1>2, <1>4, <1>7, UnrepeatedAppend
  <2>2. Tail(g) \in Seq(Seq(Chars)) /\ Unrepeated(Tail(g))
    <3>1. SubSeq(g, 2, Len(g)) \in Seq(Seq(Chars)) /\ Unrepeated(SubSeq(g, 2, Len(g)))
      BY <2>1, UnrepeatedTail
    <3>2. g # <<>>
      BY <1>2, <1>4, AppendProperties
    <3>3. Tail(g) = SubSeq(g, 2, Len(g))
      BY <2>1, <3>2, TailIsSubSeq
    <3> QED  BY <3>1, <3>3
  <2> QED  BY <1>5, <1>7, <2>1, <2>2 DEF Lines
<1> QED  BY <1>6, <1>7

(* Enter, Esc and a new process. *)
LEMMA LeaveStep ==
  ASSUME CLInv, Execute \/ Esc \/ Restart
  PROVE  CLInv'
<1>1. history \in Seq(Lines) /\ Unrepeated(history) /\ file \in Seq(Lines)
  BY DEF CLInv, CLTypeOK
<1>2. ASSUME mode' = "Normal", line' = <<>>, cursor' = 0, menu' = Closed, recall' = NoRecall, saved' = None,
             history' \in Seq(Lines), Unrepeated(history'), file' \in Seq(Lines)
      PROVE  CLInv'
  <2>1. line' \in Lines /\ cursor' \in 0..Len(line')
    BY <1>2, EmptyLine
  <2>2. menu' \in Menus /\ MenuFits(menu', line') /\ mode' \in {"Normal", "Command", "panicked"}
    BY <1>2, ClosedFits
  <2> QED  BY <1>2, <2>1, <2>2, EndWalk
<1>3. CASE Execute
  <2>1. history' = submitted(line) /\ file' \in {file, history'}
    BY <1>3 DEF Execute
  <2>2. history' \in Seq(Lines) /\ Unrepeated(history')
    BY <2>1, SubmittedIs
  <2>3. file' \in Seq(Lines)
    BY <1>1, <2>1, <2>2
  <2> QED  BY <1>2, <1>3, <2>2, <2>3 DEF Execute
<1>4. CASE Restart
  <2>1. load_from(file) \in Seq(Lines) /\ Unrepeated(load_from(file))
    BY <1>1, LoadIs DEF Lines
  <2> QED  BY <1>1, <1>2, <1>4, <2>1 DEF Restart
<1>5. CASE Esc
  <2>1. history' = history /\ recall' = recall /\ saved' = saved /\ file' = file /\ menu' = Closed
    BY <1>5 DEF Esc
  <2>2. Closed \in Menus /\ \A l : MenuFits(Closed, l)
    BY ClosedFits
  <2>3. CASE menu.open
    <3>1. mode' = mode /\ line' = line /\ cursor' = cursor
      BY <1>5, <2>3 DEF Esc
    <3>2. CLTypeOK'
      BY <2>1, <2>2, <3>1 DEF CLInv, CLTypeOK, Menus
    <3> QED  BY <2>1, <2>2, <3>1, <3>2 DEF CLInv
  <2>4. CASE ~menu.open
    <3>1. mode' = "Normal" /\ line' = <<>> /\ cursor' = 0
      BY <1>5, <2>4 DEF Esc
    <3>2. CLTypeOK'
      BY <2>1, <2>2, <3>1, EmptyLine DEF CLInv, CLTypeOK, Menus
    <3> QED  BY <2>1, <2>2, <3>1, <3>2 DEF CLInv
  <2> QED  BY <2>3, <2>4
<1> QED  BY <1>3, <1>4, <1>5

(* The first state. *)
LEMMA CLInitInv == CLInit => CLInv
<1> SUFFICES ASSUME CLInit PROVE CLInv
  OBVIOUS
<1>1. line = <<>> /\ cursor = 0 /\ mode = "Normal" /\ menu = Closed /\ history = <<>> /\ recall = 0 /\ saved = None
      /\ file = <<>>
  BY DEF CLInit, NoRecall
<1>2. <<>> \in Seq(Lines) /\ Len(<<>>) = 0 /\ 0 \in 0..0 /\ Unrepeated(<<>>)
  BY DEF Unrepeated
<1>3. CLTypeOK
  BY <1>1, <1>2, EmptyLine, ClosedFits DEF CLTypeOK, Menus
<1> QED  BY <1>1, <1>2, <1>3, ClosedFits DEF CLInv

(* CLInv is inductive. *)
LEMMA CLStepInv == CLInv /\ [CLNext]_clvars => CLInv'
<1> SUFFICES ASSUME CLInv, [CLNext]_clvars PROVE CLInv'
  OBVIOUS
<1>1. CASE UNCHANGED clvars
  <2>1. line' = line /\ cursor' = cursor /\ mode' = mode /\ history' = history /\ recall' = recall
        /\ saved' = saved /\ menu' = menu /\ file' = file
    BY <1>1 DEF clvars
  <2>2. CLTypeOK'
    BY <2>1 DEF CLInv, CLTypeOK
  <2> QED  BY <2>1, <2>2 DEF CLInv
<1>2. CASE CLNext
  BY <1>2, EnterStep, EditStep, MoveStep, MenuStep, AcceptStep, TabStep, PrevStep, NextStep, LeaveStep DEF CLNext
<1> QED  BY <1>1, <1>2

(* The invariant of every behaviour. *)
LEMMA CLInvAlways == CLSpec => []CLInv
BY CLInitInv, CLStepInv, PTL DEF CLSpec

(* After every key the choices of the menu go on from the line as it is     *)
(* now, Up and Down show entries that start with what was typed, and no     *)
(* line is in the history twice in a row: for all command words, rules,     *)
(* lists of candidates, directories (any names, with blanks too), home      *)
(* directories, letters and sizes of the menu and of the history.           *)
THEOREM LineSoundTheorem == CLSpec => []LineSound
BY CLInvAlways, InvIsSound, PTL

(* Where the candidates are ASCII, Tab does not panic (complete,            *)
(* common_prefix) and the line it leaves goes on from the line it found, as *)
(* typed, with one blank between the words or with its "~" replaced by the  *)
(* home directory.                                                          *)
THEOREM CompletionKeepsTypedTheorem == CLSpec => CompletionKeepsTyped
<1>1. ASSUME CLInv, TabKey, AllAscii(candidates(line))
      PROVE  mode' = "Command" /\ GoesOn(line, line')
  <2>1. PICK s \in Lines : s = line
    BY <1>1 DEF CLInv, CLTypeOK
  <2>2. PICK c : c = complete(s)
    OBVIOUS
  <2>3. c.common # Panic /\ GoesOn(s, c.common)
    BY <1>1, <2>1, <2>2, CompleteIs
  <2>4. Completed(c) /\ mode = "Command"
    BY <1>1, <2>1, <2>2 DEF TabKey, Editing
  <2>5. line' = c.common /\ mode' = mode
    BY <2>3, <2>4 DEF Completed
  <2> QED  BY <2>1, <2>3, <2>4, <2>5
<1>2. CLInv => [TabKey /\ AllAscii(candidates(line)) => mode' = "Command" /\ GoesOn(line, line')]_clvars
  BY <1>1
<1> QED  BY <1>2, CLInvAlways, PTL DEF CompletionKeepsTyped
=============================================================================
