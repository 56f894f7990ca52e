------------------------------ MODULE MCFirmware ------------------------------
(* Two questions about images in one run: edits of the tree, and streams    *)
(* of the Tiano decoder. The streams are written here by a reference        *)
(* encoder: canonical codes from their lengths, no tables and no trees.     *)
EXTENDS MCFfsEdit, TianoDecoder, TLC

VARIABLE part

BitsOf(v, n) == [k \in 1..n |-> Bit(v, n - k)]

(* Lengths of a code, by symbol: those listed, zero for the others. *)
LensOf(n, f) == [c \in 0..(n - 1) |-> IF c \in DOMAIN f THEN f[c] ELSE 0]
Ahead(lens, c) == {b \in DOMAIN lens : lens[b] # 0 /\ (lens[b] < lens[c] \/ (lens[b] = lens[c] /\ b < c))}
CodeOf(lens, c) == BitsOf(FoldSet(LAMBDA b, x : x + Pow(CodeBits - lens[b]), 0, Ahead(lens, c)) \div Pow(CodeBits - lens[c]), lens[c])
Used(lens) == 1 + FoldSet(LAMBDA c, x : IF lens[c] # 0 /\ c > x THEN c ELSE x, 0, DOMAIN lens)

(* A code [lens, only]: if only is a symbol there is no other, and no bits. *)
CodeBitsOf(code, c) == IF code.only >= 0 THEN <<>> ELSE CodeOf(code.lens, c)
Lengths(code, nbit, special) ==
  LET n     == Used(code.lens)
      zeros == IF special >= n THEN 0 ELSE CHOOSE z \in 0..3 : (\A k \in 1..z : code.lens[special + k - 1] = 0) /\ (z = 3 \/ code.lens[special + z] # 0)
      LengthBits(c) == (IF code.lens[c] < 7 THEN BitsOf(code.lens[c], 3) ELSE BitsOf(7, 3) \o [k \in 1..(code.lens[c] - 7) |-> 1] \o <<0>>)
                \o (IF c + 1 = special THEN BitsOf(zeros, 2) ELSE <<>>)
  IN  IF code.only >= 0 THEN BitsOf(0, nbit) \o BitsOf(code.only, nbit)
      ELSE BitsOf(n, nbit) \o FlattenSeq([k \in 1..n |-> IF k > special /\ k <= special + zeros THEN <<>> ELSE LengthBits(k - 1)])

RECURSIVE CharLengths(_, _, _)
CharLengths(lens, t, i) ==
  LET run == CHOOSE z \in 1..NC : (\A k \in 0..(z - 1) : lens[i + k] = 0) /\ lens[i + z] # 0
  IN  IF i >= Used(lens) THEN <<>>
      ELSE IF lens[i] # 0 THEN CodeBitsOf(t, lens[i] + 2) \o CharLengths(lens, t, i + 1)
      ELSE IF run >= LongRun /\ t.lens[2] # 0 THEN CodeBitsOf(t, 2) \o BitsOf(run - LongRun, CBIT) \o CharLengths(lens, t, i + run)
      ELSE IF run \in 3..(LongRun - 1) /\ t.lens[1] # 0 THEN CodeBitsOf(t, 1) \o BitsOf(run - 3, RunBits) \o CharLengths(lens, t, i + run)
      ELSE CodeBitsOf(t, 0) \o CharLengths(lens, t, i + 1)

(* A token: a character, or a match [n, dist]. *)
Char(c) == [n |-> 1, c |-> c, dist |-> 0]
Match(n, dist) == [n |-> n, c |-> Lits - THRESHOLD + n, dist |-> dist]
Log(x) == CHOOSE k \in 0..NP : Pow(k) <= x /\ x < Pow(k + 1)
Distance(code, p) == IF p <= 1 THEN CodeBitsOf(code, p) ELSE CodeBitsOf(code, Log(p) + 1) \o BitsOf(p - Pow(Log(p)), Log(p))
TokenBits(codes, tok) == CodeBitsOf(codes.c, tok.c) \o (IF tok.n > 1 THEN Distance(codes.p, tok.dist) ELSE <<>>)

Block(codes, toks) ==
  BitsOf(Len(toks), BlockBits) \o Lengths(codes.t, TBIT, 3)
  \o (IF codes.c.only >= 0 THEN BitsOf(0, CBIT) \o BitsOf(codes.c.only, CBIT)
      ELSE BitsOf(Used(codes.c.lens), CBIT) \o CharLengths(codes.c.lens, codes.t, 0))
  \o Lengths(codes.p, PBIT, NPT + 1)
  \o FlattenSeq([i \in DOMAIN toks |-> TokenBits(codes, toks[i])])

TextOf(toks) ==
  FoldLeft(LAMBDA t, tok : IF tok.n = 1 THEN Append(t, tok.c)
                           ELSE FoldLeft(LAMBDA u, k : Append(u, u[Len(u) - tok.dist]), t, [k \in 1..tok.n |-> k]),
           <<>>, toks)

(***************************************************************************)
(* The streams: codes shorter and longer than the looked up bits, alone or *)
(* behind a block with other codes, single symbols, runs of zeros of both  *)
(* kinds, matches that reach themselves.                                   *)
(***************************************************************************)
Code(n, f) == [lens |-> LensOf(n, f), only |-> -1]
Only(n, c) == [lens |-> LensOf(n, <<>>), only |-> c]
T1 == Code(NT, (0 :> 2) @@ (1 :> 2) @@ (2 :> 3) @@ (3 :> 3) @@ (4 :> 3) @@ (5 :> 4) @@ (6 :> 4))
T2 == Code(NT, (0 :> 1) @@ (4 :> 2) @@ (5 :> 3) @@ (6 :> 3))
Perms(S, shape) == {f \in [S -> {shape[i] : i \in DOMAIN shape}] : \A l \in Range(shape) :
                      Cardinality({x \in S : f[x] = l}) = Cardinality({i \in DOMAIN shape : shape[i] = l})}
CCodes == {Code(NC, f) : f \in Perms({0, 1, 6, 7}, <<1, 2, 3, 3>>) \cup Perms({0, 6, 7, 8}, <<2, 2, 2, 2>>)
                              \cup Perms({0, 1, 6, 8, 9}, <<1, 2, 3, 4, 4>>)}
PCodes == {Code(NP, f) : f \in Perms({0, 1, 2}, <<1, 2, 2>>)} \cup {Only(NP, 0), Only(NP, 2)}
Codes == {[t |-> t, c |-> c, p |-> p] : t \in {T1, T2}, c \in CCodes, p \in PCodes}
         \cup {[t |-> Only(NT, 0), c |-> Only(NC, 1), p |-> Only(NP, 0)]}
Encodes(code, c) == code.only = c \/ (code.only < 0 /\ code.lens[c] # 0)
Written(codes, toks) ==
  /\ codes.c.only < 0 => \A c \in DOMAIN codes.c.lens : codes.c.lens[c] # 0 => Encodes(codes.t, codes.c.lens[c] + 2)
  /\ \A i \in DOMAIN toks : Encodes(codes.c, toks[i].c)
  /\ \A i \in DOMAIN toks : toks[i].n > 1 => Encodes(codes.p, IF toks[i].dist <= 1 THEN toks[i].dist ELSE Log(toks[i].dist) + 1)
Texts == {<<Char(0)>>, <<Char(1), Char(1)>>, <<Char(0), Match(3, 0)>>, <<Char(0), Char(1), Match(4, 1)>>,
          <<Char(1), Match(3, 0), Match(6, 3)>>, <<Char(0), Match(5, 0), Match(3, 2)>>}
Streams == {x \in Codes \X Texts : Written(x[1], x[2])}

(* Two blocks: the second behind one with a few other codes. Damaged: one   *)
(* bit changed, or cut off.                                                 *)
Behind2 == {x \in Streams : Len(x[2]) = 3 /\ x[1].t = T1 /\ x[1].p.only < 0 /\ x[1].p.lens[0] # 1}
Front2 == {x \in Streams : x[2] = <<Char(0), Char(1), Match(4, 1)>> /\ x[1].c.lens[0] = 3 /\ x[1].p.only < 0 /\ x[1].p.lens[0] = 1}
Damaged == Front2 \cup {x \in Streams : x[2] = <<Char(0), Match(3, 0)>> /\ x[1].t = T2 /\ x[1].p.only = 0}

Decoding ==
  \/ \E x \in Streams : text = TextOf(x[2]) /\ Decompress(Block(x[1], x[2]), Len(text))
  \/ \E x \in Front2, y \in Behind2 :
       text = TextOf(x[2] \o y[2]) /\ Decompress(Block(x[1], x[2]) \o Block(y[1], y[2]), Len(text))
  \/ \E x \in Damaged : LET b == Block(x[1], x[2]) IN \E i \in DOMAIN b, n \in {2, 8} :
       text = <<>> /\ (Decompress([b EXCEPT ![i] = 1 - @], n) \/ Decompress(SubSeq(b, 1, i), n))

MCInit ==
  \/ part = "tree" /\ Init /\ disk \notin HiiImages /\ text = <<>> /\ Decompress(<<>>, 0)
  \/ part = "hii" /\ Init /\ disk \in HiiImages /\ text = <<>> /\ Decompress(<<>>, 0)
  \/ part = "stream" /\ Init /\ disk = Blank /\ Decoding

MCNext ==
  /\ \/ part = "tree" /\ Next /\ UNCHANGED tdvars
     \/ part = "hii" /\ Next /\ edits' <= 1 /\ UNCHANGED tdvars
     \/ part = "stream" /\ DecodeStep /\ UNCHANGED vars
  /\ UNCHANGED part

MCSpec == MCInit /\ [][MCNext]_<<vars, tdvars, part>>
=============================================================================
