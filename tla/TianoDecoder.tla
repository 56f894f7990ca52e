---------------------------- MODULE TianoDecoder ----------------------------
(* The decoder of EFI 1.1 and Tiano compressed sections (tiano.rs): LZ77    *)
(* over Huffman codes whose lengths are sent in front of every block. A      *)
(* code is decoded with a table of its first bits and, for longer codes,     *)
(* with a tree below an entry; both trees share two node arrays. Sizes are   *)
(* constants with the relations of the code's: a stream is a sequence of     *)
(* bits and is read as zeros behind its end (fill_buf, get_bits).            *)
EXTENDS Integers, Sequences, SequencesExt, FiniteSets

CONSTANTS
  CodeBits,            \* 16: longest code
  BufBits,             \* 32: bits a tree is walked by
  Lits, NC,            \* 256, 510: literals, literals and match lengths
  NT, NP,              \* 19, 31: symbols of the length code and of the position code
  CTable, PTable,      \* 12, 8: bits looked up at once
  CBIT, TBIT, PBIT, BlockBits, RunBits, LongRun, THRESHOLD

(* A complete code has a symbol that is not longer than the looked up bits: *)
(* make_table clears the table only if there is one (19, 31 < 2 * 256;      *)
(* 510 < 2 * 4096).                                                         *)
ASSUME TableAssumption == NT < 2 ^ (PTable + 1) /\ NP < 2 ^ (PTable + 1) /\ NC < 2 ^ (CTable + 1)

NODES == 2 * NC - 1
NPT == IF NT > NP THEN NT ELSE NP

Pow(n) == 2 ^ n
Bit(x, k) == (x \div Pow(k)) % 2

(* A decoder [bits, pos, block, left, right, clen, ptlen, ctab, pttab]. A    *)
(* result is [st, v, d]; st "panic": an index outside its array.             *)
Good(v, d) == [st |-> "ok", v |-> v, d |-> d]
Bad(d) == [st |-> "corrupted", v |-> 0, d |-> d]
PanicAt(d) == [st |-> "panic", v |-> 0, d |-> d]

BitAt(d, i) == IF i <= Len(d.bits) THEN d.bits[i] ELSE 0
Peek(d, n) == FoldLeft(LAMBDA x, k : 2 * x + BitAt(d, d.pos + k), 0, [k \in 1..n |-> k])
fill_buf(d, n) == [d EXCEPT !.pos = @ + n]
get_bits(d, n) == Good(Peek(d, n), fill_buf(d, n))

(***************************************************************************)
(* make_table                                                              *)
(***************************************************************************)
(* t: [tab, left, right, avail]; a slot is an entry of one of the arrays. *)
slot_get(t, s) == IF s.k = "tab" THEN t.tab[s.i] ELSE IF s.k = "left" THEN t.left[s.i] ELSE t.right[s.i]
slot_set(t, s, v) == IF s.k = "tab" THEN [t EXCEPT !.tab[s.i] = v]
                     ELSE IF s.k = "left" THEN [t EXCEPT !.left[s.i] = v] ELSE [t EXCEPT !.right[s.i] = v]

(* One bit down: an empty slot gets a new node while there are nodes. *)
Down(w, right) ==
  LET t   == IF slot_get(w.t, w.slot) = 0 /\ w.t.avail < NODES
             THEN [slot_set([w.t EXCEPT !.left[w.t.avail] = 0, !.right[w.t.avail] = 0], w.slot, w.t.avail) EXCEPT !.avail = @ + 1]
             ELSE w.t
      cur == slot_get(t, w.slot)
  IN  [t |-> t, slot |-> IF cur < NODES THEN [k |-> IF right THEN "right" ELSE "left", i |-> cur] ELSE w.slot]

(* The first codes of each length; a code that is not complete is refused.  *)
(* Sums are kept in CodeBits bits.                                          *)
FirstCode(lens, l) ==
  FoldLeft(LAMBDA x, k : (x + Cardinality({c \in DOMAIN lens : lens[c] = k}) * Pow(CodeBits - k)) % Pow(CodeBits),
           0, [k \in 1..(l - 1) |-> k])

(* Mutant: the way down the tree starts one bit too early. *)
PlaceChar_early(t, lens, c, bits) ==
  LET l     == lens[c]
      rank  == Cardinality({b \in DOMAIN lens : b < c /\ lens[b] = l})
      start == FirstCode(lens, l) \div Pow(CodeBits - bits) + rank * Pow(bits - l)
      code  == (FirstCode(lens, l) + rank * Pow(CodeBits - l)) % Pow(CodeBits)
      leaf  == FoldLeft(LAMBDA w, k : Down(w, Bit(code, CodeBits - bits - k + 1) = 1),
                        [t |-> t, slot |-> [k |-> "tab", i |-> code \div Pow(CodeBits - bits)]],
                        [k \in 1..(l - bits) |-> k])
  IN  IF l <= bits
      THEN IF start + Pow(bits - l) > Pow(bits) THEN [t EXCEPT !.ok = FALSE]
           ELSE [t EXCEPT !.tab = [i \in DOMAIN @ |-> IF start <= i /\ i < start + Pow(bits - l) THEN c ELSE @[i]]]
      ELSE slot_set(leaf.t, leaf.slot, c)

(* A short code fills its entries, a long one ends in the tree. *)
PlaceChar(t, lens, c, bits) ==
  LET l     == lens[c]
      rank  == Cardinality({b \in DOMAIN lens : b < c /\ lens[b] = l})
      start == FirstCode(lens, l) \div Pow(CodeBits - bits) + rank * Pow(bits - l)
      code  == (FirstCode(lens, l) + rank * Pow(CodeBits - l)) % Pow(CodeBits)
      leaf  == FoldLeft(LAMBDA w, k : Down(w, Bit(code, CodeBits - bits - k) = 1),
                        [t |-> t, slot |-> [k |-> "tab", i |-> code \div Pow(CodeBits - bits)]],
                        [k \in 1..(l - bits) |-> k])
  IN  IF l <= bits
      THEN IF start + Pow(bits - l) > Pow(bits) THEN [t EXCEPT !.ok = FALSE]
           ELSE [t EXCEPT !.tab = [i \in DOMAIN @ |-> IF start <= i /\ i < start + Pow(bits - l) THEN c ELSE @[i]]]
      ELSE slot_set(leaf.t, leaf.slot, c)

make_table(tab, lens, bits, left, right) ==
  LET zero  == FirstCode(lens, bits + 1) \div Pow(CodeBits - bits)
      clear == [i \in DOMAIN tab |-> IF zero # 0 /\ i >= zero THEN 0 ELSE tab[i]]
      t0    == [ok |-> TRUE, tab |-> clear, left |-> left, right |-> right, avail |-> Cardinality(DOMAIN lens)]
  IN  IF (\E c \in DOMAIN lens : lens[c] > CodeBits) \/ FirstCode(lens, CodeBits + 1) # 0 THEN [t0 EXCEPT !.ok = FALSE]
      ELSE FoldLeft(LAMBDA t, c : IF ~t.ok \/ lens[c - 1] = 0 THEN t ELSE PlaceChar(t, lens, c - 1, bits),
                    t0, [c \in 1..Cardinality(DOMAIN lens) |-> c])

(***************************************************************************)
(* One symbol: the table, then the tree until a value below limit.         *)
(***************************************************************************)
Walk(d, tab, bits, limit) ==
  LET Go(w, k) == IF w.st # "go" THEN w
                  ELSE IF w.v >= NODES THEN [w EXCEPT !.st = "panic"]
                  ELSE LET v == IF BitAt(d, d.pos + bits + k) = 1 THEN d.right[w.v] ELSE d.left[w.v]
                       IN  [v |-> v, st |-> IF v < limit THEN "ok" ELSE IF k = BufBits - bits THEN "corrupted" ELSE "go"]
      first == tab[Peek(d, bits)]
  IN  FoldLeft(Go, [v |-> first, st |-> IF first < limit THEN "ok" ELSE "go"], [k \in 1..(BufBits - bits) |-> k])

Symbol(d, tab, bits, limit, lens) ==
  LET w == Walk(d, tab, bits, limit)
  IN  [st |-> w.st, v |-> w.v, d |-> IF w.st = "ok" THEN fill_buf(d, lens[w.v]) ELSE d]

(***************************************************************************)
(* The lengths in front of a block.                                        *)
(***************************************************************************)
(* A length is three bits; seven and more continue in ones. *)
Unary(d) ==
  LET v == Peek(d, 3)
      ones == CHOOSE n \in 0..(Len(d.bits) + 1) : BitAt(d, d.pos + 3 + n + 1) = 0 /\ \A k \in 1..n : BitAt(d, d.pos + 3 + k) = 1
  IN  IF v < 7 THEN Good(v, fill_buf(d, 3)) ELSE Good(7 + ones, fill_buf(d, 4 + ones))

(* Behind the length number `special` two bits say how many zeros follow. *)
RECURSIVE PtLens(_, _, _, _)
PtLens(d, lens, number, special) ==
  IF Len(lens) >= number \/ Len(lens) >= NPT THEN [d |-> d, lens |-> lens]
  ELSE LET u    == Unary(d)
           more == Append(lens, u.v)
           z    == get_bits(u.d, 2)
       IN  IF Len(more) = special
           THEN PtLens(z.d, SubSeq(more \o [k \in 1..z.v |-> 0], 1, IF Len(more) + z.v > NPT THEN NPT ELSE Len(more) + z.v), number, special)
           ELSE PtLens(u.d, more, number, special)

(* The lengths read, with the tables they make: d is left as it was if they make none. *)
PtCode(d, lens, t) ==
  IF ~t.ok THEN Bad(d) ELSE Good(0, [d EXCEPT !.ptlen = lens, !.pttab = t.tab, !.left = t.left, !.right = t.right])
PtTable(d, lens, nn) == PtCode(d, lens, make_table(d.pttab, [c \in 0..(nn - 1) |-> lens[c]], PTable, d.left, d.right))
PtRead(r, nn) ==
  PtTable(r.d, [c \in 0..(NPT - 1) |-> IF c < Len(r.lens) THEN r.lens[c + 1] ELSE IF c < nn THEN 0 ELSE r.d.ptlen[c]], nn)

read_pt_len(d, nn, nbit, special) ==
  LET n    == get_bits(d, nbit)
      one  == get_bits(n.d, nbit)
  IN  IF n.v > NPT THEN Bad(d)
      ELSE IF n.v = 0
      THEN Good(0, [one.d EXCEPT !.pttab = [i \in DOMAIN @ |-> one.v], !.ptlen = [c \in DOMAIN @ |-> IF c < nn THEN 0 ELSE @[c]]])
      ELSE PtRead(PtLens(n.d, <<>>, n.v, special), nn)

(* Zeros come alone or in runs of two kinds. *)
RECURSIVE CLens(_, _, _)
Zeros(s) == IF s.v = 0 THEN Good(1, s.d) ELSE IF s.v = 1 THEN [get_bits(s.d, RunBits) EXCEPT !.v = @ + 3]
            ELSE [get_bits(s.d, CBIT) EXCEPT !.v = @ + LongRun]
CLensRun(run, lens, number) ==
  CLens(run.d, lens \o [k \in 1..((IF Len(lens) + run.v > NC THEN NC ELSE Len(lens) + run.v) - Len(lens)) |-> 0], number)
CLensSymbol(s, d, lens, number) ==
  IF s.st # "ok" THEN [st |-> s.st, d |-> d, lens |-> lens]
  ELSE IF s.v <= 2 THEN CLensRun(Zeros(s), lens, number)
  ELSE CLens(s.d, Append(lens, s.v - 2), number)
CLens(d, lens, number) ==
  IF Len(lens) >= number \/ Len(lens) >= NC THEN [st |-> "ok", d |-> d, lens |-> lens]
  ELSE CLensSymbol(Symbol(d, d.pttab, PTable, NT, d.ptlen), d, lens, number)

CCode(d, lens, t) ==
  IF ~t.ok THEN Bad(d) ELSE Good(0, [d EXCEPT !.clen = lens, !.ctab = t.tab, !.left = t.left, !.right = t.right])
CTableOf(d, lens) == CCode(d, lens, make_table(d.ctab, lens, CTable, d.left, d.right))
CRead(r, d) ==
  IF r.st # "ok" THEN [st |-> r.st, v |-> 0, d |-> d]
  ELSE CTableOf(r.d, [c \in 0..(NC - 1) |-> IF c < Len(r.lens) THEN r.lens[c + 1] ELSE 0])

read_clen(d) ==
  LET n    == get_bits(d, CBIT)
      one  == get_bits(n.d, CBIT)
  IN  IF n.v = 0 THEN Good(0, [one.d EXCEPT !.clen = [c \in DOMAIN @ |-> 0], !.ctab = [i \in DOMAIN @ |-> one.v]])
      ELSE CRead(CLens(n.d, <<>>, n.v), d)

Then(r, f(_)) == IF r.st = "ok" THEN f(r.d) ELSE r

ReadHeader(d) ==
  LET b == get_bits(d, BlockBits)
  IN  [Then(Then(read_pt_len(b.d, NT, TBIT, 3), read_clen), LAMBDA x : read_pt_len(x, NP, PBIT, NPT + 1))
         EXCEPT !.d.block = b.v]

decode_c(d) ==
  Then(IF d.block = 0 THEN ReadHeader(d) ELSE Good(0, d),
       LAMBDA x : Symbol([x EXCEPT !.block = (@ - 1) % Pow(BlockBits)], x.ctab, CTable, NC, x.clen))

decode_p(d) ==
  LET s == Symbol(d, d.pttab, PTable, NP, d.ptlen)
      e == get_bits(s.d, s.v - 1)
  IN  IF s.st = "ok" /\ s.v > 1 THEN Good(Pow(s.v - 1) + e.v, e.d) ELSE s

(***************************************************************************)
(* decode and decompress: one symbol of the output per step.               *)
(***************************************************************************)
VARIABLES dec, out, size, state, text

tdvars == <<dec, out, size, state, text>>

Fresh(bits) ==
  [bits |-> bits, pos |-> 0, block |-> 0, left |-> [i \in 0..(NODES - 1) |-> 0], right |-> [i \in 0..(NODES - 1) |-> 0],
   clen |-> [c \in 0..(NC - 1) |-> 0], ptlen |-> [c \in 0..(NPT - 1) |-> 0],
   ctab |-> [i \in 0..(Pow(CTable) - 1) |-> 0], pttab |-> [i \in 0..(Pow(PTable) - 1) |-> 0]]

(* An empty text is not decoded at all. *)
Decompress(bits, n) ==
  /\ dec = Fresh(bits) /\ out = <<>> /\ size = n
  /\ state = IF n = 0 THEN "done" ELSE "decoding"

(* n characters from an earlier place on; the unsigned difference is large  *)
(* if it is in front of the output. What is not written yet reads as zero.  *)
Copied(o, n, from, want) ==
  FoldLeft(LAMBDA r, k : IF r.st # "ok" \/ Len(r.out) >= want THEN r
                         ELSE IF from + k < 0 \/ from + k >= want THEN [r EXCEPT !.st = "corrupted"]
                         ELSE [r EXCEPT !.out = Append(@, IF from + k < Len(r.out) THEN r.out[from + k + 1] ELSE 0)],
           [st |-> "ok", out |-> o], [k \in 1..n |-> k - 1])

DecodeStep ==
  /\ state = "decoding"
  /\ \E c \in {decode_c(dec)} :
       \/ /\ c.st # "ok" /\ state' = c.st /\ UNCHANGED <<dec, out>>
       \/ /\ c.st = "ok" /\ c.v < Lits
          /\ IF Len(out) >= size THEN state' = "done" /\ UNCHANGED <<dec, out>>
             ELSE dec' = c.d /\ out' = Append(out, c.v) /\ UNCHANGED state
       \/ /\ c.st = "ok" /\ c.v >= Lits
          /\ \E p \in {decode_p(c.d)} :
               IF p.st # "ok" THEN state' = p.st /\ UNCHANGED <<dec, out>>
               ELSE \E m \in {Copied(out, c.v - (Lits - THRESHOLD), Len(out) - p.v - 1, size)} :
                      /\ dec' = p.d /\ out' = m.out
                      /\ state' = IF m.st # "ok" THEN m.st ELSE IF Len(m.out) >= size THEN "done" ELSE "decoding"
  /\ UNCHANGED <<size, text>>

(***************************************************************************)
(* Properties.                                                             *)
(***************************************************************************)
(* What a stream was written for comes out of it, for every complete code, *)
(* every way its lengths are sent, and across blocks; text is empty for a   *)
(* stream that is damaged.                                                  *)
DecodesText == text # <<>> /\ state # "decoding" => state = "done" /\ out = text

(* No stream, damaged or cut off as it may be, makes the decoder use an    *)
(* index outside an array or write more than it has announced.              *)
StaysInside == state # "panic" /\ Len(out) <= size

(* The decoder gives back what was encoded, and is safe with the rest. *)
DecoderSound == DecodesText /\ StaysInside
==============================================================================
