----------------------------- MODULE StringPack -----------------------------
(* String packages: the reader (hii/strings.rs) and the writer that gives   *)
(* out the ids of new strings (hii/string_pack.rs). A package is a sequence *)
(* of blocks; the id of a string is its place among the strings, duplicates *)
(* and skipped ids before it.                                               *)
(*   STRS t   strings with their texts (all SCSU and UCS-2 forms)           *)
(*   DUP n    the text of string n again     SKIP n  n ids without a text   *)
(*   EXT      an extension block             END                            *)
(*   TORN     a block that runs over the end of the package                 *)
(*   OTHER    a block neither side knows                                    *)
EXTENDS Integers, Sequences, SequencesExt

CONSTANT MaxId       \* the largest value of an id, never given out (0xFFFF)

ASSUME MaxIdAssumption == MaxId \in Nat \ {0}

Strs(ts) == [k |-> "STRS", t |-> ts, n |-> 0]
Block(k, n) == [k |-> k, t |-> <<>>, n |-> n]
NoText == "none"

(* Ids a block takes. *)
IdsOf(b) == CASE b.k = "STRS" -> Len(b.t) [] b.k = "DUP" -> 1 [] b.k = "SKIP" -> b.n [] OTHER -> 0

TextOf(texts, id) == IF id \in DOMAIN texts THEN texts[id] ELSE NoText
With(texts, id, t) == [i \in DOMAIN texts \cup {id} |-> IF i = id THEN t ELSE texts[i]]

(* push: one text under the next id, unless no id is left. *)
push(st, t) ==
  IF st.stop \/ st.next = MaxId THEN [st EXCEPT !.stop = TRUE]
  ELSE [st EXCEPT !.texts = With(@, st.next, t), !.next = @ + 1]

Read(st, b) ==
  IF st.stop \/ b.k = "END" \/ st.next = MaxId THEN [st EXCEPT !.stop = TRUE]
  ELSE CASE b.k = "STRS" -> FoldLeft(push, st, b.t)
         [] b.k = "DUP"  -> push(st, TextOf(st.texts, b.n))
         [] b.k = "SKIP" -> IF st.next + b.n > MaxId THEN [st EXCEPT !.stop = TRUE] ELSE [st EXCEPT !.next = @ + b.n]
         [] b.k = "EXT"  -> st
         [] b.k \in {"TORN", "OTHER"} -> [st EXCEPT !.stop = TRUE]

(* The texts by id. *)
parse_string_package(blocks) ==
  FoldLeft(Read, [next |-> 1, texts |-> [i \in {} |-> NoText], stop |-> FALSE], blocks).texts

(* The next id and the place of a new block: in front of the END, at the   *)
(* very end where the walk meets a block it does not know. The walk fails  *)
(* if the ids of the package do not fit.                                   *)
scan_sibt(blocks) ==
  LET known == {"STRS", "DUP", "SKIP"}
      ends  == {i \in DOMAIN blocks : blocks[i].k \notin known}
      stop  == IF ends = {} THEN Len(blocks) + 1 ELSE CHOOSE i \in ends : \A j \in ends : i <= j
      next  == FoldLeft(LAMBDA n, b : n + IdsOf(b), 1, SubSeq(blocks, 1, stop - 1))
  IN  [ok |-> next <= MaxId, next |-> next,
       at |-> IF stop <= Len(blocks) /\ blocks[stop].k = "END" THEN stop ELSE Len(blocks) + 1]

IdsFit(next, n) == next + n - 1 <= MaxId - 1

(* New strings under consecutive ids, or an error and the package as it    *)
(* was.                                                                    *)
AddedAt(blocks, texts, scan) ==
  IF texts = <<>> THEN [ok |-> TRUE, blocks |-> blocks, ids |-> <<>>]
  ELSE IF ~scan.ok \/ ~IdsFit(scan.next, Len(texts)) THEN [ok |-> FALSE, blocks |-> blocks, ids |-> <<>>]
  ELSE [ok |-> TRUE,
        blocks |-> SubSeq(blocks, 1, scan.at - 1) \o [n \in DOMAIN texts |-> Strs(<<texts[n]>>)]
                     \o SubSeq(blocks, scan.at, Len(blocks)),
        ids |-> [n \in DOMAIN texts |-> scan.next + n - 1]]
add_strings_to_body(blocks, texts) == AddedAt(blocks, texts, scan_sibt(blocks))

(* Blocks both the reader and the writer know. *)
Plain(blocks) == \A n \in DOMAIN blocks : blocks[n].k \notin {"EXT", "TORN", "OTHER"}
=============================================================================
