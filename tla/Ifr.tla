-------------------------------- MODULE Ifr --------------------------------
(* Form packages of the HII database (hii/ifr.rs, gates.rs, values.rs,      *)
(* questions.rs): a package is the sequence of its opcodes, an offset is    *)
(* the index of an opcode. An opcode is a record: its kind k, whether it    *)
(* opens a scope s, its operands a, b, c, d and its string t.               *)
(*   FORMSET a=guid t=title       FORM a=id t=title                         *)
(*   SUPPRESS GRAYOUT             TRUE FALSE UINT64 a  EQUAL  EQIDVAL a=qid b *)
(*   REF a=qid b=form c=form set (0: its own)                               *)
(*   CHECKBOX NUMERIC ONEOF TEXTQ ACTION a=qid b=store c=offset d=width     *)
(*   OPTION a=value t=text        DEFAULT a=value b=type                    *)
(*   VARSTORE a=id b=size c=name  TEXT t=text  DEFAULTSTORE a=id t=name      *)
(*   END; BAD is an opcode whose length does not fit.                       *)
EXTENDS Integers, Sequences, SequencesExt, FiniteSets

CONSTANT MaxPkg      \* the longest package a 24-bit length can state

Op(k, s, a, b, c, d, t) == [k |-> k, s |-> s, a |-> a, b |-> b, c |-> c, d |-> d, t |-> t]
END == Op("END", FALSE, 0, 0, 0, 0, 0)

QuestionKinds == {"CHECKBOX", "NUMERIC", "ONEOF", "TEXTQ", "ACTION"}
GateKinds == {"SUPPRESS", "GRAYOUT"}
StatementKinds == {"FORM", "TEXT", "REF", "OPTION", "DEFAULT"} \cup QuestionKinds

LeastOr(S, d) == IF S = {} THEN d ELSE CHOOSE x \in S : \A y \in S : x <= y

(* The indices of pkg in i..j with property P, in order. *)
Where(pkg, i, j, P(_)) == SelectSeq([n \in 1..(IF j < i THEN 0 ELSE j - i + 1) |-> i + n - 1], P)

(* A walk stops at the first opcode that does not fit. *)
Malformed(pkg) == \E i \in DOMAIN pkg : pkg[i].k = "BAD"
Walked(pkg) == LeastOr({i \in DOMAIN pkg : pkg[i].k = "BAD"}, Len(pkg) + 1) - 1

is_form_package(pkg) == pkg # <<>> /\ pkg[1].k = "FORMSET"

(***************************************************************************)
(* Scopes.                                                                 *)
(***************************************************************************)
Opens(op) == op.s /\ op.k # "END"

(* The depth behind each opcode: scopes opened less scopes closed. *)
Change(op) == IF op.k = "END" THEN -1 ELSE IF Opens(op) THEN 1 ELSE 0
RECURSIVE DepthsFrom(_, _)
DepthsFrom(pkg, acc) ==
  IF Len(acc) = Len(pkg) THEN acc
  ELSE DepthsFrom(pkg, Append(acc, (IF acc = <<>> THEN 0 ELSE acc[Len(acc)]) + Change(pkg[Len(acc) + 1])))
Depths(pkg) == DepthsFrom(pkg, <<>>)

scope_balance(pkg) == IF Walked(pkg) = 0 THEN 0 ELSE Depths(pkg)[Walked(pkg)]

(* The END that closes the scope opened at i, 0 if a walk does not get there. *)
CloseAt(pkg, depth, i) == LeastOr({j \in (i + 1)..Walked(pkg) : pkg[j].k = "END" /\ depth[j] < depth[i]}, 0)
CloseOf(pkg, i) == CloseAt(pkg, Depths(pkg), i)

(* The frames that are open before i: opcode, end of a gate's expression   *)
(* (the first statement inside) and id if it is a form. A stray END pops   *)
(* nothing.                                                                *)
FramesOf(pkg, i, statements, open) ==
  [n \in DOMAIN open |->
    [at |-> open[n], form |-> IF pkg[open[n]].k = "FORM" THEN pkg[open[n]].a ELSE 0,
     end |-> LeastOr({m \in (open[n] + 1)..(i - 1) : pkg[m].k \in statements}, 0)]]
OpenBefore(pkg, i, depth) ==
  Where(pkg, 1, i - 1, LAMBDA j : Opens(pkg[j]) /\ \A m \in (j + 1)..(i - 1) : depth[m] >= depth[j])
Frames(pkg, i, statements) == FramesOf(pkg, i, statements, OpenBefore(pkg, i, Depths(pkg)))

(* The first or the last of a sequence, or a value for none. *)
FirstOr(s, d) == IF s = <<>> THEN d ELSE s[1]
LastOr(s, d) == IF s = <<>> THEN d ELSE s[Len(s)]

CurrentForm(frames) == LastOr(SelectSeq(frames, LAMBDA f : f.form # 0), [form |-> 0]).form

(* walk_statements: the statements and gates, each with its form. *)
Visited == StatementKinds \cup {"VARSTORE"} \cup GateKinds
FormOf(pkg, i) == CurrentForm(Frames(pkg, i, StatementKinds \cup {"VARSTORE"}))
walk_statements(pkg, P(_)) == Where(pkg, 1, Walked(pkg), LAMBDA i : pkg[i].k \in Visited /\ P(i))

(***************************************************************************)
(* Form sets and forms.                                                    *)
(***************************************************************************)
NoSpan == <<0, 0>>

(* First opcode and END of each form set; none at all if one is not closed. *)
FormSetsAt(pkg) == Where(pkg, 1, Walked(pkg), LAMBDA i : pkg[i].k = "FORMSET")
AllClosed(spans) == IF \E n \in DOMAIN spans : spans[n][2] = 0 THEN <<>> ELSE spans
Spans(pkg, at) == [n \in DOMAIN at |-> <<at[n] + 1, CloseOf(pkg, at[n])>>]
formset_spans(pkg) ==
  IF ~is_form_package(pkg) \/ Malformed(pkg) THEN <<>> ELSE AllClosed(Spans(pkg, FormSetsAt(pkg)))

SpanNumber(spans, n) == IF n \in DOMAIN spans THEN spans[n] ELSE NoSpan
formset_insert_points(pkg, n) == SpanNumber(formset_spans(pkg), n)

(* Opcode and END of form fid in form set n. *)
FormIn(pkg, set, fid) ==
  IF set = NoSpan THEN 0
  ELSE LeastOr({j \in set[1]..Walked(pkg) : pkg[j].k = "FORM" /\ pkg[j].a = fid /\ (set[2] = 0 \/ j < set[2])}, 0)
Closed(span) == IF span[2] = 0 THEN NoSpan ELSE span
SpanFrom(pkg, j) == IF j = 0 THEN NoSpan ELSE Closed(<<j, CloseOf(pkg, j)>>)
form_span(pkg, n, fid) ==
  IF ~is_form_package(pkg) THEN NoSpan
  ELSE SpanFrom(pkg, FormIn(pkg, SpanNumber(Spans(pkg, FormSetsAt(pkg)), n), fid))

RawForm(pkg, j) ==
  [id |-> pkg[j].a, title |-> pkg[j].t,
   suppressed |-> LET f == Frames(pkg, j, StatementKinds) IN \E n \in DOMAIN f : pkg[f[n].at].k = "SUPPRESS"]

(* Per form set: guid and forms, up to the next form set. *)
parse_form_package_sets(pkg) ==
  LET at == Where(pkg, 1, Len(pkg), LAMBDA i : pkg[i].k = "FORMSET")
      Until(n) == IF n = Len(at) THEN Len(pkg) ELSE at[n + 1] - 1
  IN  IF ~is_form_package(pkg) \/ Malformed(pkg) THEN <<>>
      ELSE [n \in DOMAIN at |->
             LET fs == Where(pkg, at[n], Until(n), LAMBDA j : pkg[j].k = "FORM")
             IN  [guid |-> pkg[at[n]].a, forms |-> [m \in DOMAIN fs |-> RawForm(pkg, fs[m])]]]

(* One record for the package: the guid of its last form set, all forms.   *)
OneRecord(sets) ==
  [guid |-> LastOr(sets, [guid |-> 0]).guid, forms |-> FlattenSeq([n \in DOMAIN sets |-> sets[n].forms])]
parse_form_package(pkg) == OneRecord(parse_form_package_sets(pkg))

(* The string ids a form uses, title first, each once. *)
collect_form_string_ids(pkg, fid) ==
  LET at   == LeastOr({i \in 1..Walked(pkg) : pkg[i].k = "FORM" /\ pkg[i].a = fid}, 0)
      to   == IF CloseOf(pkg, at) = 0 THEN Walked(pkg) ELSE CloseOf(pkg, at)
      used == Where(pkg, at, to, LAMBDA j : pkg[j].t # 0 /\ (j = at \/ pkg[j].k \in StatementKinds \ {"FORM", "DEFAULT"}))
  IN  IF at = 0 THEN <<>>
      ELSE FoldLeft(LAMBDA acc, j : IF pkg[j].t \in Range(acc) THEN acc ELSE Append(acc, pkg[j].t), <<>>, used)

(***************************************************************************)
(* Suppressed forms.                                                       *)
(***************************************************************************)
(* Contents of the SUPPRESS scopes that are in no other. *)
find_suppress_if_scopes(pkg) ==
  LET sups  == {i \in 1..Walked(pkg) : pkg[i].k = "SUPPRESS" /\ pkg[i].s}
      outer == Where(pkg, 1, Walked(pkg), LAMBDA i : i \in sups /\ CloseOf(pkg, i) # 0 /\
                 \A j \in sups : j < i => CloseOf(pkg, j) # 0 /\ CloseOf(pkg, j) < i)
  IN  [n \in DOMAIN outer |-> <<outer[n] + 1, CloseOf(pkg, outer[n])>>]

(* Mutant: the first scope that hides anything. *)
find_form_suppress_scope_first(pkg, fid) == FirstOr(find_suppress_if_scopes(pkg), NoSpan)

(* The outermost SUPPRESS around the first form of this id that has one:   *)
(* the opcode behind it, and the END at which the scopes around the form   *)
(* are counted down to it. The count leaves out the scope of the form      *)
(* itself, so that the END is one too early: the form's own if the         *)
(* SUPPRESS is right around it.                                            *)
SuppressEnd(pkg, depth, i, k, n) ==
  LeastOr({j \in (i + 1)..Walked(pkg) : pkg[j].k = "END" /\ n + depth[j] - depth[i] = k - 1}, 0)
SuppressAround(pkg, depth, i, open, k) == Closed(<<open[k] + 1, SuppressEnd(pkg, depth, i, k, Len(open))>>)
FirstSuppress(pkg, open) == LeastOr({n \in DOMAIN open : pkg[open[n]].k = "SUPPRESS"}, 0)
SuppressOf(pkg, depth, i, open) ==
  IF i = 0 THEN NoSpan ELSE SuppressAround(pkg, depth, i, open, FirstSuppress(pkg, open))
find_form_suppress_scope(pkg, fid) ==
  LET depth == Depths(pkg)
      i == LeastOr({j \in 1..Walked(pkg) : pkg[j].k = "FORM" /\ pkg[j].a = fid
                                           /\ FirstSuppress(pkg, OpenBefore(pkg, j, depth)) # 0}, 0)
  IN  SuppressOf(pkg, depth, i, OpenBefore(pkg, i, depth))

(* The END moves in front of the contents. *)
unsuppress(pkg, scope) ==
  SubSeq(pkg, 1, scope[1] - 1) \o <<END>> \o SubSeq(pkg, scope[1], scope[2] - 1) \o SubSeq(pkg, scope[2] + 1, Len(pkg))

(***************************************************************************)
(* Insertions. A result is [ok, pkg, at].                                  *)
(***************************************************************************)
Refused(pkg) == [ok |-> FALSE, pkg |-> pkg, at |-> 0]
Splice(pkg, at, ops) == SubSeq(pkg, 1, at - 1) \o ops \o SubSeq(pkg, at, Len(pkg))

(* A form at the end of form set n and its stores behind the header. The   *)
(* length is not checked: a reader sees what its 24 bits state.            *)
InsertForm(pkg, p, form, stores) ==
  LET new == Splice(Splice(pkg, p[2], form), p[1], stores)
  IN  IF p = NoSpan THEN Refused(pkg)
      ELSE [ok |-> TRUE, pkg |-> SubSeq(new, 1, Len(new) % (MaxPkg + 1)), at |-> p[2]]
insert_form_into_package(pkg, n, form, stores) == InsertForm(pkg, formset_insert_points(pkg, n), form, stores)

checked_package_len(pkg, ops) == Len(pkg) + Len(ops) <= MaxPkg

(* The place in front of the first statement that P names, lifted out of   *)
(* every scope of the form around it; 0 if there is none.                  *)
AnchorOf(pkg, span, at) ==
  LET inside == SelectSeq(Frames(pkg, at, StatementKinds), LAMBDA f : f.at > span[1])
  IN  IF inside = <<>> THEN at ELSE inside[1].at

InsertPlace(pkg, span, pos) ==
  LET IsAnchor(i) == \/ pos.kind = "BeforeGoto" /\ pkg[i].k = "REF" /\ pkg[i].b = pos.id /\ pos.id # 0
                     \/ pos.kind = "BeforeQuestion" /\ pkg[i].k \in QuestionKinds /\ pkg[i].a = pos.id
      at   == LeastOr({i \in (span[1] + 1)..(span[2] - 1) : IsAnchor(i)}, 0)
  IN  IF span = NoSpan THEN 0
      ELSE IF pos.kind = "End" THEN span[2]
      ELSE IF at = 0 THEN 0 ELSE AnchorOf(pkg, span, at)
locate_insert_at(pkg, n, fid, pos) == InsertPlace(pkg, form_span(pkg, n, fid), pos)

SpliceAt(pkg, at, ops) ==
  IF ops = <<>> \/ ~checked_package_len(pkg, ops) \/ at = 0 THEN Refused(pkg)
  ELSE [ok |-> TRUE, pkg |-> Splice(pkg, at, ops), at |-> at]
splice_question_ops(pkg, n, fid, pos, ops) == SpliceAt(pkg, locate_insert_at(pkg, n, fid, pos), ops)

FirstFormIn(pkg, p) == IF p = NoSpan THEN 0 ELSE LeastOr({i \in p[1]..(p[2] - 1) : pkg[i].k = "FORM"}, 0)
locate_formset_prelude_end(pkg, n) == FirstFormIn(pkg, formset_insert_points(pkg, n))

splice_varstore_ops(pkg, ops, n) == SpliceAt(pkg, locate_formset_prelude_end(pkg, n), ops)

(***************************************************************************)
(* Gates (gates.rs).                                                       *)
(***************************************************************************)
(* What the opcodes between a gate and its first statement say, without    *)
(* the ENDs of scoped operands.                                            *)
decode_expr(region) ==
  LET ops   == SelectSeq(region, LAMBDA o : o.k # "END")
      kinds == [n \in DOMAIN ops |-> ops[n].k]
      Expr(k, a, b) == [k |-> k, a |-> a, b |-> b]
  IN  CASE kinds = <<"UINT64", "UINT64", "EQUAL">> -> Expr("EqConst", ops[1].a, ops[2].a)
        [] kinds = <<"EQIDVAL">> -> Expr("EqIdVal", ops[1].a, ops[1].b)
        [] kinds = <<"TRUE">> -> Expr("True", 0, 0)
        [] kinds = <<"FALSE">> -> Expr("False", 0, 0)
        [] OTHER -> Expr("Other", 0, 0)

(* Whether statement i is what target [form, qid, set] names: the form, a  *)
(* reference to it, or a question of it.                                   *)
Wraps(pkg, i, target) ==
  LET op == pkg[i]
  IN  \/ op.k = "FORM" /\ op.a = target.form /\ target.qid = 0
      \/ op.k = "REF" /\ target.qid = 0 /\ op.b # 0 /\ op.b = target.form /\ op.c = target.set
      \/ op.k \in QuestionKinds /\ target.qid # 0 /\ op.a = target.qid
           /\ CurrentForm(Frames(pkg, i, StatementKinds)) = target.form

(* The gates around statement i, innermost first. *)
emit_gates(pkg, i) ==
  LET gates == SelectSeq(Frames(pkg, i, StatementKinds), LAMBDA f : pkg[f.at].k \in GateKinds)
      Gate(f) == LET end == IF f.end = 0 THEN i ELSE f.end
                 IN  [kind |-> pkg[f.at].k, at |-> f.at, end |-> end, expr |-> decode_expr(SubSeq(pkg, f.at + 1, end - 1))]
  IN  Reverse([n \in DOMAIN gates |-> Gate(gates[n])])

find_gates(pkg, target) ==
  LET hits == Where(pkg, 1, Walked(pkg), LAMBDA i : pkg[i].k \in StatementKinds /\ Wraps(pkg, i, target))
  IN  FlattenSeq([n \in DOMAIN hits |-> emit_gates(pkg, hits[n])])

(* Width of the first question with this id, 0 if it cannot be told. *)
question_storage_width(pkg, qid) ==
  LET i == LeastOr({j \in 1..Walked(pkg) : pkg[j].k \in QuestionKinds /\ pkg[j].a = qid}, 0)
  IN  IF i = 0 THEN 0
      ELSE CASE pkg[i].k = "CHECKBOX" -> 1 [] pkg[i].k = "NUMERIC" -> pkg[i].d [] OTHER -> 0

(* wrapping_add of the low byte *)
NextByte(v) == IF v % 256 = 255 THEN v - 255 ELSE v + 1

(* The byte behind the first operand and two more is changed: the value of *)
(* the second operand, or, behind the END of a scoped first operand, the   *)
(* second operand's opcode (UINT64 + 1 is TRUE).                           *)
FlipConst(pkg, i) ==
  IF pkg[i].k = "END" THEN [at |-> i + 1, to |-> [pkg[i + 1] EXCEPT !.k = "TRUE"]]
  ELSE [at |-> i, to |-> [pkg[i] EXCEPT !.a = NextByte(@)]]

NoFlip == [at |-> 0, to |-> END]

(* Mutant: a comparison with a question of any width is flipped. *)
plan_flip_wide(pkg, g) ==
  CASE g.expr.k = "EqConst" /\ g.expr.a = g.expr.b -> FlipConst(pkg, g.at + 2)
    [] g.expr.k = "EqIdVal" /\ g.expr.b # 65535 -> [at |-> g.at + 1, to |-> [pkg[g.at + 1] EXCEPT !.b = 65535]]
    [] g.expr.k = "True" /\ pkg[g.at + 1].k = "TRUE" -> [at |-> g.at + 1, to |-> [pkg[g.at + 1] EXCEPT !.k = "FALSE"]]
    [] OTHER -> NoFlip

plan_flip(pkg, g) ==
  CASE g.expr.k = "EqConst" /\ g.expr.a = g.expr.b -> FlipConst(pkg, g.at + 2)
    [] g.expr.k = "EqIdVal" /\ g.expr.b # 65535 /\ question_storage_width(pkg, g.expr.a) <= 1 ->
         [at |-> g.at + 1, to |-> [pkg[g.at + 1] EXCEPT !.b = 65535]]
    [] g.expr.k = "True" /\ pkg[g.at + 1].k = "TRUE" -> [at |-> g.at + 1, to |-> [pkg[g.at + 1] EXCEPT !.k = "FALSE"]]
    [] OTHER -> NoFlip

is_unlocked_expr(e) ==
  \/ e.k = "EqConst" /\ e.a # e.b
  \/ e.k = "EqIdVal" /\ e.b = 65535
  \/ e.k = "False"

(* The flips for gates that are still locked; ok is FALSE if one is not of *)
(* a class that can be flipped.                                            *)
plan_gates_skip_unlocked(pkg, gates) ==
  LET locked == SelectSeq(gates, LAMBDA g : ~is_unlocked_expr(g.expr))
      flips  == [n \in DOMAIN locked |-> plan_flip(pkg, locked[n])]
  IN  [ok |-> NoFlip \notin Range(flips), flips |-> flips]

apply_flips(pkg, flips) ==
  FoldLeft(LAMBDA p, f : [p EXCEPT ![f.at] = f.to], pkg, flips)

(***************************************************************************)
(* Stores, questions and values (values.rs, questions.rs).                 *)
(***************************************************************************)
VarStoreAt(pkg, i) == [id |-> pkg[i].a, size |-> pkg[i].b, name |-> pkg[i].c]

varstore_map(pkg) ==
  LET at == walk_statements(pkg, LAMBDA i : pkg[i].k = "VARSTORE") IN [n \in DOMAIN at |-> VarStoreAt(pkg, at[n])]

varstore_map_formset(pkg, f) ==
  LET p  == formset_insert_points(pkg, f)
      at == walk_statements(pkg, LAMBDA i : pkg[i].k = "VARSTORE" /\ p[1] <= i /\ i < p[2])
  IN  [n \in DOMAIN at |-> VarStoreAt(pkg, at[n])]

(* The options or defaults directly in the scope behind opcode i. *)
scan_options(pkg, i, kind) ==
  LET depth == Depths(pkg)
      e  == LeastOr({j \in (i + 1)..Walked(pkg) : pkg[j].k = "END" /\ depth[j] < depth[i]}, 0)
      at == Where(pkg, i + 1, IF e = 0 THEN Walked(pkg) ELSE e, LAMBDA j : pkg[j].k = kind /\ depth[j - 1] = depth[i])
  IN  [n \in DOMAIN at |-> pkg[at[n]]]

value_bytes_needed(v) == IF v = 0 THEN 0 ELSE IF v < 256 THEN 1 ELSE IF v < 65536 THEN 2 ELSE 3

(* A default of type 1 to 4 is taken to be 1, 2, 4 or 8 bytes wide. *)
one_of_width(options, defaults) ==
  LET typed  == {d \in Range(defaults) : d.b \in 1..4}
      widths == {1} \cup {value_bytes_needed(o.a) : o \in Range(options)} \cup {2 ^ (d.b - 1) : d \in typed}
  IN  CHOOSE w \in widths : \A x \in widths : x <= w

QuestionWidth(pkg, i) ==
  CASE pkg[i].k = "CHECKBOX" -> 1
    [] pkg[i].k = "NUMERIC" -> pkg[i].d
    [] pkg[i].k = "ONEOF" -> one_of_width(scan_options(pkg, i, "OPTION"), scan_options(pkg, i, "DEFAULT"))
    [] OTHER -> 0

Slot(pkg, i) == [qid |-> pkg[i].a, store |-> pkg[i].b, off |-> pkg[i].c, width |-> QuestionWidth(pkg, i)]

scan_question_slots(pkg) ==
  LET at == walk_statements(pkg, LAMBDA i : pkg[i].k \in QuestionKinds) IN [n \in DOMAIN at |-> Slot(pkg, at[n])]

questions(pkg, fid) ==
  LET at == walk_statements(pkg, LAMBDA i : pkg[i].k \in QuestionKinds /\ FormOf(pkg, i) = fid)
  IN  [n \in DOMAIN at |-> [slot |-> Slot(pkg, at[n]), prompt |-> pkg[at[n]].t]]

NoStore == [id |-> 0, size |-> 0, name |-> <<>>]
NoQuestion == [kind |-> "none", slot |-> [qid |-> 0, store |-> 0, off |-> 0, width |-> 0], store |-> NoStore, values |-> {}]

(* The first store of the package with the question's store id. *)
StoreFor(pkg, id) ==
  LET own == SelectSeq(varstore_map(pkg), LAMBDA v : v.id = id)
  IN  IF id = 0 \/ own = <<>> THEN NoStore ELSE own[1]

build_question_map(pkg, i) ==
  [kind |-> pkg[i].k, slot |-> Slot(pkg, i), store |-> StoreFor(pkg, pkg[i].b),
   values |-> IF pkg[i].k = "ONEOF" THEN {o.a : o \in Range(scan_options(pkg, i, "OPTION"))} ELSE {}]

find_question(pkg, fid, qid) ==
  LET at == walk_statements(pkg, LAMBDA i : pkg[i].k \in QuestionKinds /\ pkg[i].a = qid /\ FormOf(pkg, i) = fid)
  IN  IF at = <<>> THEN NoQuestion ELSE build_question_map(pkg, at[1])

(* REF edges of the package: parent form, target form, its form set. *)
package_edges(pkg) ==
  LET at == walk_statements(pkg, LAMBDA i : pkg[i].k = "REF" /\ pkg[i].b # 0 /\ FormOf(pkg, i) # 0)
  IN  FoldLeft(LAMBDA acc, i : LET e == <<FormOf(pkg, i), pkg[i].b, pkg[i].c>>
                               IN  IF e \in Range(acc) THEN acc ELSE Append(acc, e), <<>>, at)
=============================================================================
