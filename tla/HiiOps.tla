------------------------------- MODULE HiiOps -------------------------------
(* The operations of the HII engine (hii/mod.rs, form_add.rs,               *)
(* form_hijack.rs, formset_add.rs, spf.rs, tse.rs, ami_patcher.rs) on one   *)
(* setup section and what the vendor keeps beside it:                       *)
(*   kind   bare: a form package in a raw section; resource: the packages   *)
(*          of a PE image, which only grows by slack cells if not grows     *)
(*   write  the mode of the image                                           *)
(*   pkg    the package edits go to                                         *)
(*   more   the other form packages of the section, which only readers and  *)
(*          an unlock see                                                   *)
(*   bare   form packages in the body of a PE image outside its resources,  *)
(*          which only readers see                                          *)
(*   vendor whether both modules of the vendor are in the image             *)
(*   donors [baked, pkg] form packages of other files                       *)
(*   strs   the string package                                              *)
(*   spf    the vendor's tables: records [qid, ifr, help, ctr], where ifr   *)
(*          is the place of the question in pkg; pages, one slot each:      *)
(*          [form, title, parent, ctrls]; ctrls, string ids of controls;    *)
(*          free, the slots behind the last page; sets, form sets           *)
(*   tse    the table of hidden pages: entries [set, form] or Cleared,      *)
(*          whether the marker of a form set is in front of it, and how far *)
(*          (in bytes) insertions have moved it                             *)
(*   ami    questions with a vendor record                                  *)
(*   stores the NVAR stores                                                 *)
(*   fx     the name of the fixture, which no operation changes             *)
EXTENDS NvarStore, FormSchema

CONSTANTS
  STRIDE,      \* bytes of an entry of the vendor's table
  FfsLimit     \* a file's size is stated modulo this

Ok(img) == [ok |-> TRUE, img |-> img]
No(img) == [ok |-> FALSE, img |-> img]

(* with_rollback: an error leaves the tree as it was. *)
(* Mutant: no snapshot is taken. *)
with_rollback_none(before, r) == r

with_rollback(before, r) == IF r.ok THEN r ELSE No(before)

(***************************************************************************)
(* Forms of the image.                                                     *)
(***************************************************************************)
(* The packages an edit may change, in order: none if all of them are      *)
(* outside the resources.                                                  *)
form_package_ranges(img) == IF img.pkg = <<>> THEN <<>> ELSE <<img.pkg>> \o img.more

(* The packages a reader looks at. *)
form_package_ranges_read(img) == form_package_ranges(img) \o img.bare

(* Every form a listing shows: form set, form, title, whether it is        *)
(* visible.                                                                *)
FormsOf(pkg, texts) ==
  LET Info(guid, f) == [set |-> guid, id |-> f.id, title |-> TextOf(texts, f.title), visible |-> ~f.suppressed]
      Infos(set) == [m \in DOMAIN set.forms |-> Info(set.guid, set.forms[m])]
      sets == parse_form_package_sets(pkg)
  IN  FlattenSeq([n \in DOMAIN sets |-> Infos(sets[n])])

collect_forms(img) ==
  LET texts == parse_string_package(img.strs)
      pkgs  == form_package_ranges_read(img) \o [d \in DOMAIN img.donors |-> img.donors[d].pkg]
  IN  FlattenSeq([n \in DOMAIN pkgs |-> FormsOf(pkgs[n], texts)])

(* The tree of forms: every reference, under the form set of its package.  *)
push_edges(pkg) == LET es == package_edges(pkg) IN [n \in DOMAIN es |-> [set |-> parse_form_package(pkg).guid, parent |-> es[n][1], form |-> es[n][2], target |-> es[n][3]]]
collect_edges(img) ==
  LET pkgs == form_package_ranges_read(img) \o [d \in DOMAIN img.donors |-> img.donors[d].pkg]
  IN  FoldLeft(LAMBDA acc, e : IF e \in Range(acc) THEN acc ELSE Append(acc, e), <<>>,
               FlattenSeq([n \in DOMAIN pkgs |-> push_edges(pkgs[n])]))

(* A form of the package: its opcode, the next form's, its form set.       *)
NoForm == [at |-> 0, next |-> 0, set |-> 0]
FormAmong(pkg, forms, hit) ==
  IF hit = 0 THEN NoForm
  ELSE [at |-> forms[hit], next |-> IF hit = Len(forms) THEN Len(pkg) + 1 ELSE forms[hit + 1], set |-> 0]
locate_form(pkg, fid) ==
  LET forms == walk_statements(pkg, LAMBDA i : pkg[i].k = "FORM")
  IN  FormAmong(pkg, forms, LeastOr({n \in DOMAIN forms : pkg[forms[n]].a = fid}, 0))

InSet(f, set) == IF f = NoForm \/ set = 0 THEN NoForm ELSE [f EXCEPT !.set = set]
Attributed(f, spans) == InSet(f, LeastOr({n \in DOMAIN spans : spans[n][1] <= f.at /\ f.at < spans[n][2]}, 0))
locate_form_attribution(pkg, fid) == Attributed(locate_form(pkg, fid), formset_spans(pkg))
locate_questions(pkg, fid) == walk_statements(pkg, LAMBDA i : pkg[i].k \in QuestionKinds /\ FormOf(pkg, i) = fid)

(***************************************************************************)
(* Growth and strings.                                                     *)
(***************************************************************************)
(* plan_rsrc_blob_growth and try_grow_rsrc_tail as the operations use them *)
CanGrow(img, n) == img.kind = "bare" \/ img.grows \/ n <= img.slack

Grown(img, n) == [img EXCEPT !.slack = IF n <= @ THEN @ - n ELSE 0]

(* Neighbours that are equal are one string. *)
dedup(ts) == SelectSeq([n \in DOMAIN ts |-> [t |-> ts[n], first |-> n = 1 \/ ts[n] # ts[n - 1]]], LAMBDA x : x.first)
Texts(ts) == LET d == dedup(ts) IN [n \in DOMAIN d |-> d[n].t]

(* add_strings, add_strings_to_resource: the ids by text, the last one     *)
(* where a text is there twice.                                            *)
StringsIn(img, ts, r) ==
  LET Id(t) == r.ids[CHOOSE n \in DOMAIN ts : ts[n] = t /\ \A m \in DOMAIN ts : ts[m] = t => m <= n]
  IN  IF ~r.ok \/ ~CanGrow(img, Len(ts)) THEN [ok |-> FALSE, img |-> img, ids |-> [t \in {} |-> 0]]
      ELSE [ok |-> TRUE, img |-> [Grown(img, Len(ts)) EXCEPT !.strs = r.blocks], ids |-> [t \in Range(ts) |-> Id(t)]]
AddStrings(img, ts) == StringsIn(img, ts, add_strings_to_body(img.strs, ts))

(* The spliced package, if the resources can grow by it. *)
SplicedInto(img, r, n) == IF r.ok /\ CanGrow(img, n) THEN Ok([Grown(img, n) EXCEPT !.pkg = r.pkg]) ELSE No(img)

(***************************************************************************)
(* The vendor's tables.                                                    *)
(***************************************************************************)
spf_record_resolves(pkg, r) == r.ifr \in DOMAIN pkg /\ pkg[r.ifr].k \in QuestionKinds /\ pkg[r.ifr].a = r.qid
select_resolving_records(img) == {n \in DOMAIN img.spf.records : spf_record_resolves(img.pkg, img.spf.records[n])}

(* Mutant: a record of the very place of the insertion stays. *)
fixup_selected_record_ifr_offsets_after(records, selected, at, delta) ==
  [n \in DOMAIN records |-> IF n \in selected /\ records[n].ifr > at THEN [records[n] EXCEPT !.ifr = @ + delta] ELSE records[n]]

fixup_selected_record_ifr_offsets(records, selected, at, delta) ==
  [n \in DOMAIN records |-> IF n \in selected /\ records[n].ifr >= at THEN [records[n] EXCEPT !.ifr = @ + delta] ELSE records[n]]

(* Records that resolved before `n` opcodes came in at `at` follow them. *)
Shifted(before, img, at, n) ==
  [img EXCEPT !.spf.records = fixup_selected_record_ifr_offsets(@, select_resolving_records(before), at, n)]

PageOf(spf, fid) == LeastOr({n \in DOMAIN spf.pages : spf.pages[n].form = fid}, 0)

NextCounter(spf) == 1 + (CHOOSE c \in {0} \cup {r.ctr : r \in Range(spf.records)} : \A r \in Range(spf.records) : r.ctr <= c)

(* A page of the form and a record to copy; for a question a control too.  *)
plan_spf_append(img, fid, question) ==
  img.spf.records # <<>> /\ PageOf(img.spf, fid) # 0 /\ (question => img.spf.ctrls # <<>>)

append_question_record(spf, qid, at, text) ==
  [spf EXCEPT !.records = Append(@, [qid |-> qid, ifr |-> at, help |-> text, ctr |-> NextCounter(spf)])]

append_string_control(spf, text) == [spf EXCEPT !.ctrls = Append(@, text)]

clone_page_with_controls(page, rec) == [page EXCEPT !.ctrls = Append(@, rec)]

(* Record, control, and a longer copy of the page in the page's slot. *)
OnPage(spf, slot) == [spf EXCEPT !.pages[slot] = clone_page_with_controls(@, Len(spf.records))]
apply_spf_question(before, img, fid, qid, at, n, text) ==
  [Shifted(before, img, at, n) EXCEPT
     !.spf = OnPage(append_string_control(append_question_record(@, qid, at, text), text), PageOf(before.spf, fid))]

append_page_skeleton(fid, title, parent) == [form |-> fid, title |-> title, parent |-> parent, ctrls |-> <<>>]

(* The free slot behind the last page; 0 if the form has one or none is    *)
(* free.                                                                   *)
spf_page_registration_slot(spf, fid) == IF PageOf(spf, fid) # 0 \/ spf.free = 0 THEN 0 ELSE Len(spf.pages) + 1
register_page_slot(spf, page) == [spf EXCEPT !.pages = Append(@, page), !.free = @ - 1]

(***************************************************************************)
(* Visibility and gates.                                                   *)
(***************************************************************************)
ScopeIn(pkg, fid) ==
  IF fid # 0 THEN find_form_suppress_scope(pkg, fid)
  ELSE FirstOr(find_suppress_if_scopes(pkg), NoSpan)

ShownIn(img, hit, new) == Ok(IF hit = 1 THEN [img EXCEPT !.pkg = new] ELSE [img EXCEPT !.more[hit - 1] = new])
ShowScope(img, scopes) ==
  LET hit == LeastOr({n \in DOMAIN scopes : scopes[n] # NoSpan}, 0)
  IN  IF hit = 0 THEN No(img) ELSE ShownIn(img, hit, unsuppress(form_package_ranges(img)[hit], scopes[hit]))

(* Shows form fid, or with 0 whatever is suppressed first, in the first    *)
(* package that has such a scope. Hiding is not supported.                 *)
set_item_visibility(img, fid, visible) ==
  LET pkgs == form_package_ranges(img)
  IN  IF ~img.write \/ ~visible THEN No(img) ELSE ShowScope(img, [n \in DOMAIN pkgs |-> ScopeIn(pkgs[n], fid)])

(* The form set of the first package that can be read, 0 if there is none. *)
own_formset_guid(img) ==
  parse_form_package(FirstOr(SelectSeq(form_package_ranges(img), LAMBDA p : parse_form_package_sets(p) # <<>>), <<>>)).guid

(* The gates of other files around references to the form. *)
CrossGates(img, fid, set) ==
  [d \in DOMAIN img.donors |-> IF set = 0 THEN <<>> ELSE find_gates(img.donors[d].pkg, [form |-> fid, qid |-> 0, set |-> set])]
find_cross_gates(img, fid) == CrossGates(img, fid, own_formset_guid(img))

(* What a caller is shown of a gate, and whether it can be flipped. *)
gate_info(pkg, g) == [pkg |-> pkg, gate |-> g, flippable |-> plan_flip(pkg, g) # NoFlip]

(* The gates around a form or a question, in every package of the section  *)
(* a reader looks at and, for a form, in other files.                      *)
gates_list(img, fid, qid) ==
  LET pkgs    == form_package_ranges_read(img)
      Infos(pkg, gates) == [n \in DOMAIN gates |-> gate_info(pkg, gates[n])]
      sites   == find_cross_gates(img, fid)
      own     == FlattenSeq([n \in DOMAIN pkgs |-> Infos(pkgs[n], find_gates(pkgs[n], [form |-> fid, qid |-> qid, set |-> 0]))])
  IN  own \o (IF qid # 0 THEN <<>> ELSE FlattenSeq([d \in DOMAIN sites |-> Infos(img.donors[d].pkg, sites[d])]))

(* Gates in other files, only for a form: one of them behind a section     *)
(* that cannot be packed again, or one that cannot be flipped, fails all.  *)
FlipSites(img, sites) ==
  LET Plan(d) == plan_gates_skip_unlocked(img.donors[d].pkg, sites[d])
  IN  IF \E d \in DOMAIN sites : sites[d] # <<>> /\ (img.donors[d].baked \/ ~Plan(d).ok) THEN No(img)
      ELSE Ok([img EXCEPT !.donors = [d \in DOMAIN @ |-> [@[d] EXCEPT !.pkg = apply_flips(@, Plan(d).flips)]]])
apply_cross_formset_gates(img, fid, qid) ==
  IF qid # 0 \/ own_formset_guid(img) = 0 THEN Ok(img) ELSE FlipSites(img, find_cross_gates(img, fid))

(* Every gate of every package an edit may change first, then the other    *)
(* files. If there is no such package nothing is changed, and no error.    *)
FlipOwn(img, plans, fid, qid) ==
  IF \E n \in DOMAIN plans : ~plans[n].ok THEN No(img)
  ELSE apply_cross_formset_gates(
         [img EXCEPT !.pkg = IF plans = <<>> THEN @ ELSE apply_flips(@, plans[1].flips),
                     !.more = [n \in DOMAIN @ |-> apply_flips(@[n], plans[n + 1].flips)]], fid, qid)
unlock(img, fid, qid) ==
  LET pkgs == form_package_ranges(img)
      Plan(n) == plan_gates_skip_unlocked(pkgs[n], find_gates(pkgs[n], [form |-> fid, qid |-> qid, set |-> 0]))
  IN  IF ~img.write \/ form_package_ranges_read(img) = <<>> THEN No(img)
      ELSE with_rollback(img, FlipOwn(img, [n \in DOMAIN pkgs |-> Plan(n)], fid, qid))

(***************************************************************************)
(* Questions and references.                                               *)
(*   question  [form, qid, store, off, size, opts, dflt, text, pos]        *)
(*   ref       [form, qid, set, text, pos], set 0: its own form set        *)
(***************************************************************************)
(* The optimized default: marked on an option or given by itself. *)
Optimized(q) ==
  LET marked == SelectSeq(q.opts, LAMBDA o : o.mark = "optimized") IN IF marked = <<>> THEN q.dflt ELSE marked[1].v

validate_question_add(q) ==
  LET Marked(m) == Cardinality({n \in DOMAIN q.opts : q.opts[n].mark = m})
  IN  /\ q.size = 1 /\ q.opts # <<>> /\ \A n \in DOMAIN q.opts : q.opts[n].v < 256
      /\ Marked("optimized") <= 1 /\ Marked("failsafe") <= 1
      /\ q.dflt # -1 => Optimized(q) = q.dflt
      /\ Optimized(q) # -1 => \E n \in DOMAIN q.opts : q.opts[n].v = Optimized(q)

QuestionStrings(q) == Texts(<<q.text>> \o [n \in DOMAIN q.opts |-> q.opts[n].text])


build_question_ops(q, ids) ==
  <<emit_one_of(q.qid, q.store, q.off, ids[q.text])>> \o EmitOptions(q.opts, 1, ids)
  \o (IF Optimized(q) = -1 THEN <<>> ELSE <<emit_default(0, 0, Optimized(q), 1)>>) \o <<END>>

build_ref_ops(r, ids) ==
  <<IF r.set = 0 THEN emit_ref(r.qid, r.form, ids[r.text]) ELSE emit_ref3(r.qid, r.form, r.set, ids[r.text])>>

Meets(s1, n1, s2, n2) == s1 < s2 + n2 /\ s2 < s1 + n1

(* Mutant: a slot is taken to be one byte wide. *)
SlotTaken_narrow(q, s) == s.store = q.store /\ Meets(q.off, q.size, s.off, 1)

(* A width that cannot be told counts as one byte. *)
SlotTaken(q, s) == s.store = q.store /\ Meets(q.off, q.size, s.off, IF s.width = 0 THEN 1 ELSE s.width)

(* The id and the place are free in the package and in the request, and    *)
(* the place is in a store of the form set.                                *)
check_question_slots(q, pkg, set, pending, extra) ==
  LET declared == SelectSeq(varstore_map_formset(pkg, set) \o extra, LAMBDA v : v.id = q.store)
  IN  /\ \A s \in Range(scan_question_slots(pkg)) \cup Range(pending) : s.qid # q.qid /\ ~SlotTaken(q, s)
      /\ declared # <<>> /\ q.off + q.size <= declared[1].size

SlotOf(q) == [qid |-> q.qid, store |-> q.store, off |-> q.off, width |-> q.size]

(* Only the place is looked at in a bare package; in resources the strings *)
(* are added to a copy, and the copy must be able to grow by n more.       *)
Holds(trial, n) == trial.ok /\ CanGrow(trial.img, n)
preflight_question_splice(img, f, fid, pos, n, texts) ==
  /\ locate_insert_at(img.pkg, f.set, fid, pos) # 0
  /\ img.kind = "resource" => Holds(AddStrings(img, texts), n)

AnyIds(texts) == [t \in Range(texts) |-> 0]

(* What both the check of a request and the operation itself ask. *)
QuestionAllowed(img, f, fid, q, pending, extra) ==
  /\ q.form = fid /\ validate_question_add(q) /\ plan_spf_append(img, fid, TRUE)
  /\ check_question_slots(q, img.pkg, f.set, pending, extra)
  /\ preflight_question_splice(img, f, fid, q.pos, Len(build_question_ops(q, AnyIds(QuestionStrings(q)))), QuestionStrings(q))

(* The strings are in strs, r is the package with the n opcodes. *)
QuestionIn(img, strs, fid, q, r, n) ==
  IF ~r.ok \/ ~CanGrow(strs.img, n) THEN No(strs.img)
  ELSE Ok(apply_spf_question(img, SplicedInto(strs.img, r, n).img, fid, q.qid, r.at, n, strs.ids[q.text]))
QuestionOps(img, f, strs, fid, q, ops) ==
  QuestionIn(img, strs, fid, q, splice_question_ops(strs.img.pkg, f.set, fid, q.pos, ops), Len(ops))
QuestionWith(img, f, strs, fid, q) ==
  IF ~strs.ok THEN No(img) ELSE QuestionOps(img, f, strs, fid, q, build_question_ops(q, strs.ids))
QuestionAdded(img, f, fid, q) ==
  IF ~img.write \/ f = NoForm \/ ~QuestionAllowed(img, f, fid, q, <<>>, <<>>) THEN No(img)
  ELSE QuestionWith(img, f, AddStrings(img, QuestionStrings(q)), fid, q)
add_question(img, fid, q) == QuestionAdded(img, locate_form_attribution(img.pkg, fid), fid, q)

(* A question of a request may name a store the same request declares;     *)
(* later questions are checked against the ones in front of them.          *)
QuestionsAllowed(img, f, fid, qs, stores) ==
  LET Pending(n) == [m \in 1..(n - 1) |-> SlotOf(qs[m])]
  IN  /\ img.write /\ f # NoForm
      /\ \A v \in Range(stores) : \A w \in Range(varstore_map_formset(img.pkg, f.set)) : v.id # w.id
      /\ plan_spf_append(img, fid, qs # <<>>)
      /\ \A n \in DOMAIN qs : QuestionAllowed(img, f, fid, qs[n], Pending(n), stores)
check_question_add(img, fid, qs, stores) ==
  QuestionsAllowed(img, locate_form_attribution(img.pkg, fid), fid, qs, stores)

(* r is the package with n opcodes more; the records behind them follow. *)
SplicedOps(before, img, r, n) ==
  IF r.ok /\ CanGrow(img, n) THEN Ok(Shifted(before, SplicedInto(img, r, n).img, r.at, n)) ELSE No(img)

(* Declarations in front of the first form of the form set. *)
VarstoresIn(img, f, stores, ops) ==
  IF \/ ~img.write \/ f = NoForm
     \/ \E v \in Range(stores) : \E w \in Range(varstore_map_formset(img.pkg, f.set)) : v.id = w.id
  THEN No(img)
  ELSE SplicedOps(img, img, splice_varstore_ops(img.pkg, ops, f.set), Len(ops))
add_varstores(img, fid, stores) ==
  IF stores = <<>> THEN Ok(img)
  ELSE VarstoresIn(img, locate_form_attribution(img.pkg, fid), stores, build_varstores([stores |-> stores]))

(* The target is a form of the form set, or of the form set it names. *)
validate_ref_target(img, f, r) ==
  IF r.set = 0 THEN \E x \in Range(parse_form_package_sets(img.pkg)[f.set].forms) : x.id = r.form
  ELSE \E x \in Range(collect_forms(img)) : x.set = r.set /\ x.id = r.form

(* Id 0 may be used again and again; other references are not looked at.   *)
check_ref_slots(r, pkg, pending) ==
  r.qid # 0 => r.qid \notin pending /\ \A s \in Range(scan_question_slots(pkg)) : s.qid # r.qid

RefAllowed(img, f, fid, r, pending) ==
  /\ validate_ref_target(img, f, r) /\ check_ref_slots(r, img.pkg, pending)
  /\ preflight_question_splice(img, f, fid, r.pos, 1, <<r.text>>)

RefWith(img, f, strs, fid, r) ==
  IF ~strs.ok THEN No(img)
  ELSE SplicedOps(img, strs.img, splice_question_ops(strs.img.pkg, f.set, fid, r.pos, build_ref_ops(r, strs.ids)), 1)
RefAdded(img, f, fid, r) ==
  IF ~img.write \/ f = NoForm \/ ~RefAllowed(img, f, fid, r, {}) THEN No(img)
  ELSE RefWith(img, f, AddStrings(img, <<r.text>>), fid, r)
add_ref(img, fid, r) == RefAdded(img, locate_form_attribution(img.pkg, fid), fid, r)

RefsAllowed(img, f, fid, refs, qids) ==
  /\ img.write /\ f # NoForm
  /\ \A n \in DOMAIN refs : RefAllowed(img, f, fid, refs[n], qids \cup {refs[m].qid : m \in 1..(n - 1)})
check_ref_add(img, fid, refs, qids) == RefsAllowed(img, locate_form_attribution(img.pkg, fid), fid, refs, qids)

(* A request declares no store twice, asks for something, and gives its    *)
(* questions an id.                                                        *)
parse_question_add_schema(ask) ==
  /\ \A n, m \in DOMAIN ask.stores : ask.stores[n].id = ask.stores[m].id => n = m
  /\ ask.questions # <<>> \/ ask.refs # <<>>
  /\ \A n \in DOMAIN ask.questions : ask.questions[n].qid # 0

(* hii_question_add: everything is checked against the image as it is,     *)
(* then stores, questions and references are added one after another; the  *)
(* first error takes all of them back. A request is                        *)
(* [form, questions, refs, stores].                                        *)
ThenQuestions(r, ask) ==
  FoldLeft(LAMBDA s, q : IF s.ok THEN add_question(s.img, ask.form, q) ELSE s, r, ask.questions)
ThenRefs(r, ask) ==
  FoldLeft(LAMBDA s, x : IF s.ok THEN add_ref(s.img, ask.form, x) ELSE s, r, ask.refs)
hii_question_add(img, ask) ==
  IF \/ ~parse_question_add_schema(ask)
     \/ ~check_question_add(img, ask.form, ask.questions, ask.stores)
     \/ ~check_ref_add(img, ask.form, ask.refs, {ask.questions[n].qid : n \in DOMAIN ask.questions})
  THEN No(img)
  ELSE with_rollback(img, ThenRefs(ThenQuestions(add_varstores(img, ask.form, ask.stores), ask), ask))

(***************************************************************************)
(* Pages, forms, form sets.                                                *)
(***************************************************************************)
(* Nothing is taken back if the strings do not fit. *)
PageWith(img, strs, parent, fid, title) ==
  IF ~strs.ok THEN No(img)
  ELSE Ok([strs.img EXCEPT !.spf = register_page_slot(@, append_page_skeleton(fid, strs.ids[title], PageOf(img.spf, parent)))])
add_page(img, parent, fid, title) ==
  IF \/ ~img.write \/ locate_form_attribution(img.pkg, parent) = NoForm
     \/ ~plan_spf_append(img, parent, FALSE) \/ spf_page_registration_slot(img.spf, fid) = 0
  THEN No(img)
  ELSE PageWith(img, AddStrings(img, <<title>>), parent, fid, title)

validate_form_varstores(pkg, n, schema) ==
  LET old == {v.id : v \in Range(varstore_map_formset(pkg, n))}
      new == {v.id : v \in Range(schema.stores)}
      Items == UNION {Range(schema.forms[k].items) : k \in DOMAIN schema.forms}
  IN  /\ old \cap new = {} /\ Cardinality(new) = Len(schema.stores)
      /\ \A i \in Items : i.store = 0 \/ i.store \in old \cup new

(* Forms at the end of form set n, their stores behind its header. The     *)
(* records follow only if there are stores; an error leaves the strings.   *)
FormsFixed(img, p, done, selected, nforms, nstores) ==
  IF ~done.ok \/ nstores = 0 THEN done
  ELSE Ok([done.img EXCEPT !.spf.records =
             fixup_selected_record_ifr_offsets(
               fixup_selected_record_ifr_offsets(img.spf.records, selected, p[2], nforms), selected, p[1], nstores)])
FormsIn(img, p, strs, n, forms, stores) ==
  FormsFixed(img, p, SplicedInto(strs.img, insert_form_into_package(strs.img.pkg, n, forms, stores), Len(forms) + Len(stores)),
             select_resolving_records(img), Len(forms), Len(stores))
FormsWith(img, p, strs, n, schema) ==
  IF ~strs.ok THEN No(img) ELSE FormsIn(img, p, strs, n, emit_forms(schema, strs.ids), build_varstores(schema))
FormAdded(img, p, n, schema) ==
  IF ~img.write \/ p = NoSpan \/ ~validate_form_varstores(img.pkg, n, schema) THEN No(img)
  ELSE FormsWith(img, p, AddStrings(img, SchemaStrings(schema)), n, schema)
add_form(img, n, schema) == FormAdded(img, formset_insert_points(img.pkg, n), n, schema)

(* New texts for questions of a form and everything around them open: the  *)
(* question, its record and the one control with the old text change.      *)
(* A request is a sequence of [qid, text].                                 *)
HijackFlips(pkg, fid, asks) ==
  LET targets == <<[form |-> fid, qid |-> 0, set |-> 0]>> \o [n \in DOMAIN asks |-> [form |-> fid, qid |-> asks[n].qid, set |-> 0]]
      plans   == [n \in DOMAIN targets |-> plan_gates_skip_unlocked(pkg, find_gates(pkg, targets[n]))]
  IN  [ok |-> \A n \in DOMAIN plans : plans[n].ok, flips |-> FlattenSeq([n \in DOMAIN plans |-> plans[n].flips])]

write_record_help_id(records, rec, text) == [records EXCEPT ![rec].help = text]

(* The question in the form, its records there, the controls of its text.  *)
QuestionAt(img, fid, qid) == LeastOr({i \in Range(locate_questions(img.pkg, fid)) : img.pkg[i].a = qid}, 0)
RecordsOf(img, fid, qid) ==
  LET f == locate_form(img.pkg, fid)
  IN  {n \in DOMAIN img.spf.records : img.spf.records[n].qid = qid /\ f.at <= img.spf.records[n].ifr /\ img.spf.records[n].ifr < f.next}
ControlsOf(img, fid, qid) == {n \in DOMAIN img.spf.ctrls : img.spf.ctrls[n] = img.pkg[QuestionAt(img, fid, qid)].t}

(* One record and one control for each, no two with the same old text.     *)
HijackAllowed(img, fid, asks) ==
  LET At(n) == QuestionAt(img, fid, asks[n].qid)
  IN  /\ img.write /\ asks # <<>> /\ locate_form(img.pkg, fid) # NoForm /\ \A n \in DOMAIN asks : At(n) # 0
      /\ HijackFlips(img.pkg, fid, asks).ok
      /\ \A n \in DOMAIN asks : Cardinality(RecordsOf(img, fid, asks[n].qid)) = 1 /\ Cardinality(ControlsOf(img, fid, asks[n].qid)) = 1
      /\ \A n, m \in DOMAIN asks : img.pkg[At(n)].t = img.pkg[At(m)].t => n = m

apply_hijack_ifr(pkg, at, texts) == FoldLeft(LAMBDA p, n : [p EXCEPT ![at[n]].t = texts[n]], pkg, [n \in DOMAIN at |-> n])

HijackWith(img, strs, fid, asks, ids) ==
  LET pkg   == apply_hijack_ifr(img.pkg, [n \in DOMAIN asks |-> QuestionAt(img, fid, asks[n].qid)], ids)
      spf   == FoldLeft(LAMBDA s, n :
                 [s EXCEPT !.records = write_record_help_id(@, CHOOSE r \in RecordsOf(img, fid, asks[n].qid) : TRUE, ids[n]),
                           !.ctrls[CHOOSE c \in ControlsOf(img, fid, asks[n].qid) : TRUE] = ids[n]],
                 img.spf, [n \in DOMAIN asks |-> n])
  IN  Ok([strs.img EXCEPT !.pkg = apply_flips(pkg, HijackFlips(img.pkg, fid, asks).flips), !.spf = spf])
HijackStrings(img, strs, fid, asks) ==
  IF ~strs.ok THEN No(img) ELSE HijackWith(img, strs, fid, asks, [n \in DOMAIN asks |-> strs.ids[asks[n].text]])
hijack_form(img, fid, asks) ==
  IF ~HijackAllowed(img, fid, asks) THEN No(img)
  ELSE HijackStrings(img, AddStrings(img, Texts([n \in DOMAIN asks |-> asks[n].text])), fid, asks)

(* A record for every question, and the ids of the forms in front of the   *)
(* marker of the form set, or at the end: what is behind them moves.       *)
patch_ami(img, schema) ==
  LET new == extract_form_ids_and_questions(schema)
  IN  [img EXCEPT !.ami = @ \o new.questions,
                  !.tse.moved = IF img.tse.marker THEN (@ + 2 * Len(new.forms)) % STRIDE ELSE @]

(* A new form set. Beside a bare package it becomes a file of its own,     *)
(* whose section is the form set without a package header: no reader takes *)
(* it for a form package. The file is refused if the size it states is     *)
(* less than its header; by then the vendor's tables are written. In       *)
(* resources the form set is one more package of the list.                 *)
assemble_ffs(strs, ifr) == (3 + Len(ifr) + FoldLeft(LAMBDA n, b : n + IdsOf(b), 0, strs)) % FfsLimit
FormSetIn(img, schema, ifr) ==
  IF img.kind = "bare" THEN [ok |-> assemble_ffs(img.strs, ifr) >= 1, img |-> patch_ami(img, schema)]
  ELSE IF ~CanGrow(img, Len(ifr)) THEN No(img)
  ELSE Ok(patch_ami([Grown(img, Len(ifr)) EXCEPT !.more = Append(@, ifr)], schema))
FormSetWith(img, strs, schema) ==
  IF ~strs.ok THEN No(img)
  ELSE IF ~NamesKnown(schema, strs.ids) THEN No(strs.img)
  ELSE FormSetIn(strs.img, schema, build_ifr(schema, strs.ids))

(* precheck_ami_modules is in front of everything, and what it found is    *)
(* still there when the tables are written.                                *)
add_setup_formset(img, schema) ==
  IF ~img.vendor THEN No(img)
  ELSE FormSetWith(img, AddStrings(img, <<schema.title>> \o SchemaStrings(schema)), schema)

(***************************************************************************)
(* The vendor's table of hidden pages.                                     *)
(***************************************************************************)
Cleared == [set |-> 0, form |-> 0]

(* The entries from place i up to the first cleared one. *)
stride_series_at(es, i) ==
  LET stop == LeastOr({j \in i..Len(es) : es[j] = Cleared}, 0) IN IF stop = 0 THEN <<>> ELSE SubSeq(es, i, stop - 1)

formset_roots(img, set) == LET ids == {x.id : x \in {y \in Range(collect_forms(img)) : y.set = set}} IN LeastOr(ids, 0)
known_formsets(img) == {x.set : x \in Range(collect_forms(img))} \cup img.spf.sets

(* Every place a series of two or more entries of known form sets starts.  *)
scan_stride_blocks(img) ==
  {i \in DOMAIN img.tse.entries : img.tse.moved = 0
     /\ LET b == stride_series_at(img.tse.entries, i) IN Len(b) >= 2 /\ \A e \in Range(b) : e.set \in known_formsets(img)}

(* The place of the entry in every block of root forms that holds it. *)
Candidates(img, set, form) ==
  {<<i, k>> \in scan_stride_blocks(img) \X DOMAIN img.tse.entries :
     LET b == stride_series_at(img.tse.entries, i)
     IN  /\ \A e \in Range(b) : e.form = formset_roots(img, e.set)
         /\ k = i - 1 + LeastOr({j \in DOMAIN b : b[j] = [set |-> set, form |-> form]}, 0) /\ k >= i}

TheOnly(cs) == IF Cardinality(cs) = 1 THEN (CHOOSE x \in cs : TRUE)[2] ELSE 0
ChosenEntry(img, set, form) == TheOnly(Candidates(img, set, form))

(* The entry is cleared: at the place the caller names if it is there, or  *)
(* in the one block that has it.                                           *)
ClearEntry(img, k) ==
  IF ~img.write \/ k = 0 THEN No(img) ELSE with_rollback(img, Ok([img EXCEPT !.tse.entries[k] = Cleared]))
tse_unhide(img, set, form, at) ==
  ClearEntry(img,
    IF at = 0 THEN ChosenEntry(img, set, form)
    ELSE IF at \in DOMAIN img.tse.entries /\ img.tse.moved = 0 /\ img.tse.entries[at] = [set |-> set, form |-> form] THEN at ELSE 0)

(***************************************************************************)
(* Values.                                                                 *)
(***************************************************************************)
QuestionOf(img, fid, qid) ==
  FirstOr(SelectSeq([n \in DOMAIN form_package_ranges_read(img) |-> find_question(form_package_ranges_read(img)[n], fid, qid)],
                    LAMBDA q : q # NoQuestion), NoQuestion)

Seed(img, q) == IF q = NoQuestion THEN NoValue ELSE seed_lookup(img.stores, q)

InfoOf(img, q) == [q |-> q, seed |-> Seed(img, q)]
question_info(img, fid, qid) == InfoOf(img, QuestionOf(img, fid, qid))

QuestionRows(img, pkg, fid, qs, texts) ==
  [n \in DOMAIN qs |-> [qid |-> qs[n].slot.qid, text |-> TextOf(texts, qs[n].prompt),
                        value |-> Seed(img, find_question(pkg, fid, qs[n].slot.qid))]]
list_questions(img, fid) ==
  LET texts == parse_string_package(img.strs)
      pkgs  == form_package_ranges_read(img)
  IN  FlattenSeq([n \in DOMAIN pkgs |-> QuestionRows(img, pkgs[n], fid, questions(pkgs[n], fid), texts)])

(* The package a form is exported from. *)
find_form_package(img, fid) ==
  FirstOr(SelectSeq(form_package_ranges_read(img), LAMBDA p : \E f \in Range(parse_form_package(p).forms) : f.id = fid), <<>>)

list_varstores(img, n) == varstore_map_formset(img.pkg, n)

WithStores(img, r) == IF ~img.write \/ ~r.ok THEN No(img) ELSE Ok([img EXCEPT !.stores = r.stores])
SetValue(img, fid, qid, v) == WithStores(img, set_value(img.stores, QuestionOf(img, fid, qid), v))
NvarSet(img, a) == WithStores(img, nvar_set(img.stores, a.name, a.guid, a.off, a.v, a.w))
=============================================================================
