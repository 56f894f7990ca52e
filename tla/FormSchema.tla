----------------------------- MODULE FormSchema -----------------------------
(* Forms as the JSON schema describes them (hii/schema.rs), read out of a   *)
(* package (form_export.rs) and written into one (formset_add.rs,           *)
(* ifr_builder.rs). The prompt and the help of a statement are one text.    *)
(*   item    [kind, qid, store, off, size, opts, dflt, text, form]          *)
(*   option  [v, text, mark]   mark: none, optimized or failsafe            *)
(*   dflt    [optimized, failsafe], -1 where there is none                  *)
(*   form    [id, title, items]                                             *)
(*   schema  [guid, title, classes, stores, dstores, forms]: how many        *)
(*           classes a form set has, stores [id, size, name], default stores *)
(*           by name; an export also names the parent form, which an import  *)
(*           ignores                                                         *)
EXTENDS Ifr, StringPack

(* Operands of OPTION: a=value b=type c=mark; of DEFAULT: a=value b=type    *)
(* c=class (0 optimized, 1 failsafe).                                       *)
Marks == <<"none", "optimized", "failsafe">>
MarkOf(c) == Marks[c + 1]
MarkCode(m) == CHOOSE c \in 0..2 : Marks[c + 1] = m
NoDefaults == [optimized |-> -1, failsafe |-> -1]

(***************************************************************************)
(* Export.                                                                 *)
(***************************************************************************)
(* The last failsafe and the first other default. *)
map_defaults(defaults) ==
  LET fail == SelectSeq(defaults, LAMBDA d : d.c = 1)
      opt  == SelectSeq(defaults, LAMBDA d : d.c # 1)
  IN  [optimized |-> IF opt = <<>> THEN -1 ELSE opt[1].a, failsafe |-> IF fail = <<>> THEN -1 ELSE Last(fail).a]

ItemAt(pkg, i, texts) ==
  LET op    == pkg[i]
      opts  == scan_options(pkg, i, "OPTION")
      dflts == scan_options(pkg, i, "DEFAULT")
      Option(o) == [v |-> o.a, text |-> TextOf(texts, o.t), mark |-> MarkOf(o.c)]
  IN  [kind |-> op.k,
       qid   |-> IF op.k = "TEXT" THEN 0 ELSE op.a,
       store |-> IF op.k \in {"ONEOF", "NUMERIC", "CHECKBOX"} THEN op.b ELSE 0,
       off   |-> IF op.k \in {"ONEOF", "NUMERIC", "CHECKBOX"} THEN op.c ELSE 0,
       size  |-> CASE op.k = "ONEOF" -> one_of_width(opts, dflts) [] op.k = "NUMERIC" -> op.d [] OTHER -> 0,
       opts  |-> IF op.k = "ONEOF" THEN [n \in DOMAIN opts |-> Option(opts[n])] ELSE <<>>,
       dflt  |-> IF op.k \in {"ONEOF", "NUMERIC"} THEN map_defaults(dflts) ELSE NoDefaults,
       text  |-> TextOf(texts, op.t),
       form  |-> IF op.k = "REF" THEN op.b ELSE 0]

(* What an export can express; a reference to another form set, a text     *)
(* question and the gates are counted as lost.                             *)
Exported(op) == op.k \in {"ONEOF", "NUMERIC", "CHECKBOX", "TEXT", "ACTION"} \/ (op.k = "REF" /\ op.c = 0 /\ op.b # 0)

collect_items(pkg, fid, texts) ==
  LET at == walk_statements(pkg, LAMBDA i : Exported(pkg[i]) /\ FormOf(pkg, i) = fid)
  IN  [n \in DOMAIN at |-> ItemAt(pkg, at[n], texts)]

(* The stores the items name, as the package declares them. *)
fill_varstores(items, pkg) ==
  SelectSeq(varstore_map(pkg), LAMBDA v : \E n \in DOMAIN items : items[n].store = v.id /\ v.id # 0)

form_title(pkg, fid, texts) ==
  LET fs == SelectSeq(parse_form_package(pkg).forms, LAMBDA f : f.id = fid) IN TextOf(texts, fs[1].title)

(* The one form of the same form set with a reference to this form, else 0. *)
parent_form_id(pkg, fid) ==
  LET from == {e[1] : e \in {x \in Range(package_edges(pkg)) : x[2] = fid /\ x[3] = 0}}
  IN  IF Cardinality(from) = 1 THEN CHOOSE f \in from : TRUE ELSE 0

export_form(pkg, fid, texts) ==
  LET items == collect_items(pkg, fid, texts)
  IN  [guid |-> parse_form_package(pkg).guid, title |-> NoText, parent |-> parent_form_id(pkg, fid), stores |-> fill_varstores(items, pkg),
       forms |-> <<[id |-> fid, title |-> form_title(pkg, fid, texts), items |-> items]>>]

(***************************************************************************)
(* The writer.                                                             *)
(***************************************************************************)
(* The size is stored as its two low bits less one, and read as a power of *)
(* two: 4 bytes are read as 8.                                             *)
(* Mutant: the size is stored as it is. *)
WrittenWidth_plain(size) == 2 ^ (size % 4)

WrittenWidth(size) == 2 ^ ((size - 1) % 4)

(* A size that is no power of two keeps one byte. *)
value_to_bytes(v, size) == CASE size = 2 -> v % 65536 [] size \in {4, 8} -> v [] OTHER -> v % 256

(* write_header: the length of an opcode is kept in 7 bits. A longer one   *)
(* states another length; a walk does not get past it, or loses its way in *)
(* the bytes behind, which the model takes for the same.                   *)
MaxOpcode == 127
VarStoreBytes(vs) == 23 + Len(vs.name)
FormSetBytes(schema) == 23 + 16 * schema.classes

write_header(op, bytes) == IF bytes > MaxOpcode THEN [op EXCEPT !.k = "BAD"] ELSE op

emit_form_set(schema, title) == write_header(Op("FORMSET", TRUE, schema.guid, 0, 0, 0, title), FormSetBytes(schema))
emit_var_store(vs) == write_header(Op("VARSTORE", FALSE, vs.id, vs.size, vs.name, 0, 0), VarStoreBytes(vs))
emit_default_store(name, id) == Op("DEFAULTSTORE", FALSE, id, 0, 0, 0, name)
emit_form(id, title) == Op("FORM", TRUE, id, 0, 0, 0, title)
emit_one_of(qid, store, off, text) == Op("ONEOF", TRUE, qid, store, off, 0, text)
emit_one_of_option(text, mark, type, v, size) == Op("OPTION", FALSE, value_to_bytes(v, size), type, MarkCode(mark), 0, text)
emit_check_box(qid, store, off, text) == Op("CHECKBOX", TRUE, qid, store, off, 0, text)
emit_numeric(qid, store, off, size, text) == Op("NUMERIC", TRUE, qid, store, off, WrittenWidth(size), text)
emit_ref(qid, form, text) == Op("REF", FALSE, qid, form, 0, 0, text)
emit_ref3(qid, form, set, text) == Op("REF", FALSE, qid, form, set, 0, text)
emit_text(text) == Op("TEXT", FALSE, 0, 0, 0, 0, text)

emit_default(class, type, v, size) == Op("DEFAULT", FALSE, value_to_bytes(v, size), type, class, 0, 0)

EmitDefaults(item) ==
  (IF item.dflt.optimized = -1 THEN <<>> ELSE <<emit_default(0, item.size - 1, item.dflt.optimized, item.size)>>)
  \o (IF item.dflt.failsafe = -1 THEN <<>> ELSE <<emit_default(1, item.size - 1, item.dflt.failsafe, item.size)>>)

EmitOptions(opts, size, ids) ==
  [n \in DOMAIN opts |-> emit_one_of_option(ids[opts[n].text], opts[n].mark, size - 1, opts[n].v, size)]

(* Nothing but an END is written for an action. *)
emit_item(item, ids) ==
  CASE item.kind = "ONEOF" ->
         <<emit_one_of(item.qid, item.store, item.off, ids[item.text])>> \o EmitOptions(item.opts, item.size, ids)
         \o EmitDefaults(item) \o <<END>>
    [] item.kind = "CHECKBOX" -> <<emit_check_box(item.qid, item.store, item.off, ids[item.text]), END>>
    [] item.kind = "NUMERIC" ->
         <<emit_numeric(item.qid, item.store, item.off, item.size, ids[item.text])>> \o EmitDefaults(item) \o <<END>>
    [] item.kind = "TEXT" -> <<emit_text(ids[item.text])>>
    [] item.kind = "REF" -> <<emit_ref(item.qid, item.form, ids[item.text])>>
    [] OTHER -> <<END>>

EmitForm(form, ids) ==
  <<emit_form(form.id, ids[form.title])>> \o FlattenSeq([n \in DOMAIN form.items |-> emit_item(form.items[n], ids)]) \o <<END>>
emit_forms(schema, ids) == FlattenSeq([n \in DOMAIN schema.forms |-> EmitForm(schema.forms[n], ids)])
build_varstores(schema) == [n \in DOMAIN schema.stores |-> emit_var_store(schema.stores[n])]

(* A default store's name that is no other text of the schema has no id:   *)
(* nothing adds it, and looking it up is a panic.                          *)
NamesKnown(schema, ids) == Range(schema.dstores) \subseteq DOMAIN ids
build_ifr(schema, ids) ==
  <<emit_form_set(schema, ids[schema.title])>> \o build_varstores(schema)
  \o [n \in DOMAIN schema.dstores |-> emit_default_store(ids[schema.dstores[n]], n)] \o emit_forms(schema, ids) \o <<END>>

(* The texts of a schema in the order they are added. *)
collect_item_strings(item) == <<item.text>> \o [n \in DOMAIN item.opts |-> item.opts[n].text]
FormStrings(form) == <<form.title>> \o FlattenSeq([n \in DOMAIN form.items |-> collect_item_strings(form.items[n])])
SchemaStrings(schema) ==
  [n \in DOMAIN schema.stores |-> "name of a store"] \o FlattenSeq([n \in DOMAIN schema.forms |-> FormStrings(schema.forms[n])])

(* The questions and references a vendor record is written for. *)
extract_form_ids_and_questions(schema) ==
  LET Questions(form) == SelectSeq(form.items, LAMBDA i : i.kind \in {"ONEOF", "CHECKBOX", "NUMERIC", "REF"})
      all == FlattenSeq([n \in DOMAIN schema.forms |-> Questions(schema.forms[n])])
  IN  [forms |-> [n \in DOMAIN schema.forms |-> schema.forms[n].id], questions |-> [n \in DOMAIN all |-> all[n].qid]]
=============================================================================
