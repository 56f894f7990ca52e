------------------------------ MODULE HiiEdit ------------------------------
(* One image under the HII calls of the server (rpc/server.rs), one action  *)
(* for each call that edits. The calls of one image are serialised by the   *)
(* server's lock; what a call does to the tree is an operator of HiiOps.    *)
EXTENDS HiiOps

CONSTANTS
  Images,      \* the images a session may hold
  Requests,    \* by fixture: what callers ask, a set for each call
  MaxCalls     \* by fixture: calls of a behaviour

VARIABLES
  img,         \* the tree of the image
  last         \* the last call: [op, ask, ok, n, long], its number in n, and
               \* whether a call so far wrote an opcode of more than MaxOpcode bytes

vars == <<img, last>>

Asked == Requests[img.fx]

(* Requests whose opcodes state a wrong length. *)
Overlong(op, ask) ==
  \/ op = "form" /\ \E v \in Range(ask.schema.stores) : VarStoreBytes(v) > MaxOpcode
  \/ op = "formset" /\ (FormSetBytes(ask) > MaxOpcode \/ \E v \in Range(ask.stores) : VarStoreBytes(v) > MaxOpcode)

Call(op, ask, r) ==
  /\ last.n < MaxCalls[img.fx]
  /\ img' = r.img
  /\ last' = [op |-> op, ask |-> ask, ok |-> r.ok, n |-> last.n + 1, long |-> last.long \/ (r.ok /\ Overlong(op, ask))]

Init == img \in Images /\ last = [op |-> "open", ask |-> 0, ok |-> TRUE, n |-> 0, long |-> FALSE]

HiiSetFormVisibility == \E a \in Asked.show : Call("show", a, set_item_visibility(img, a.form, a.visible))
HiiUnlock == \E a \in Asked.unlock : Call("unlock", a, unlock(img, a.form, a.qid))
HiiSetValue == \E a \in Asked.value : Call("value", a, SetValue(img, a.form, a.qid, a.v))
HiiNvarSet == \E a \in Asked.nvar : Call("nvar", a, NvarSet(img, a))
HiiQuestionAdd == \E a \in Asked.question : Call("question", a, hii_question_add(img, a))
HiiPageAdd == \E a \in Asked.page : Call("page", a, add_page(img, a.parent, a.form, a.title))
HiiFormAdd == \E a \in Asked.form : Call("form", a, add_form(img, a.set, a.schema))
HiiFormHijack == \E a \in Asked.hijack : Call("hijack", a, hijack_form(img, a.form, a.items))
HiiFormSetAdd == \E a \in Asked.formset : Call("formset", a, add_setup_formset(img, a))
HiiTseUnhide == \E a \in Asked.unhide : Call("unhide", a, tse_unhide(img, a.set, a.form, a.at))

(* A form goes out as a schema and comes in again under another id. *)
HiiReimport ==
  \E a \in Asked.reimport :
    /\ find_form_package(img, a.form) # <<>>
    /\ \E out \in {export_form(find_form_package(img, a.form), a.form, parse_string_package(img.strs))} :
       \E schema \in {[out EXCEPT !.stores = <<>>, !.forms[1].id = a.new]} :
         Call("form", [set |-> 1, schema |-> schema], add_form(img, 1, schema))

Next ==
  \/ HiiSetFormVisibility \/ HiiUnlock \/ HiiSetValue \/ HiiNvarSet \/ HiiQuestionAdd \/ HiiPageAdd
  \/ HiiFormAdd \/ HiiFormHijack \/ HiiFormSetAdd \/ HiiTseUnhide \/ HiiReimport

Spec == Init /\ [][Next]_vars

(***************************************************************************)
(* Properties.                                                             *)
(***************************************************************************)
Accepted(op) == last'.op = op /\ last'.ok

(* What was asked for by the call of a step. *)
Ask == last'.ask

TypeOK ==
  /\ img.fx \in DOMAIN Requests /\ img.kind \in {"bare", "resource"} /\ img.slack \in Nat
  /\ last.ok \in BOOLEAN /\ last.long \in BOOLEAN /\ last.n \in 0..MaxCalls[img.fx]

(* Every package of the image stays a form package whose scopes close: a   *)
(* form set never ends before its forms do, nothing is left open at the    *)
(* end, and every form lies inside a form set (splice_question_ops,        *)
(* insert_form_into_package, unsuppress, build_ifr). Only an accepted form *)
(* or form set with an opcode of more than 127 bytes (the name of a store, *)
(* or classes), whose length is cut to 7 bits unchecked (write_header),    *)
(* makes packages that cannot be read; a request for questions never does, *)
(* and the packages that can be read are well formed even then.            *)
Readable(pkg) == is_form_package(pkg) /\ ~Malformed(pkg)
ScopesClose(pkg, spans) ==
  /\ spans # <<>> /\ scope_balance(pkg) = 0
  /\ \A i \in DOMAIN pkg : pkg[i].k = "FORM" =>
       \E k \in DOMAIN spans : spans[k][1] <= i /\ CloseOf(pkg, i) \in (i + 1)..(spans[k][2] - 1)

(* A refused call leaves the image as it was. The four calls that add      *)
(* strings before their last check may leave those strings behind, and     *)
(* nothing else: every id keeps its text. A form set whose file cannot be  *)
(* inserted also leaves its records and its ids in the vendor's modules.   *)
RefusedLeavesImage ==
  [][~last'.ok =>
      \/ img' = img
      \/ /\ last'.op \in {"page", "form", "hijack", "formset"}
         /\ \/ img' = [img EXCEPT !.strs = img'.strs, !.slack = img'.slack]
            \/ last'.op = "formset" /\ img.kind = "bare" /\ img' = patch_ami([img EXCEPT !.strs = img'.strs], last'.ask)
         /\ LET old == parse_string_package(img.strs)
            IN  \A id \in DOMAIN old : TextOf(parse_string_package(img'.strs), id) = old[id]]_vars

(* A record of the vendor's tables that found its question before a call   *)
(* finds it after the call, wherever the call inserted opcodes. Two calls  *)
(* move opcodes and leave the records alone: a form without stores, and    *)
(* the unsuppressing of a form, which moves its contents.                  *)
RecordsFollow ==
  ~(last'.op = "show" \/ (last'.op = "form" /\ Ask.schema.stores = <<>>)) =>
   \A n \in DOMAIN img.spf.records :
     spf_record_resolves(img.pkg, img.spf.records[n]) =>
       spf_record_resolves(img'.pkg, img'.spf.records[n])

(* A record and the question it is about name the same help text: an added *)
(* question and a hijacked one change both sides.                          *)
HelpInStep ==
  \A n \in DOMAIN img.spf.records :
    LET r == img.spf.records[n] IN spf_record_resolves(img.pkg, r) => r.help = img.pkg[r.ifr].t

(* A question that was added has an id of its own and a place in its store *)
(* that no other question of a known width uses, also when several come in *)
(* one request or over stores the request declares.                        *)
AddedSlotsFree ==
  Accepted("question") =>
   \A n \in DOMAIN Ask.questions :
     LET q     == Ask.questions[n]
         slots == scan_question_slots(img'.pkg)
         own   == {k \in DOMAIN slots : slots[k].qid = q.qid}
     IN  /\ Cardinality(own) = 1
         /\ \A k \in DOMAIN slots \ own :
              slots[k].store = q.store /\ slots[k].width > 0 =>
                ~Meets(q.off, q.size, slots[k].off, slots[k].width)

(* What a request added is what the readers then show: the questions with  *)
(* their texts, the references as edges of the form tree, the stores, and  *)
(* the strings among those of the form. Only for string packages without   *)
(* blocks the reader and the writer count differently.                     *)
ShownAsRequested ==
  Accepted("question") /\ Plain(img.strs) =>
   LET rows  == list_questions(img', Ask.form)
       texts == parse_string_package(img'.strs)
       shown == {TextOf(texts, id) : id \in Range(collect_form_string_ids(img'.pkg, Ask.form))}
       set   == locate_form_attribution(img'.pkg, Ask.form).set
   IN  /\ \A n \in DOMAIN Ask.questions : \E r \in Range(rows) :
            r.qid = Ask.questions[n].qid /\ r.text = Ask.questions[n].text
       /\ \A n \in DOMAIN Ask.refs :
            <<Ask.form, Ask.refs[n].form, Ask.refs[n].set>> \in Range(package_edges(img'.pkg))
       /\ {Ask.questions[n].text : n \in DOMAIN Ask.questions} \cup {Ask.refs[n].text : n \in DOMAIN Ask.refs}
            \subseteq shown
       /\ Range(Ask.stores) \subseteq Range(list_varstores(img', set))

(* An exported form shows a question that was added as it was asked for:   *)
(* store, place, width, options and marks survive being written and read.  *)
ExportShowsAdded ==
  Accepted("question") /\ Plain(img.strs) =>
   LET out == export_form(img'.pkg, Ask.form, parse_string_package(img'.strs)).forms[1].items
   IN  \A n \in DOMAIN Ask.questions :
         LET q == Ask.questions[n]
         IN  \E i \in Range(out) :
               /\ i.qid = q.qid /\ i.store = q.store /\ i.off = q.off /\ i.size = q.size
               /\ i.opts = q.opts /\ i.dflt.optimized = Optimized(q)

(* An added question or reference is under no gate of its form: a place    *)
(* named by a gated statement is lifted out of the gate.                   *)
InsertNotGated ==
  Accepted("question") =>
   LET Here(i) == \/ img'.pkg[i].k \in QuestionKinds /\ \E n \in DOMAIN Ask.questions : Ask.questions[n].qid = img'.pkg[i].a
                  \/ img'.pkg[i].k = "REF" /\ \E n \in DOMAIN Ask.refs : Ask.refs[n].qid = img'.pkg[i].a /\ Ask.refs[n].qid # 0
   IN  \A i \in DOMAIN img'.pkg : Here(i) =>
         LET frames == Frames(img'.pkg, i, StatementKinds)
         IN  frames # <<>> /\ Last(frames).form = Ask.form

(* Whether some value of the questions makes a gate's condition true. An   *)
(* unknown question has no value; a number compared with a truth value is  *)
(* not equal to it.                                                        *)
CanHold(pkg, e, region) ==
  LET Values(qid) ==
        LET i == LeastOr({j \in DOMAIN pkg : pkg[j].k \in QuestionKinds /\ pkg[j].a = qid}, 0)
        IN  IF i = 0 THEN {}
            ELSE CASE pkg[i].k = "CHECKBOX" -> 0..1
                   [] pkg[i].k = "NUMERIC" -> 0..(IF pkg[i].d = 1 THEN 255 ELSE 65535)
                   [] pkg[i].k = "ONEOF" -> {o.a : o \in Range(scan_options(pkg, i, "OPTION"))}
                   [] OTHER -> {}
      kinds == {o.k : o \in Range(region)} \ {"END"}
  IN  CASE e.k = "EqConst" -> e.a = e.b
        [] e.k = "EqIdVal" -> e.b \in Values(e.a)
        [] e.k = "True" -> TRUE
        [] e.k = "False" -> FALSE
        [] OTHER -> kinds # {"UINT64", "TRUE", "EQUAL"}

(* After an unlock no gate around the form, around a reference to it or    *)
(* around the question can hold, in no package of the section that an edit *)
(* may change and, for a form, in no other file: every kind of condition   *)
(* is made false for every value its question can take. The gates of the   *)
(* packages outside the resources are listed and stay as they are.         *)
UnlockOpens ==
  Accepted("unlock") =>
   /\ img'.bare = img.bare
   /\ \A x \in Range(gates_list(img', Ask.form, Ask.qid)) :
        \/ x.pkg \in Range(img'.bare) /\ x.pkg \notin Range(form_package_ranges(img'))
        \/ ~CanHold(x.pkg, x.gate.expr, SubSeq(x.pkg, x.gate.at + 1, x.gate.end - 1))

(* No call takes a form out of the listing, renames it or hides it, and a  *)
(* form that was asked for comes out of one scope that hid it.             *)
FormsKept ==
  LET Hiding(pkg, fid) == Cardinality({<<i, n>> \in (DOMAIN pkg) \X (DOMAIN pkg) :
            pkg[i].k = "FORM" /\ pkg[i].a = fid /\ n < i /\ pkg[n].k = "SUPPRESS" /\ CloseOf(pkg, n) > i})
  IN  /\ \A new \in {Range(collect_forms(img'))} : \A f \in Range(collect_forms(img)) : \E g \in new :
           g.set = f.set /\ g.id = f.id /\ g.title = f.title /\ (f.visible => g.visible)
      /\ Accepted("show") /\ Ask.form # 0 /\ img'.pkg # img.pkg =>
           Hiding(img'.pkg, Ask.form) < Hiding(img.pkg, Ask.form)

(* The tree of forms keeps every reference it showed, and has one from the *)
(* form to each target a request asked for: parse_ref and package_edges    *)
(* read what build_ref_ops wrote, also for a form of another form set.     *)
EdgesKept ==
  LET new == Range(collect_edges(img'))
  IN  /\ Range(collect_edges(img)) \subseteq new
      /\ Accepted("question") => \A n \in DOMAIN Ask.refs :
           \E e \in new : e.parent = Ask.form /\ e.form = Ask.refs[n].form /\ e.target = Ask.refs[n].set

(* The questions a form listed keep their ids, their texts unless they     *)
(* were hijacked, and their values unless values were written. A store     *)
(* declared under an id that another form set of the package uses is out   *)
(* of this: questions find the first store of the package.                 *)
RowsKept ==
  LET Stores(a) == IF last'.op = "question" THEN a.stores ELSE IF last'.op = "form" THEN a.schema.stores ELSE <<>>
      reused == \E v \in Range(Stores(Ask)) : \E w \in Range(varstore_map(img.pkg)) : v.id = w.id
  IN  \A f \in {g.id : g \in Range(collect_forms(img))} : \A new \in {Range(list_questions(img', f))} :
        \A r \in Range(list_questions(img, f)) : \E s \in new :
          /\ s.qid = r.qid
          /\ s.text = r.text \/ last'.op = "hijack"
          /\ s.value = r.value \/ last'.op \in {"value", "nvar"} \/ reused

(* A page keeps the controls it had, no form has two pages, and an added   *)
(* question is on the page of its form.                                    *)
PagesKept ==
  /\ \A n \in DOMAIN img.spf.pages : IsPrefix(img.spf.pages[n].ctrls, img'.spf.pages[n].ctrls)
  /\ \A n, m \in DOMAIN img'.spf.pages : img'.spf.pages[n].form = img'.spf.pages[m].form => n = m
  /\ Accepted("question") => \A k \in DOMAIN Ask.questions :
       \E c \in Range(img'.spf.pages[PageOf(img'.spf, Ask.form)].ctrls) :
         img'.spf.records[c].qid = Ask.questions[k].qid

(* No call puts a form into another form or under a GRAYOUT it was not in, *)
(* and a new form is in neither. The one exception is a form that shares   *)
(* its SUPPRESS with the form a call shows and is behind it: the scope     *)
(* find_form_suppress_scope returns ends with the form that was asked for, *)
(* whose END moves away, and what is behind it comes inside.               *)
Around(pkg, j) ==
  {<<pkg[i].k, pkg[i].a>> : i \in {n \in Range(OpenBefore(pkg, j, Depths(pkg))) : pkg[n].k \in {"FORM", "GRAYOUT"}}}
Forms(pkg) == {i \in DOMAIN pkg : pkg[i].k = "FORM"}
BehindShown(old, shown, fid) ==
  \E i, j \in Forms(old) : i < j /\ old[i].a = shown /\ old[j].a = fid
    /\ \E n \in Range(OpenBefore(old, i, Depths(old))) : old[n].k = "SUPPRESS" /\ CloseOf(old, n) > j
ApartIn(old, new) ==
  \A j \in Forms(new) :
    \/ \E i \in Forms(old) : old[i].a = new[j].a /\ Around(new, j) \subseteq Around(old, i)
    \/ (\A i \in Forms(old) : old[i].a # new[j].a) /\ Around(new, j) = {}
    \/ last'.op = "show" /\ BehindShown(old, Ask.form, new[j].a)
FormsApart ==
  \A n \in DOMAIN form_package_ranges(img') :
    \/ n \in DOMAIN form_package_ranges(img) /\ form_package_ranges(img)[n] = form_package_ranges(img')[n]
    \/ ApartIn(IF n \in DOMAIN form_package_ranges(img) THEN form_package_ranges(img)[n] ELSE <<>>, form_package_ranges(img')[n])

(* An unhide clears one entry, the one that was asked for, and changes no  *)
(* other entry of the table.                                               *)
UnhideExact ==
  Accepted("unhide") =>
   \E k \in DOMAIN img.tse.entries :
     /\ img.tse.entries[k] = [set |-> Ask.set, form |-> Ask.form]
     /\ img'.tse.entries = [img.tse.entries EXCEPT ![k] = Cleared]

(* A variable that was set has the new value in every store that can be    *)
(* packed again and holds it; a store behind a section that cannot is      *)
(* never touched, by no call.                                              *)
SetInEveryStore ==
  /\ \A n \in DOMAIN img.stores : img.stores[n].baked => img'.stores[n] = img.stores[n]
  /\ Accepted("nvar") => \A n \in DOMAIN img'.stores :
       LET body == img'.stores[n].body
           at   == find_var(body, Ask.name, Ask.guid).at + Ask.off
       IN  ~img'.stores[n].baked /\ is_nvar_body(body) /\ VarsNamed(body, Ask.name, Ask.guid) # <<>> =>
             Found(body, Ask.name, Ask.guid) /\ SubSeq(body, at, at + Ask.w - 1) = LeCells(Ask.v, Ask.w)

(* A value that was set is the value a get returns and a listing shows,    *)
(* and the values of the other questions stay.                             *)
SetThenGet ==
  Accepted("value") =>
   LET q == QuestionOf(img', Ask.form, Ask.qid)
   IN  /\ get_value(img'.stores, q) = [ok |-> TRUE, v |-> Ask.v]
       /\ question_info(img', Ask.form, Ask.qid).seed = Ask.v
       /\ \A f \in Range(collect_forms(img)) : \A r \in Range(list_questions(img, f.id)) :
            LET s == QuestionOf(img, f.id, r.qid).slot
            IN  s.width > 0 /\ (s.store = q.slot.store => ~Meets(s.off, s.width, q.slot.off, q.slot.width)) =>
                  question_info(img', f.id, r.qid).seed = r.value

(* A form set added to resources is listed with all its forms, if its      *)
(* opcodes state their lengths.                                            *)
FormSetListed ==
  Accepted("formset") /\ img.kind = "resource" /\ ~Overlong("formset", Ask) =>
   \A n \in DOMAIN Ask.forms : \E f \in Range(collect_forms(img')) :
     f.set = Ask.guid /\ f.id = Ask.forms[n].id /\ f.title = Ask.forms[n].title /\ f.visible

(* The vendor's records stay with their questions through every call that  *)
(* inserts opcodes or changes texts (fixup_selected_record_ifr_offsets,    *)
(* write_record_help_id).                                                  *)
RecordsInStep == [][RecordsFollow /\ HelpInStep']_vars

(* What an accepted call added is what every reader of the image then      *)
(* finds: in slots and with ids of its own, shown and exported as it was   *)
(* asked for, under no gate, in the listing.                               *)
AddedAsAsked ==
  [][AddedSlotsFree /\ ShownAsRequested /\ ExportShowsAdded /\ InsertNotGated /\ FormSetListed]_vars

(* What an accepted call was to open or to set is open or set, in every    *)
(* copy of it, and nothing beside it is (unlock, tse_unhide, set_value,    *)
(* nvar_set).                                                              *)
ChangedAsAsked == [][UnlockOpens /\ UnhideExact /\ SetInEveryStore /\ SetThenGet]_vars

(* No call takes away what it was not asked for: forms, references,        *)
(* questions with their texts and values, pages, the place of a form. Only *)
(* an accepted form with an opcode of more than 127 bytes takes its whole  *)
(* package out of sight.                                                   *)
OthersKept ==
  [][/\ PagesKept
     /\ \/ Accepted("form") /\ Overlong("form", Ask)
        \/ FormsKept /\ EdgesKept /\ RowsKept /\ FormsApart]_vars

(* A form that was exported and added again under another id exports the   *)
(* same items: what "round-trip" promises. It says nothing of forms with   *)
(* an action, a four byte number or a selection of more than a byte.       *)
Expressible(items) == \A n \in DOMAIN items :
  items[n].kind # "ACTION" /\ items[n].size # 4 /\ (items[n].kind = "ONEOF" => items[n].size = 1)
RoundTrips(items) ==
  LET id == Ask.schema.forms[1].id
  IN  locate_form(img.pkg, id) = NoForm => collect_items(img'.pkg, id, parse_string_package(img'.strs)) = items
ReimportKeepsItems ==
  [][Accepted("form") /\ Plain(img.strs) /\ "parent" \in DOMAIN Ask.schema /\ Expressible(Ask.schema.forms[1].items) =>
       RoundTrips(Ask.schema.forms[1].items)]_vars

(* docs/superpowers/specs/2026-09-19-hii-form-export-design.md: "Fidelity  *)
(* = round-trip". Every exported form comes back from form add as it was.  *)
ExportRoundTrips ==
  [][Accepted("form") /\ Plain(img.strs) /\ "parent" \in DOMAIN Ask.schema => RoundTrips(Ask.schema.forms[1].items)]_vars
=============================================================================
