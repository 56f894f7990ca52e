----------------------------- MODULE FormPackage -----------------------------
(* Form packages: the file that `hii form export` writes and `hii import`   *)
(* reads (envelope.rs), and the import itself, a sequence of engine calls   *)
(* made by a client: look at the forms and questions, look at the stores,   *)
(* add the forms, add references to them. Several clients may import into   *)
(* one form set at the same time. The engine is what HiiOps says of         *)
(* add_form and hii_question_add.                                           *)
EXTENDS Integers, Sequences, SequencesExt, FiniteSets

CONSTANTS Importers,     \* clients that run `hii import`
          Files,         \* package files they import
          Target,        \* the form set they import into
          FirstImage,    \* the image before
          HighQid,       \* 0x7F00
          TopQid,        \* 0xFFFF
          MaxImports

IsSeq(s) == s \in Seq(Range(s))
ShapeOf(img) == [forms |-> img.forms, asks |-> img.asks, refs |-> img.refs, stores |-> img.stores]
BodyOK(body) == IsSeq(body.forms) /\ \A d \in Range(body.forms) : d.qids \subseteq 0..TopQid

FileOK(f) ==
  /\ f.json \in BOOLEAN /\ f.object \in BOOLEAN /\ f.formset \in BOOLEAN
  /\ f.meta \in {"none", "ok", "bad"} /\ f.refs \in {"none", "array", "object", "bad"}
  /\ IsSeq(f.section.entries) /\ BodyOK(f.body)

(* Question ids are of 16 bits. *)
ASSUME PackageAssumption ==
  /\ TopQid \in Nat /\ HighQid \in 0..TopQid
  /\ \A f \in Files : FileOK(f)
  /\ FirstImage = ShapeOf(FirstImage) /\ IsSeq(FirstImage.refs) /\ \A a \in FirstImage.asks : a.qid \in 0..TopQid

(* A file  [json, object, meta, source, refs, section, formset, body]:      *)
(*   meta "none", "ok" or "bad"; refs "none", "array", "object" or "bad",   *)
(*   its section [parent, entries] with entries [form, set, qid], 0 and     *)
(*   Here: absent;                                                           *)
(*   body [forms, stores], forms [id, qids], stores [id, def].              *)
(* An image  [forms, asks, refs, stores]: forms [set, id], questions        *)
(*   [form, qid] and stores [id, def] of the target, references             *)
(*   [parent, qid, form, set].                                              *)
VARIABLES image, importer, runs

fpvars == <<image, importer, runs>>

Here == "here"    \* a reference that names no form set
NoBody == [forms |-> <<>>, stores |-> <<>>]
NoRefs == [parent |-> 0, entries |-> <<>>]
Envelope(kind, refs, body) == [kind |-> kind, refs |-> refs, body |-> body]
BadEnvelope == Envelope("bad", NoRefs, NoBody)
Begun(env, at, out) == [at |-> at, env |-> env, seen |-> FirstImage, busy |-> {}, body |-> NoBody,
                        inserted |-> <<>>, plan |-> <<>>, planned |-> TRUE, added |-> FALSE, out |-> out]
Resting == Begun(BadEnvelope, "idle", "none")

(***************************************************************************)
(* envelope.rs                                                             *)
(***************************************************************************)
(* An envelope is "bare" (the file as it is), "forms", "both" or "refs".    *)
(* Only references: each with the form it leads to. *)
refs_only(f) ==
  IF f.refs # "object" \/ f.section.entries = <<>> \/ \E e \in Range(f.section.entries) : e.form = 0 THEN BadEnvelope
  ELSE Envelope("refs", f.section, NoBody)

(* A file without meta and without a refs object goes through as it is. *)
split_envelope(f) ==
  CASE ~f.json -> BadEnvelope
    [] f.json /\ (~f.object \/ (f.meta = "none" /\ f.refs \in {"none", "array"})) -> Envelope("bare", NoRefs, f.body)
    [] f.json /\ f.object /\ f.meta = "bad" -> BadEnvelope
    [] f.json /\ f.object /\ f.meta = "none" /\ f.refs \in {"object", "bad"} ->
         IF ~f.formset THEN refs_only(f)
         ELSE IF f.refs = "bad" THEN BadEnvelope ELSE Envelope("both", f.section, f.body)
    [] f.json /\ f.object /\ f.meta = "ok" ->
         IF f.refs \in {"bad", "array"} THEN BadEnvelope
         ELSE IF f.formset THEN IF f.refs = "none" THEN Envelope("forms", NoRefs, f.body) ELSE Envelope("both", f.section, f.body)
         ELSE IF f.refs = "none" THEN BadEnvelope ELSE refs_only(f)

(* `hii form add` takes no package. *)
ensure_bare_schema(f) == ~f.json \/ split_envelope(f).kind = "bare"

(* A store the form set has is left out (the others keep their places);    *)
(* another definition of its id is a conflict.                              *)
plan_varstores(body, stores) ==
  LET Clash(d) == \E t \in stores : t.id = d.id /\ t # d
      kept     == {n \in DOMAIN body.stores : body.stores[n] \notin stores}
  IN  [ok |-> ~\E d \in Range(body.stores) : Clash(d),
       body |-> [forms |-> body.forms, stores |-> Restrict(body.stores, kept)]]

next_qid(busy) ==
  IF busy = {} THEN HighQid
  ELSE LET m == CHOOSE x \in busy : \A y \in busy : y <= x
           n == IF m = TopQid THEN TopQid ELSE m + 1
       IN  IF n < HighQid THEN HighQid ELSE n

(* One reference per entry, one for the new form if there is none; every   *)
(* entry without an id gets the same next one. Without a form to lead to    *)
(* there is no plan.                                                        *)
plan_ref_step(refs, inserted, busy) ==
  LET entries == IF refs.entries = <<>> THEN <<[form |-> 0, set |-> Here, qid |-> 0]>> ELSE refs.entries
  IN  [ok |-> inserted # <<>> \/ \A e \in Range(entries) : e.form # 0,
       records |-> [n \in DOMAIN entries |->
         [parent |-> refs.parent, set |-> entries[n].set,
          qid    |-> IF entries[n].qid = 0 THEN next_qid(busy) ELSE entries[n].qid,
          form   |-> IF entries[n].form # 0 THEN entries[n].form ELSE IF inserted = <<>> THEN 0 ELSE inserted[1]]]]

(* refs_from_parent and wrap_export: the references that lead to the form,  *)
(* without their ids, if they are all in one form.                          *)
wrap_export(img, form) ==
  LET ups     == {n \in DOMAIN img.refs : img.refs[n].form = form /\ img.refs[n].set = Here}
      parents == {img.refs[n].parent : n \in ups}
      one     == \E x \in parents : parents = {x}
  IN  [json |-> TRUE, object |-> TRUE, meta |-> "ok", source |-> Target, formset |-> TRUE,
       refs    |-> IF one THEN "object" ELSE "none",
       section |-> IF ~one THEN NoRefs
                   ELSE [parent |-> CHOOSE x \in parents : TRUE, entries |-> [n \in 1..Cardinality(ups) |-> [form |-> 0, set |-> Here, qid |-> 0]]],
       body    |-> [forms  |-> <<[id |-> form, qids |-> {q.qid : q \in {a \in img.asks : a.form = form}}]>>,
                    stores |-> SetToSeq(img.stores)]]

(***************************************************************************)
(* Checks before anything is changed.                                      *)
(***************************************************************************)
check_parent(forms, refs) == [set |-> Target, id |-> refs.parent] \in forms

(* Mutant: ids of the package are not compared with those of the parent. *)
check_qids_none(refs, busy) == TRUE

check_qids(refs, busy) == \A e \in Range(refs.entries) : e.qid = 0 \/ e.qid \notin busy

check_targets(forms, refs) ==
  \A e \in Range(refs.entries) : e.form # 0 => [set |-> IF e.set = Here THEN Target ELSE e.set, id |-> e.form] \in forms

(***************************************************************************)
(* The engine.                                                             *)
(***************************************************************************)
StoresFit(img, body) ==
  /\ \A d \in Range(body.stores) : \A t \in img.stores : t.id # d.id
  /\ \A m, n \in DOMAIN body.stores : body.stores[m].id = body.stores[n].id => m = n

WithForms(img, body) ==
  [img EXCEPT !.forms = @ \cup {[set |-> Target, id |-> f.id] : f \in Range(body.forms)},
              !.asks = @ \cup UNION {{[form |-> f.id, qid |-> q] : q \in f.qids} : f \in Range(body.forms)},
              !.stores = @ \cup Range(body.stores)]

(* The form a reference leads to is there, and its id, unless 0, is new to  *)
(* the form set and to the request.                                         *)
validate_ref_target(img, r) == [set |-> IF r.set = Here THEN Target ELSE r.set, id |-> r.form] \in img.forms

check_ref_slots(img, records, n) ==
  records[n].qid # 0 => /\ \A a \in img.asks : a.qid # records[n].qid
                        /\ \A m \in 1..(n - 1) : records[m].qid # records[n].qid

RefFits(img, records, n) == validate_ref_target(img, records[n]) /\ check_ref_slots(img, records, n)

(* `hii form add`: what is no package goes to the engine, which reads it;  *)
(* the stores are not compared before.                                     *)
FormAddCommand(p, f) ==
  /\ importer[p].at = "idle" /\ runs < MaxImports /\ runs' = runs + 1
  /\ importer' = [importer EXCEPT ![p] =
       IF ensure_bare_schema(f) /\ f.json
       THEN [Begun(split_envelope(f), "add", "none") EXCEPT !.body = f.body, !.seen = image, !.planned = FALSE]
       ELSE Begun(BadEnvelope, "idle", "refused")]
  /\ UNCHANGED image

(***************************************************************************)
(* hii import, one engine call at a time.                                  *)
(***************************************************************************)
Stop(p, out) == importer' = [importer EXCEPT ![p] = [@ EXCEPT !.at = "idle", !.out = out]]
HasRefs(p) == importer[p].env.kind \in {"both", "refs"}
HasBody(p) == importer[p].env.kind # "refs"

BeginImport(p, f) ==
  /\ importer[p].at = "idle" /\ runs < MaxImports /\ runs' = runs + 1
  /\ LET env == split_envelope(f)
     IN  importer' = [importer EXCEPT ![p] = CASE env.kind = "bad" -> Begun(env, "idle", "refused")
                                               [] env.kind \in {"both", "refs"} -> Begun(env, "forms", "none")
                                               [] OTHER -> Begun(env, "stores", "none")]
  /\ UNCHANGED image

ImportExported(p) == \E f \in image.forms : f.set = Target /\ BeginImport(p, wrap_export(image, f.id))

ListForms(p) ==
  /\ importer[p].at = "forms"
  /\ IF check_parent(image.forms, importer[p].env.refs)
     THEN importer' = [importer EXCEPT ![p] = [@ EXCEPT !.at = "questions", !.seen = image]]
     ELSE Stop(p, "refused")
  /\ UNCHANGED <<image, runs>>

(* The questions of the parent; references are not among them. *)
ListQuestions(p) ==
  LET refs == importer[p].env.refs
      busy == {a.qid : a \in {x \in image.asks : x.form = refs.parent}}
  IN  /\ importer[p].at = "questions"
      /\ IF check_qids(refs, busy) /\ check_targets(importer[p].seen.forms, refs)
         THEN importer' = [importer EXCEPT ![p] = [@ EXCEPT !.busy = busy, !.at = IF HasBody(p) THEN "stores" ELSE "refs"]]
         ELSE Stop(p, "refused")
      /\ UNCHANGED <<image, runs>>

ListStores(p) ==
  LET plan == plan_varstores(importer[p].env.body, image.stores)
  IN  /\ importer[p].at = "stores"
      /\ IF plan.ok THEN importer' = [importer EXCEPT ![p] = [@ EXCEPT !.at = "add", !.body = plan.body, !.seen = image]]
         ELSE Stop(p, "refused")
      /\ UNCHANGED <<image, runs>>

(* Any of the calls that only look may fail. *)
LookFails(p) == importer[p].at \in {"forms", "questions", "stores"} /\ Stop(p, "refused") /\ UNCHANGED <<image, runs>>

(* An error ends the import here; the engine has then changed nothing. *)
FormAdd(p) ==
  LET body == importer[p].body
  IN  /\ importer[p].at = "add"
      /\ \/ /\ StoresFit(image, body) /\ image' = WithForms(image, body)
            /\ importer' = [importer EXCEPT ![p] =
                 [@ EXCEPT !.inserted = [n \in DOMAIN body.forms |-> body.forms[n].id], !.added = TRUE,
                           !.at = IF HasRefs(p) THEN "refs" ELSE "idle", !.out = IF HasRefs(p) THEN "none" ELSE "imported"]]
         \/ ~StoresFit(image, body) /\ Stop(p, "stores_refused") /\ UNCHANGED image
         \/ Stop(p, "refused") /\ UNCHANGED image
      /\ UNCHANGED runs

(* An error is only reported: what was added stays. The engine may also     *)
(* refuse for reasons of its own (its $SPF records, room in the resource).  *)
RefStep(p) ==
  LET plan == plan_ref_step(importer[p].env.refs, importer[p].inserted, importer[p].busy)
      Done(out) == importer' = [importer EXCEPT ![p] = [@ EXCEPT !.at = "idle", !.out = out, !.plan = plan.records, !.seen = image]]
  IN  /\ importer[p].at = "refs"
      /\ \/ /\ ~plan.ok /\ Done("no_form") /\ UNCHANGED image
         \/ /\ plan.ok /\ \A n \in DOMAIN plan.records : RefFits(image, plan.records, n)
            /\ image' = [image EXCEPT !.refs = @ \o plan.records]
            /\ Done("imported")
         \/ /\ plan.ok /\ \E n \in DOMAIN plan.records : ~RefFits(image, plan.records, n)
            /\ Done("ref_refused") /\ UNCHANGED image
         \/ /\ plan.ok /\ Done("ref_failed") /\ UNCHANGED image
      /\ UNCHANGED runs

FPInit == image = FirstImage /\ importer = [p \in Importers |-> Resting] /\ runs = 0

FPNext ==
  \E p \in Importers :
    \/ (\E f \in Files : BeginImport(p, f) \/ FormAddCommand(p, f)) \/ ImportExported(p)
    \/ ListForms(p) \/ ListQuestions(p) \/ ListStores(p) \/ LookFails(p) \/ FormAdd(p) \/ RefStep(p)

FPSpec == FPInit /\ [][FPNext]_fpvars

(***************************************************************************)
(* Properties.                                                             *)
(***************************************************************************)
Rests(p, out) == importer[p].at = "idle" /\ importer[p].out = out

(* An import that ends with an error has added nothing; only a failing     *)
(* reference step, which is reported and not an error, leaves the forms.   *)
RefusedImportsNothing == \A p \in Importers : Rests(p, "refused") \/ Rests(p, "stores_refused") => ~importer[p].added

(* The checks before the first change foresee the engine's answer: when    *)
(* the reference step is refused all the same, two entries of the plan      *)
(* have one id, an entry leads to the new form but names a form set, a      *)
(* question with the id is in a form other than the parent or came to it    *)
(* after the check, or the ids are used up.                                 *)
RefRefusalForeseen ==
  \A p \in Importers : Rests(p, "ref_refused") =>
    LET plan == importer[p].plan
        busy == importer[p].busy
    IN  \/ \E m, n \in DOMAIN plan : m # n /\ plan[m].qid = plan[n].qid
        \/ \E e \in Range(importer[p].env.refs.entries) : e.form = 0 /\ e.set # Here
        \/ \E n \in DOMAIN plan, a \in importer[p].seen.asks : a.qid = plan[n].qid /\ (a.form # plan[n].parent \/ a.qid \notin busy)
        \/ \E n \in DOMAIN plan : plan[n].qid = TopQid /\ TopQid \in busy

(* The stores of a package never make the engine refuse its forms, unless  *)
(* the package declares an id twice or another client added it meanwhile.  *)
PlannedStoresAccepted ==
  \A p \in Importers : Rests(p, "stores_refused") /\ importer[p].planned =>
    \/ \E m, n \in DOMAIN importer[p].body.stores : m # n /\ importer[p].body.stores[m].id = importer[p].body.stores[n].id
    \/ \E d \in Range(importer[p].body.stores), t \in image.stores : t.id = d.id /\ t \notin importer[p].seen.stores

(* An import that will not go through is refused before it changes the      *)
(* image, but for the races and repeated ids named above.                   *)
ImportsForeseen == RefusedImportsNothing /\ RefRefusalForeseen /\ PlannedStoresAccepted

(***************************************************************************)
(* What the steps preserve.                                                *)
(***************************************************************************)
ImageOK == image = ShapeOf(image) /\ IsSeq(image.refs) /\ \A a \in image.asks : a.qid \in 0..TopQid

RecordOK(r) ==
  r = [at |-> r.at, env |-> r.env, seen |-> r.seen, busy |-> r.busy, body |-> r.body, inserted |-> r.inserted,
       plan |-> r.plan, planned |-> r.planned, added |-> r.added, out |-> r.out]

PackageTypeOK ==
  /\ ImageOK /\ DOMAIN importer = Importers
  /\ \A p \in Importers : /\ RecordOK(importer[p]) /\ BodyOK(importer[p].env.body) /\ IsSeq(importer[p].env.refs.entries)
                          /\ BodyOK(importer[p].body) /\ IsSeq(importer[p].inserted) /\ importer[p].busy \subseteq 0..TopQid

Is(p, labels) == importer[p].at \in labels

(* Nothing is added before the forms are. *)
AddedLate == \A p \in Importers : Is(p, {"forms", "questions", "stores", "add"}) => ~importer[p].added /\ importer[p].inserted = <<>>

(* What the checks have found stays so: forms are never taken away. *)
ChecksHold ==
  \A p \in Importers :
    /\ Is(p, {"questions"}) => importer[p].seen.forms \subseteq image.forms
    /\ Is(p, {"stores", "add", "refs"}) /\ HasRefs(p) =>
         check_qids(importer[p].env.refs, importer[p].busy) /\ check_targets(image.forms, importer[p].env.refs)
    /\ Is(p, {"refs"}) => /\ HasRefs(p)
                          /\ \A id \in Range(importer[p].inserted) : [set |-> Target, id |-> id] \in image.forms

(* Of the stores that are left in the body none had its id taken. *)
PlanHolds ==
  \A p \in Importers : Is(p, {"add"}) /\ importer[p].planned =>
    \A d \in Range(importer[p].body.stores), t \in importer[p].seen.stores : t.id # d.id

FPInv == PackageTypeOK /\ AddedLate /\ ChecksHold /\ PlanHolds /\ ImportsForeseen
==============================================================================
