------------------------------- MODULE TuiApp -------------------------------
(* The terminal client (uefi-tui): what it shows (node tree, registry, forms *)
(* and NVRAM panes), what it remembers (active image, session, state file)   *)
(* and the commands and keys that change these, over an engine that other    *)
(* clients use as well. Every command is one step, as the event loop runs    *)
(* it; each of its calls may fail where the code returns or ignores the      *)
(* error. Scroll offsets, the help overlay and the wording of the status     *)
(* line are left out; the line editor is the module CommandLine.             *)
EXTENDS FormRows

CONSTANTS Library,     \* the contents an image can have, by number
          File,        \* the content of the file that is opened or uploaded
          MaxImages, MaxSessions, MaxArtifacts,  \* bounds on what is created
          MaxFaults    \* bound on calls that fail for a reason outside the client

ASSUME LibraryAssumption ==
  /\ File \in DOMAIN Library /\ 0 \notin DOMAIN Library
  /\ MaxImages \in Nat /\ MaxSessions \in Nat /\ MaxFaults \in Nat
  /\ \A c \in DOMAIN Library : \A key \in DOMAIN Library[c].asks : Library[c].asks[key] \in Seq(Nat \ {0})

(* What the engine lists are sequences, and the nodes come in pre-order. *)
ASSUME ListingAssumption ==
  \A c \in DOMAIN Library :
    /\ Library[c].forms \in Seq(Range(Library[c].forms)) /\ Library[c].edges \in Seq(Range(Library[c].edges))
    /\ Library[c].tree \in Seq(Range(Library[c].tree))
    /\ \A i, j \in DOMAIN Library[c].tree : IsStrictPrefix(Library[c].tree[i].path, Library[c].tree[j].path) => i < j
    /\ Library[c].strings \in Nat /\ Library[c].stores \in Nat

VARIABLES engine,      \* sessions, images, snapshots and artifacts of the engine
          client,      \* client.state: session and active image
          disk,        \* the state file
          app,         \* struct App
          note         \* what has happened, for the properties

vars == <<engine, client, disk, app, note>>

Contents == DOMAIN Library
Images == 1..MaxImages
Sessions == 1..MaxSessions
NoPath == <<-1>>

S == [engine |-> engine, client |-> client, disk |-> disk, app |-> app, note |-> note]

(* A state with one part of it changed. *)
SetEngine(s, e) == [s EXCEPT !.engine = e]
SetImage(s, i, im) == SetEngine(s, [s.engine EXCEPT !.img = [@ EXCEPT ![i] = im]])
SetContent(s, i, c) == SetImage(s, i, [s.engine.img[i] EXCEPT !.content = c])
SetSession(s, n) == [s EXCEPT !.client = [@ EXCEPT !.sess = n]]
SetApp(s, a) == [s EXCEPT !.app = a]
SetTree(s, t) == SetApp(s, [s.app EXCEPT !.tree = t])
SetForms(s, f) == SetApp(s, [s.app EXCEPT !.forms = f])
SetPane(s, p) == SetApp(s, [s.app EXCEPT !.nvar = p])
SetView(s, v) == SetApp(s, [s.app EXCEPT !.view = v])
Loaded(s) == SetApp(s, [s.app EXCEPT !.loaded = TRUE])
Noted(s, n) == [s EXCEPT !.note = n]
FormsNoted(s, stale) == Noted(s, [s.note EXCEPT !.forms = stale])
PaneNoted(s, stale) == Noted(s, [s.note EXCEPT !.pane = stale])
UploadNoted(s, unlisted) == Noted(s, [s.note EXCEPT !.upload = unlisted])
Unsaved(s, un) == Noted(s, [s.note EXCEPT !.unsaved = un])
Stale(s) == Noted(s, [s.note EXCEPT !.forms = TRUE, !.pane = TRUE])

(***************************************************************************)
(* A call has a set of outcomes: a state, whether an error is returned, a  *)
(* value. Then is the operator ?, After is "let _ =".                      *)
(***************************************************************************)
Ok(s, v) == {[s |-> s, err |-> "no", val |-> v]}
Err(s) == {[s |-> s, err |-> "error", val |-> 0]}
Fault(s) == IF s.note.faults < MaxFaults THEN Err(Noted(s, [s.note EXCEPT !.faults = @ + 1])) ELSE {}
Gone(s) == {[s |-> s, err |-> "no_session", val |-> 0]}
Then(R, F(_)) == UNION {IF r.err = "no" THEN F(r) ELSE {r} : r \in R}
After(R, F(_)) == UNION {F(r) : r \in R}

Become(R) == \E r \in R :
  /\ engine' = r.s.engine /\ client' = r.s.client /\ disk' = r.s.disk
  /\ app' = r.s.app /\ note' = r.s.note

(***************************************************************************)
(* The engine, as its clients see it.                                      *)
(***************************************************************************)
NoImage == [st |-> "new", sess |-> 0, write |-> FALSE, content |-> 0, upload |-> FALSE]
Closed == [NoImage EXCEPT !.st = "gone"]

Live(s, i) == i \in Images /\ s.engine.img[i].st = "live"

LeastNew(f) ==
  LET new == {i \in DOMAIN f : f[i].st = "new"}
  IN  IF new = {} THEN {} ELSE {CHOOSE i \in new : \A j \in new : i <= j}

session_create(s) ==
  Fault(s) \cup UNION {Ok(SetEngine(s, [s.engine EXCEPT !.sess = [@ EXCEPT ![n] = [st |-> "live"]]]), n) : n \in LeastNew(s.engine.sess)}

(* ImageOpen or ImageUpload: the session is looked up first. *)
image_open(s, write, upload) ==
  IF s.client.sess \notin Sessions \/ s.engine.sess[s.client.sess].st # "live" THEN Gone(s)
  ELSE Fault(s) \cup
       UNION {Ok(SetImage(s, i, [st |-> "live", sess |-> s.client.sess, write |-> write,
                                 content |-> File, upload |-> upload]), i)
              : i \in LeastNew(s.engine.img)}

artifact_import(s) ==
  IF s.client.sess \notin Sessions \/ s.engine.sess[s.client.sess].st # "live" THEN Gone(s)
  ELSE Fault(s) \cup (IF s.engine.arts < MaxArtifacts THEN Ok(SetEngine(s, [s.engine EXCEPT !.arts = @ + 1]), 0) ELSE {})

Dropped(s, i) == SetEngine(s, [s.engine EXCEPT !.img = [@ EXCEPT ![i] = Closed], !.snap = [@ EXCEPT ![i] = 0]])

image_close(s, i) == IF Live(s, i) THEN Fault(s) \cup Ok(Dropped(s, i), 0) ELSE Err(s)

(* Any call that reads image i: it answers with the image's content. *)
fetch(s, i) == IF Live(s, i) THEN Fault(s) \cup Ok(s, s.engine.img[i].content) ELSE Err(s)

(* Any call that edits image i. An error may come from the flush, after    *)
(* the edit was made; gated calls need an image opened for writing.        *)
edit(s, i, gated) ==
  IF Live(s, i) /\ (gated => s.engine.img[i].write)
  THEN UNION {LET t == Stale(SetContent(s, i, c)) IN Ok(t, c) \cup Fault(t) : c \in Contents}
  ELSE Err(s)

(***************************************************************************)
(* Session and state file.                                                 *)
(***************************************************************************)
write_state(s) ==
  Ok(Unsaved([s EXCEPT !.disk = s.client], FALSE), 0) \cup Fault(Unsaved(s, TRUE))

create_and_persist_session(s) ==
  Then(session_create(s), LAMBDA r : write_state(SetSession(r.s, r.val)))

ensure_session(s) == IF s.client.sess = 0 THEN create_and_persist_session(s) ELSE Ok(s, 0)

(* A call that is repeated once in a new session when the old one is gone. *)
in_session(s, Call(_)) ==
  Then(ensure_session(s), LAMBDA r :
    UNION {IF q.err = "no_session"
           THEN Then(create_and_persist_session(Unsaved(SetSession(q.s, 0), TRUE)), LAMBDA p : Call(p.s))
           ELSE {q} : q \in Call(r.s)})

persist_state_best_effort(s) == After(write_state(s), LAMBDA r : Ok(r.s, 0))

(* Mutant: the client's copy of the active image is forgotten. *)
SetActive_app(s, i) == SetApp(s, [s.app EXCEPT !.active = i])

SetActive(s, i) == [s EXCEPT !.app = [@ EXCEPT !.active = i], !.client = [@ EXCEPT !.active = i]]

(***************************************************************************)
(* The node tree.                                                          *)
(***************************************************************************)
NoTree == [of |-> 0, content |-> 0, expanded |-> {}, cursor |-> 0]

build_tree(i, c) == [of |-> i, content |-> c, expanded |-> {<<>>}, cursor |-> 0]

Nodes(t) == IF t.content = 0 THEN <<>> ELSE Library[t.content].tree

(* The nodes with nothing closed above them. *)
visible_rows(t) ==
  LET closed == {m.path : m \in Range(Nodes(t))} \ t.expanded
  IN  Keep(Nodes(t), LAMBDA n : \A p \in closed : ~IsStrictPrefix(p, n.path))

has_children(t, p) == \E n \in Range(Nodes(t)) : IsStrictPrefix(p, n.path)

selected(t) ==
  LET rows == visible_rows(t)
  IN  IF t.cursor < Len(rows) THEN rows[t.cursor + 1] ELSE [path |-> NoPath, nvar |-> FALSE]

sanitize_cursor(t) == [t EXCEPT !.cursor = Clamp(@, Len(visible_rows(t)))]

(* Mutant: the cursor keeps its row number. *)
refresh_tree_by_number(s) ==
  IF s.client.active = 0 THEN Err(s)
  ELSE Then(fetch(s, s.client.active), LAMBDA r :
         Ok(SetTree(r.s, [build_tree(s.client.active, r.val) EXCEPT !.cursor = s.app.tree.cursor]), 0))

refresh_tree(s) ==
  IF s.client.active = 0 THEN Err(s)
  ELSE Then(fetch(s, s.client.active), LAMBDA r :
         LET old == s.app.tree
             new == build_tree(s.client.active, r.val)
             t   == [new EXCEPT !.cursor = old.cursor,
                                !.expanded = @ \cup {p \in old.expanded : \E n \in Range(Nodes(new)) : n.path = p}]
             was == selected(old).path
             at  == Position(visible_rows(t), LAMBDA n : n.path = was)
         IN  Ok(SetTree(r.s, IF at # -1 THEN [t EXCEPT !.cursor = at] ELSE sanitize_cursor(t)), 0))

goto_path(t, p) ==
  LET opened == [t EXCEPT !.expanded = @ \cup {n.path : n \in {m \in Range(Nodes(t)) : IsStrictPrefix(m.path, p)}}]
  IN  [opened EXCEPT !.cursor = Position(visible_rows(opened), LAMBDA n : n.path = p)]

HasNode(t, p) == \E n \in Range(Nodes(t)) : n.path = p

set_expand_selected(t, expand) ==
  LET p == selected(t).path
  IN  IF ~has_children(t, p) THEN t
      ELSE [t EXCEPT !.expanded = IF expand THEN @ \cup {p} ELSE @ \ {p}]

(***************************************************************************)
(* The registry: images of the session by id, then its artifacts.          *)
(***************************************************************************)
registry_selectable(reg) ==
  LET own == Keep([i \in Images |-> i], LAMBDA i : i \in DOMAIN reg.images)
  IN  [k \in DOMAIN own |-> [kind |-> "image", id |-> own[k]]]
      \o [i \in 1..reg.arts |-> [kind |-> "artifact", id |-> i]]

refresh_registry(s) ==
  IF s.client.sess = 0 THEN Err(s)
  ELSE LET own == {i \in Images : Live(s, i) /\ s.engine.img[i].sess = s.client.sess}
           reg == [images |-> [i \in own |-> [write |-> s.engine.img[i].write, upload |-> s.engine.img[i].upload]],
                   arts   |-> IF s.engine.sess[s.client.sess].st = "live" THEN s.engine.arts ELSE 0,
                   cursor |-> s.app.reg.cursor]
       IN  Fault(s) \cup
           Ok(SetApp(s, [s.app EXCEPT !.reg =
                           IF reg.cursor < Len(registry_selectable(reg)) THEN reg ELSE [reg EXCEPT !.cursor = 0]]), 0)

current_registry_row(s) ==
  LET rows == registry_selectable(s.app.reg)
  IN  IF s.app.reg.cursor < Len(rows) THEN rows[s.app.reg.cursor + 1] ELSE [kind |-> "no row", id |-> 0]

(***************************************************************************)
(* The forms view. Each cache remembers the image and the content it was   *)
(* fetched from: <<image, content>>, <<0, 0>> when it is empty.            *)
(***************************************************************************)
Nowhere == <<0, 0>>

NoForms ==
  [from |-> Nowhere, forms |-> <<>>, edges |-> <<>>, flat |-> FALSE, expanded |-> {}, cursor |-> 0,
   focus |-> "List", qkey |-> NoKey, qfrom |-> Nowhere, qcursor |-> 0,
   info |-> <<NoKey, 0, Nowhere>>, value |-> <<NoKey, 0, Nowhere>>,
   strings |-> Nowhere, filter |-> FALSE, scursor |-> 0, showS |-> FALSE,
   stores |-> Nowhere, vtarget |-> NoSet, vcursor |-> 0, showV |-> FALSE]

(* The functions of the forms view take app.active, or else client.active. *)
FormsImage(s) == IF s.app.active # 0 THEN s.app.active ELSE s.client.active

forms_fetch(s) == IF FormsImage(s) = 0 THEN Err(s) ELSE fetch(s, FormsImage(s))

(* Mutant: the caches of questions outlive the list they belong to. *)
refresh_forms_kept(s) ==
  Then(forms_fetch(s), LAMBDA r : Then(forms_fetch(r.s), LAMBDA q :
    LET forms == Library[q.val].forms
        edges == Library[q.val].edges
    IN  Ok(FormsNoted(SetForms(q.s,
              [s.app.forms EXCEPT !.from = <<FormsImage(s), q.val>>, !.forms = forms, !.edges = edges,
                                  !.expanded = all_row_keys(forms, edges), !.cursor = 0]), FALSE), 0)))

(* Entering the view: forms and edges are fetched by two calls, and        *)
(* everything but the mode, the focus and the question cursor is reset.    *)
refresh_forms(s) ==
  Then(forms_fetch(s), LAMBDA r : Then(forms_fetch(r.s), LAMBDA q :
    LET forms == Library[q.val].forms
        edges == Library[q.val].edges
    IN  Ok(FormsNoted(SetForms(q.s,
              [NoForms EXCEPT !.from = <<FormsImage(s), q.val>>, !.forms = forms, !.edges = edges,
                              !.expanded = all_row_keys(forms, edges), !.flat = s.app.forms.flat,
                              !.focus = s.app.forms.focus, !.qcursor = s.app.forms.qcursor]), FALSE), 0)))

(* After an edit: expansion, selection (by key) and the strings browser    *)
(* are kept.                                                               *)
Reselected(new, rows, key) ==
  LET at == Position(rows, LAMBDA row : key # NoKey /\ row.kind = "form" /\ FormKey(row) = key)
  IN  [new EXCEPT !.cursor = IF at # -1 THEN at ELSE Clamp(@, Len(rows))]

Reloaded(new, key) == Reselected(new, forms_rows(new), key)

reload_forms(s) ==
  Then(forms_fetch(s), LAMBDA r : Then(forms_fetch(r.s), LAMBDA q :
    Ok(FormsNoted(SetForms(q.s,
          Reloaded([s.app.forms EXCEPT !.from = <<FormsImage(s), q.val>>,
                       !.forms = Library[q.val].forms, !.edges = Library[q.val].edges,
                       !.qkey = NoKey, !.qfrom = Nowhere, !.qcursor = 0,
                       !.info = NoForms.info, !.value = NoForms.value, !.vtarget = NoSet],
                   selected_form_key(s.app.forms))), FALSE), 0)))

Asked(from, key) == IF from = Nowhere THEN <<>> ELSE Library[from[2]].asks[key]

(* Questions of the selected form, once per key; the gates that are asked  *)
(* for with them are drawn only.                                           *)
DetailsOf(s, key) ==
  IF key = NoKey \/ s.app.forms.qkey = key THEN Ok(s, 0)
  ELSE Then(forms_fetch(s), LAMBDA r :
         IF key \notin DOMAIN Library[r.val].asks THEN Err(r.s)
         ELSE Ok(SetForms(r.s, [s.app.forms EXCEPT !.qkey = key, !.qfrom = <<FormsImage(s), r.val>>,
                                                   !.qcursor = 0, !.info = NoForms.info]), 0))

refresh_form_details_if_needed(s) == DetailsOf(s, selected_form_key(s.app.forms))

(* The question under the cursor, if the questions are the selected form's. *)
QuestionAt(f, key) ==
  IF key # NoKey /\ f.qkey = key /\ f.qcursor < Len(Asked(f.qfrom, f.qkey))
  THEN Asked(f.qfrom, f.qkey)[f.qcursor + 1] ELSE 0

selected_question_id(f) == QuestionAt(f, selected_form_key(f))

InfoOf(s, key) ==
  LET qid == QuestionAt(s.app.forms, key)
      have == s.app.forms.info
  IN  IF key = NoKey THEN Ok(s, 0)
      ELSE IF qid = 0 THEN Ok(SetForms(s, [s.app.forms EXCEPT !.info = NoForms.info]), 0)
      ELSE IF <<have[1], have[2]>> = <<key, qid>> THEN Ok(s, 0)
      ELSE Then(forms_fetch(s), LAMBDA r :
             Ok(SetForms(r.s, [s.app.forms EXCEPT !.info = <<key, qid, <<FormsImage(s), r.val>>>>]), 0))

refresh_question_info_if_needed(s) == InfoOf(s, selected_form_key(s.app.forms))

CurrentValueOf(s, key) ==
  LET qid == QuestionAt(s.app.forms, key)
      have == s.app.forms.value
  IN  IF key = NoKey THEN Ok(s, 0)
      ELSE IF qid = 0 THEN Ok(SetForms(s, [s.app.forms EXCEPT !.value = NoForms.value]), 0)
      ELSE IF <<have[1], have[2]>> = <<key, qid>> THEN Ok(s, 0)
      ELSE Then(forms_fetch(s), LAMBDA r :
             Ok(SetForms(r.s, [s.app.forms EXCEPT !.value = <<key, qid, <<FormsImage(s), r.val>>>>]), 0))

refresh_current_value_if_needed(s) == CurrentValueOf(s, selected_form_key(s.app.forms))

refresh_question(s) ==
  After(refresh_question_info_if_needed(s), LAMBDA r : refresh_current_value_if_needed(r.s))

StringCount(f) == IF f.strings = Nowhere THEN 0 ELSE Library[f.strings[2]].strings

(* Indexes that pass the filter; here a filter passes the odd ones. *)
strings_visible(f) == {i \in 0..(StringCount(f) - 1) : f.filter => i % 2 = 1}

refresh_strings(s) ==
  Then(forms_fetch(s), LAMBDA r :
    Ok(SetForms(r.s, [s.app.forms EXCEPT !.strings = <<FormsImage(s), r.val>>, !.scursor = 0]), 0))

StoreCount(f) == IF f.stores = Nowhere THEN 0 ELSE Library[f.stores[2]].stores

(* The form set of the selected row (its forms share one target). *)
selected_form_target(f) == IF RowAt(f).kind \in {"form", "set"} THEN RowAt(f).set ELSE NoSet

refresh_varstores(s, target) ==
  Then(forms_fetch(s), LAMBDA r :
    Ok(SetForms(r.s, [s.app.forms EXCEPT !.stores = <<FormsImage(s), r.val>>, !.vtarget = target, !.vcursor = 0]), 0))

(***************************************************************************)
(* The NVRAM pane of the image view.                                       *)
(***************************************************************************)
NoPane == [key |-> <<0, NoPath>>, content |-> 0]

refresh_nvars_if_needed(s) ==
  LET node == selected(s.app.tree)
      key  == <<FormsImage(s), node.path>>
  IN  IF node.path = NoPath THEN Ok(s, 0)
      ELSE IF ~node.nvar THEN Ok(PaneNoted(SetPane(s, NoPane), FALSE), 0)
      ELSE IF key[1] = 0 THEN Err(s)
      ELSE IF s.app.nvar.key = key THEN Ok(s, 0)
      ELSE Then(fetch(s, key[1]), LAMBDA r :
             Ok(PaneNoted(SetPane(r.s, [key |-> key, content |-> r.val]), FALSE), 0))

(***************************************************************************)
(* execute_command                                                         *)
(***************************************************************************)
(* The tree of an image that becomes the active one. *)
show(s, i) ==
  Then(fetch(s, i), LAMBDA r :
    persist_state_best_effort(
      SetActive(FormsNoted(UploadNoted(SetTree(r.s, build_tree(i, r.val)), FALSE), s.note.forms \/ s.app.active # i), i)))

open_in_session(s, write, upload) == in_session(s, LAMBDA t : image_open(t, write, upload))

cmd_open(s, write) ==
  Then(open_in_session(s, write, FALSE), LAMBDA r :
    Then(show(Loaded(r.s), r.val), LAMBDA q :
      After(refresh_registry(q.s), LAMBDA p : Ok(p.s, 0))))

(* The new image is the active one before its tree is listed. *)
cmd_upload(s, write) ==
  Then(open_in_session(s, write, TRUE), LAMBDA r :
    Then(persist_state_best_effort(SetActive(FormsNoted(r.s, TRUE), r.val)), LAMBDA q :
      Then({[s |-> UploadNoted(o.s, o.err # "no"), err |-> o.err, val |-> o.val]
              : o \in refresh_tree(SetTree(Loaded(q.s), [q.s.app.tree EXCEPT !.cursor = 0]))},
           LAMBDA o : refresh_registry(o.s))))

cmd_snapshot(s) ==
  Then(fetch(s, s.client.active), LAMBDA r :
    Ok(SetEngine(r.s, [s.engine EXCEPT !.snap = [@ EXCEPT ![s.client.active] = r.val]]), 0))

(* A restore is an edit; afterwards the tree and the registry are fetched, *)
(* the forms and the pane are not.                                         *)
cmd_restore(s) ==
  LET i == s.client.active
  IN  Then((IF Live(s, i) /\ s.engine.snap[i] # 0
            THEN Fault(s) \cup Ok(Stale(SetContent(s, i, s.engine.snap[i])), 0)
            ELSE Err(s)), LAMBDA r :
        Then(refresh_tree(r.s), LAMBDA q : refresh_registry(q.s)))

cmd_save(s) == fetch(s, s.client.active)

cmd_extract(s) ==
  Then(fetch(s, s.client.active), LAMBDA r :
    After(refresh_registry(SetEngine(r.s, [s.engine EXCEPT !.arts = IF @ < MaxArtifacts THEN @ + 1 ELSE @])),
          LAMBDA q : Ok(q.s, 0)))

import_in_session(s) == in_session(s, artifact_import)

cmd_import(s) ==
  Then(import_in_session(s), LAMBDA r : After(refresh_registry(r.s), LAMBDA q : Ok(q.s, 0)))

(* insert and replace; the path of the selected node is what they act on. *)
cmd_insert(s) ==
  Then(edit(s, s.client.active, FALSE), LAMBDA r :
    After(refresh_registry(r.s), LAMBDA q : After(refresh_tree(q.s), LAMBDA p : Ok(p.s, 0))))

cmd_remove(s) ==
  Then(edit(s, s.client.active, FALSE), LAMBDA r : After(refresh_tree(r.s), LAMBDA q : Ok(q.s, 0)))

cmd_switch(s, i) ==
  Then(ensure_session(s), LAMBDA r :
    Then(show(r.s, i), LAMBDA q :
      After(refresh_registry(Loaded(q.s)), LAMBDA p :
        IF p.s.app.view = "Forms" THEN refresh_forms(p.s) ELSE Ok(p.s, 0))))

Cleared(s) ==
  LET t == SetActive(s, 0) IN SetApp(t, [t.app EXCEPT !.tree = NoTree, !.loaded = FALSE, !.view = "Image"])

(* Mutant: an image that was not the active one is cleared as well. *)
cmd_close_any(s, i) ==
  Then(image_close(s, i), LAMBDA r :
    Ok(Cleared(r.s), 0))

cmd_close(s, i) ==
  Then(image_close(s, i), LAMBDA r :
    Then(IF s.app.active = i
         THEN persist_state_best_effort(UploadNoted(Cleared(r.s), FALSE))
         ELSE Ok(r.s, 0), LAMBDA q :
      After(refresh_registry(q.s), LAMBDA p : Ok(p.s, 0))))

reopen_target(s) ==
  IF s.app.focus = "Registry" /\ current_registry_row(s).kind = "image"
  THEN current_registry_row(s).id ELSE s.app.active

reopen_plan(want, write) ==
  CASE want /\ ~write -> "OpenWrite"
    [] want /\ write -> "AlreadyWrite"
    [] ~want /\ ~write -> "AlreadyRead"
    [] ~want /\ write -> "RefuseUnsavedWrite"

reopen_in_session(s, im) == in_session(s, LAMBDA t : IF im.upload THEN Err(t) ELSE image_open(t, TRUE, FALSE))

(* Opened for writing from its file, shown, and then the old one closed.   *)
reopen(s, want) ==
  LET i == reopen_target(s)
      im == s.app.reg.images[i]
  IN  IF i \notin DOMAIN s.app.reg.images THEN Err(s)
      ELSE CASE reopen_plan(want, im.write) = "RefuseUnsavedWrite" -> Err(s)
             [] reopen_plan(want, im.write) \in {"AlreadyWrite", "AlreadyRead"} -> Ok(s, 0)
             [] reopen_plan(want, im.write) = "OpenWrite" ->
                Then(reopen_in_session(s, im), LAMBDA r :
                  Then(show(r.s, r.val), LAMBDA q :
                    After(image_close(q.s, i), LAMBDA p :
                      After(refresh_registry(p.s), LAMBDA o :
                        IF o.s.app.view = "Forms" THEN refresh_forms(o.s) ELSE Ok(o.s, 0)))))

cmd_forms(s) ==
  Then(refresh_forms(s), LAMBDA r : Ok(SetView(r.s, "Forms"), 0))

details(s) == After(refresh_form_details_if_needed(s), LAMBDA r : Ok(r.s, 0))

(* hii visibility, hii unlock. *)
cmd_hii_flip(s) ==
  Then(edit(s, s.client.active, TRUE), LAMBDA r : Then(reload_forms(r.s), LAMBDA q : details(q.s)))

(* hii set-value: the cursor goes back to the question it was on. *)
cmd_hii_set_value(s) ==
  Then(edit(s, s.client.active, TRUE), LAMBDA r :
    LET qid == selected_question_id(r.s.app.forms)
    IN  Then(reload_forms(r.s), LAMBDA q :
          Then(details(q.s), LAMBDA o :
            LET f  == o.s.app.forms
                at == Position(Asked(f.qfrom, f.qkey), LAMBDA x : x = qid)
            IN  IF qid = 0 \/ at = -1 THEN Ok(o.s, 0)
                ELSE After(refresh_question(SetForms(o.s, [f EXCEPT !.qcursor = at])), LAMBDA n : Ok(n.s, 0)))))

(* What follows every edit that may add nodes. *)
refresh_all(s) ==
  Then(refresh_tree(s), LAMBDA r : Then(reload_forms(r.s), LAMBDA q : details(q.s)))

(* hii formset add, form add, question add, page add, hijack. *)
cmd_hii_add(s) == Then(edit(s, s.client.active, TRUE), LAMBDA r : refresh_all(r.s))

(* hii import: what the package says of references is checked before the   *)
(* first edit, the form is added, then the references; a failure of the    *)
(* second edit is reported and the first one stays.                        *)
hii_import(s, refs, body) ==
  LET Checked(t) == IF refs THEN Then(fetch(t, t.client.active), LAMBDA r :
                                   Err(r.s) \cup Then(fetch(r.s, t.client.active), LAMBDA q : Err(q.s) \cup Ok(q.s, 0)))
                    ELSE Ok(t, 0)
      Added(t)   == IF body THEN Then(fetch(t, t.client.active), LAMBDA r :
                                   Err(r.s) \cup edit(r.s, t.client.active, TRUE))
                    ELSE Ok(t, 0)
      Referred(t) == IF refs THEN Ok(t, 0) \cup After(edit(t, t.client.active, TRUE), LAMBDA r : Ok(r.s, 0))
                     ELSE Ok(t, 0)
  IN  Then(Checked(s), LAMBDA r : Then(Added(r.s), LAMBDA q : Then(Referred(q.s), LAMBDA o : refresh_all(o.s))))

(* nvar list PATH: the cursor moves before the call is made. *)
cmd_nvar_list(s, p) ==
  LET t == SetTree(s, goto_path(s.app.tree, p))
  IN  Then(fetch(t, t.client.active), LAMBDA r :
        IF \E n \in Range(Library[r.val].tree) : n.path = p /\ n.nvar
        THEN Ok(PaneNoted(SetPane(r.s, [key |-> <<r.s.client.active, p>>, content |-> r.val]), FALSE), 0)
        ELSE Err(r.s))

cmd_nvar_set(s) ==
  Then(edit(s, s.client.active, TRUE), LAMBDA r :
    LET t == PaneNoted(SetPane(r.s, [r.s.app.nvar EXCEPT !.key = NoPane.key]), FALSE)
    IN  IF selected(t.app.tree).nvar
        THEN After(refresh_nvars_if_needed(t), LAMBDA q : Ok(q.s, 0)) ELSE Ok(t, 0))

cmd_tse_unhide(s) == IF FormsImage(s) = 0 THEN Err(s) ELSE edit(s, FormsImage(s), TRUE)

(* main: a new process reads the state file; an image that cannot be       *)
(* listed is no longer active, in memory.                                  *)
NoApp ==
  [active |-> 0, loaded |-> FALSE, view |-> "Image", focus |-> "Tree", tree |-> NoTree,
   reg |-> [images |-> <<>>, arts |-> 0, cursor |-> 0], forms |-> NoForms, nvar |-> NoPane]

restore_session(s) ==
  After(refresh_registry(s), LAMBDA r :
    LET i == r.s.client.active
    IN  IF i = 0 THEN Ok(r.s, 0)
        ELSE UNION {IF q.err = "no"
                    THEN Ok(Loaded(SetTree(SetActive(q.s, i), build_tree(i, q.val))), 0)
                    ELSE Ok(Unsaved(SetActive(q.s, 0), TRUE), 0)
                    : q \in fetch(r.s, i)})

(***************************************************************************)
(* Actions: commands.                                                      *)
(***************************************************************************)
HasActive == client.active # 0
Open == \E w \in BOOLEAN : Become(cmd_open(S, w))
Upload == \E w \in BOOLEAN : Become(cmd_upload(S, w))
Snapshot == HasActive /\ Become(cmd_snapshot(S))
Restore == HasActive /\ Become(cmd_restore(S))
Save == HasActive /\ Become(cmd_save(S))
Extract == HasActive /\ Become(cmd_extract(S))
Import == Become(cmd_import(S))
Artifacts == Become(ensure_session(S))
InsertNode == HasActive /\ Become(cmd_insert(S))
RemoveNode == HasActive /\ Become(cmd_remove(S))
ImageView == app.view = "Forms" /\ app' = [app EXCEPT !.view = "Image"] /\ UNCHANGED <<engine, client, disk, note>>
Switch == \E i \in Images : engine.img[i].st # "new" /\ Become(cmd_switch(S, i))
Close == \E i \in Images : engine.img[i].st # "new" /\ Become(cmd_close(S, i))
Reopen == \E want \in BOOLEAN : Become(reopen(S, want))
FormsCommand == Become(cmd_forms(S))
HiiFlip == HasActive /\ Become(cmd_hii_flip(S))
HiiSetValue == HasActive /\ Become(cmd_hii_set_value(S))
HiiAdd == HasActive /\ Become(cmd_hii_add(S))
HiiImport == HasActive /\ \E refs, body \in BOOLEAN : (refs \/ body) /\ Become(hii_import(S, refs, body))
NvarList == HasActive /\ \E n \in Range(Nodes(app.tree)) : Become(cmd_nvar_list(S, n.path))
NvarSet == HasActive /\ Become(cmd_nvar_set(S))
TseUnhide == Become(cmd_tse_unhide(S))
Refresh == Become(refresh_registry(S))

Start == Become(restore_session([S EXCEPT !.app = NoApp, !.client = disk,
                                          !.note = [@ EXCEPT !.forms = FALSE, !.pane = FALSE, !.upload = FALSE]]))

(***************************************************************************)
(* Actions: keys of the normal mode.                                       *)
(***************************************************************************)
OnlyApp(a) == app' = a /\ UNCHANGED <<engine, client, disk, note>>
OnlyForms(f) == OnlyApp([app EXCEPT !.forms = f])

Goto == \E n \in Range(Nodes(app.tree)) : OnlyApp([app EXCEPT !.tree = goto_path(@, n.path)])

(* One row or one page, in the bounds of a list of n rows. *)
Moves(cursor, n) == {c \in 0..(n - 1) : c \in {cursor + 1, cursor - 1, 0, n - 1}}

MoveInTree == app.view = "Image" /\ app.focus = "Tree" /\
  \E c \in Moves(app.tree.cursor, Len(visible_rows(app.tree))) :
    Become(After(refresh_nvars_if_needed(SetTree(S, [app.tree EXCEPT !.cursor = c])), LAMBDA r : Ok(r.s, 0)))

ExpandNode == app.view = "Image" /\ app.focus = "Tree" /\
  \E e \in BOOLEAN : OnlyApp([app EXCEPT !.tree = set_expand_selected(@, e)])

MoveInRegistry == app.view = "Image" /\ app.focus = "Registry" /\
  \E c \in {app.reg.cursor - 1, app.reg.cursor + 1} \cap 0..(Len(registry_selectable(app.reg)) - 1) :
    OnlyApp([app EXCEPT !.reg = [@ EXCEPT !.cursor = c]])

FocusMove == app.view = "Image" /\
  \E to \in {"Registry", "Tree", "Details"} \ {app.focus} :
    LET t == SetApp(S, [app EXCEPT !.focus = to])
    IN  IF to = "Details" THEN Become(After(refresh_nvars_if_needed(t), LAMBDA r : Ok(r.s, 0))) ELSE OnlyApp(t.app)

RegistryEnter ==
  /\ app.view = "Image" /\ app.focus = "Registry" /\ current_registry_row(S).kind = "image"
  /\ Become(After(cmd_switch(S, current_registry_row(S).id), LAMBDA r : Ok(SetApp(r.s, [r.s.app EXCEPT !.focus = "Tree"]), 0)))

(* Tab. The forms view is entered whether or not its forms were fetched.   *)
switch_view ==
  IF app.view = "Forms"
  THEN Become(After(refresh_nvars_if_needed(SetView(S, "Image")), LAMBDA r : Ok(r.s, 0)))
  ELSE FormsImage(S) # 0 /\ Become(refresh_forms(SetView(S, "Forms")))

InList == app.view = "Forms" /\ ~app.forms.showS /\ ~app.forms.showV

(* A change of the list that is followed by refresh_form_details. *)
ListKey(f) == Become(details(SetForms(S, f)))

MoveInForms == InList /\ app.forms.focus = "List" /\
  \E c \in Moves(app.forms.cursor, Len(forms_rows(app.forms))) : ListKey([app.forms EXCEPT !.cursor = c])

ExpandForm == InList /\ app.forms.focus = "List" /\ \E e \in BOOLEAN : ListKey(forms_set_expanded(app.forms, e))

ToggleFlat == InList /\ ListKey(forms_sanitize_cursor([app.forms EXCEPT !.flat = ~@]))

MoveInQuestions == InList /\ app.forms.focus = "Details" /\
  \E c \in Moves(app.forms.qcursor, Len(Asked(app.forms.qfrom, app.forms.qkey))) :
    Become(After(refresh_question(SetForms(S, [app.forms EXCEPT !.qcursor = c])), LAMBDA r : Ok(r.s, 0)))

FormsFocus == app.view = "Forms" /\ \E to \in {"List", "Details"} \ {app.forms.focus} :
  OnlyForms([app.forms EXCEPT !.focus = to])

(* u and v on a form: hii unlock, and hii visibility on a hidden one. *)
FormKeyCommand ==
  /\ InList /\ HasActive /\ selected_form_key(app.forms) # NoKey
  /\ Become(cmd_hii_flip(S))

ToggleStrings == app.view = "Forms" /\
  LET t == SetForms(S, [app.forms EXCEPT !.showS = ~@])
  IN  Become(IF t.app.forms.showS /\ StringCount(app.forms) = 0
             THEN After(refresh_strings(t), LAMBDA r : Ok(r.s, 0)) ELSE Ok(t, 0))

MoveInStrings == app.view = "Forms" /\ app.forms.showS /\ ~app.forms.showV /\
  \E i \in strings_visible(app.forms) : OnlyForms([app.forms EXCEPT !.scursor = i])

Filter == app.forms.showS /\ \E on \in BOOLEAN :
  OnlyForms([app.forms EXCEPT !.filter = on, !.scursor = 0])

ToggleVarstores == app.view = "Forms" /\
  LET target == selected_form_target(app.forms)
      t == SetForms(S, [app.forms EXCEPT !.showV = ~@])
  IN  Become(IF t.app.forms.showV /\ target # NoSet /\ app.forms.vtarget # target
             THEN After(refresh_varstores(t, target), LAMBDA r : Ok(r.s, 0)) ELSE Ok(t, 0))

MoveInVarstores == app.view = "Forms" /\ app.forms.showV /\
  \E c \in Moves(app.forms.vcursor, StoreCount(app.forms)) : OnlyForms([app.forms EXCEPT !.vcursor = c])

(***************************************************************************)
(* Other clients of the engine.                                            *)
(***************************************************************************)
OtherEdits == \E i \in Images : Live(S, i) /\ \E c \in Contents \ {engine.img[i].content} :
  Become(Ok(Stale(SetContent(S, i, c)), 0))

OtherCloses == \E i \in Images : Live(S, i) /\ Become(Ok(Stale(Dropped(S, i)), 0))

(* The session expires or is destroyed, its rows with it. *)
SessionEnds == \E n \in Sessions : engine.sess[n].st = "live" /\
  Become(Ok(Stale(SetEngine(S,
    [engine EXCEPT !.sess = [@ EXCEPT ![n] = [st |-> "gone"]], !.arts = 0,
                   !.img = [i \in Images |-> IF engine.img[i].sess = n /\ engine.img[i].st = "live"
                                             THEN Closed ELSE engine.img[i]]])), 0))

NoNote == [faults |-> 0, unsaved |-> FALSE, upload |-> FALSE, forms |-> FALSE, pane |-> FALSE]

Init ==
  /\ engine = [sess |-> [n \in Sessions |-> [st |-> "new"]], img |-> [i \in Images |-> NoImage],
               snap |-> [i \in Images |-> 0], arts |-> 0]
  /\ client = [sess |-> 0, active |-> 0] /\ disk = client
  /\ app = NoApp /\ note = NoNote

SessionCommands ==
  \/ Open \/ Upload \/ Import \/ Artifacts \/ Switch \/ Close \/ Reopen \/ Refresh \/ Start
NodeCommands ==
  \/ Snapshot \/ Restore \/ Save \/ Extract \/ InsertNode \/ RemoveNode \/ NvarList \/ NvarSet \/ TseUnhide
FormsCommands == FormsCommand \/ HiiFlip \/ HiiSetValue \/ FormKeyCommand
AddCommands == HiiAdd \/ HiiImport
RegistryKeys == MoveInRegistry \/ FocusMove \/ RegistryEnter
TreeKeys == Goto \/ MoveInTree \/ ExpandNode
FormsKeys == MoveInForms \/ ExpandForm \/ ToggleFlat \/ MoveInQuestions \/ FormsFocus \/ ImageView
BrowserKeys == ToggleStrings \/ MoveInStrings \/ Filter \/ ToggleVarstores \/ MoveInVarstores

Next ==
  \/ SessionCommands \/ NodeCommands \/ FormsCommands \/ AddCommands
  \/ RegistryKeys \/ TreeKeys \/ switch_view \/ FormsKeys \/ BrowserKeys
  \/ OtherEdits \/ OtherCloses \/ SessionEnds

Spec == Init /\ [][Next]_vars

(***************************************************************************)
(* Properties.                                                             *)
(***************************************************************************)
(* Images, sessions and positions are those there can be: a row that is    *)
(* looked up is found (goto_path, refresh_tree).                           *)
TypeOK ==
  /\ \A i \in Images : engine.img[i].st \in {"new", "live", "gone"} /\ engine.snap[i] \in Contents \cup {0}
  /\ client \in [sess : 0..MaxSessions, active : 0..MaxImages]
  /\ disk \in [sess : 0..MaxSessions, active : 0..MaxImages]
  /\ app.active \in 0..MaxImages /\ app.view \in {"Image", "Forms"}
  /\ app.focus \in {"Registry", "Tree", "Details"} /\ app.forms.focus \in {"List", "Details"}
  /\ app.tree.cursor \in Nat /\ app.forms.cursor \in Nat /\ app.forms.qcursor \in Nat
  /\ note.faults \in 0..MaxFaults

(* The image commands edit (client.state.active_image) is the image the    *)
(* forms view and the header show (app.active_image), whatever failed or   *)
(* was restarted on the way.                                               *)
ActiveAgrees == app.active = client.active

(* Unless a write of the state file failed (or the client has only just    *)
(* learned that its session or image is gone), a client started anew finds *)
(* the session and image this one has.                                     *)
PersistedState == ~note.unsaved => disk = client

(* The node tree, whose paths the node commands send, is the tree of the   *)
(* active image; only an upload whose listing failed leaves the old one.   *)
TreeOfActive == ~note.upload => app.tree.of = app.active

InList0(c, n) == c < n \/ c = 0

(* Every cursor stays within its list through edits, refreshes, foldings   *)
(* and filters, so that a key acts on a row that is drawn.                 *)
CursorsInRange ==
  LET f == app.forms
  IN  /\ TypeOK
      /\ InList0(app.tree.cursor, Len(visible_rows(app.tree)))
      /\ InList0(app.reg.cursor, Len(registry_selectable(app.reg)))
      /\ InList0(f.cursor, Len(forms_rows(f)))
      /\ f.qkey # NoKey => InList0(f.qcursor, Len(Asked(f.qfrom, f.qkey)))
      /\ InList0(f.scursor, StringCount(f))
      /\ InList0(f.vcursor, StoreCount(f))

(* While the forms view is up and nobody has edited or replaced the image  *)
(* behind it (an open from this view replaces it and keeps the old forms), *)
(* forms, questions, question info and value all come from the active      *)
(* image as it is now: a fold of several fetches never mixes two images or *)
(* two states of one.                                                      *)
ShownFormsCurrent ==
  LET f    == app.forms
      here == {Nowhere, <<app.active, IF app.active = 0 THEN 0 ELSE engine.img[app.active].content>>}
  IN  app.view = "Forms" /\ ~note.forms =>
        {f.from, f.qfrom, f.info[3], f.value[3]} \subseteq here

(* The question info that is shown belongs to a question of the form it is *)
(* shown for, also when the questions of a form could not be fetched.      *)
InfoOfItsForm ==
  \A have \in {app.forms.info, app.forms.value} : have[1] # NoKey =>
    \E c \in Contents : have[1] \in DOMAIN Library[c].asks /\ have[2] \in Range(Library[c].asks[have[1]])

(* As long as the image it names is there and nobody has edited an image,  *)
(* the NVRAM pane shows the variables of that image as they are.           *)
PaneCurrent ==
  LET i == app.nvar.key[1]
  IN  i # 0 /\ Live(S, i) /\ ~note.pane => engine.img[i].content = app.nvar.content

(* Opened completely, the tree of forms shows every form of the image, as  *)
(* the flat list does: cycles and references into other form sets hide     *)
(* none (build_tree_rows).                                                 *)
EveryFormShown ==
  LET f == app.forms
      Shown(rows) == {FormKey(rows[i]) : i \in {j \in DOMAIN rows : rows[j].kind = "form"}}
      all == all_row_keys(f.forms, f.edges)
  IN  f.expanded = all =>
        Shown(build_tree_rows(f.forms, f.edges, all)) = Shown(build_rows(f.forms, all))

(* Opening or closing a row leaves the cursor on a row of the same form or  *)
(* form set, or on the row that was opened or closed (forms_set_expanded    *)
(* follows the row by its key); everything else that changes what is open   *)
(* opens the list completely.                                               *)
ExpandKeepsSelection ==
  [][LET f == app.forms
         g == app'.forms
     IN  g.expanded # f.expanded /\ g.from = f.from /\ g.forms = f.forms =>
           \/ g.expanded = all_row_keys(g.forms, g.edges)
           \/ RowAt(g).kind = RowAt(f).kind /\ FormKey(RowAt(g)) = FormKey(RowAt(f))
           \/ IsRow(RowAt(g), ExpandKey(f, RowAt(f)))]_vars

(* There is one active image: the tree that is listed, the node commands    *)
(* and the forms commands are about it, in the app and in the client. (Forms *)
(* on the screen may be those of the image before: ShownFormsCurrent.)       *)
OneActiveImage == ActiveAgrees /\ TreeOfActive

(* Nothing that is shown is left over from another image, another form or  *)
(* an earlier state of the image.                                          *)
ShownIsCurrent == ShownFormsCurrent /\ InfoOfItsForm /\ PaneCurrent

(* A key acts on a row that is drawn, and no form of the image is missing  *)
(* from the rows.                                                          *)
RowsSound == CursorsInRange /\ EveryFormShown
=============================================================================
