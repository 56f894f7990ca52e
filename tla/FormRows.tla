------------------------------ MODULE FormRows ------------------------------
(* The rows of the forms list of the terminal client (uefi-tui/src/forms.rs *)
(* and the forms_* methods of app.rs): forms are records [set, id, visible] *)
(* in the engine's order, edges are REF opcodes [set, parent, id, target]   *)
(* whose target is a form set or NoSet. Titles, depths and paths are only   *)
(* drawn and are left out; a form's key is <<set, id>>.                     *)
EXTENDS Integers, Sequences, SequencesExt, FiniteSets

NoSet == "none"

NoKey == <<>>

SetRow(g) == [kind |-> "set", set |-> g, id |-> 0, visible |-> FALSE, kids |-> FALSE]

FormRow(f, kids) ==
  [kind |-> "form", set |-> f.set, id |-> f.id, visible |-> f.visible, kids |-> kids]

DanglingRef(id) == [kind |-> "dangling", set |-> NoSet, id |-> id, visible |-> FALSE, kids |-> FALSE]

FormKey(f) == <<f.set, f.id>>

(* The elements at the places I, in their order. *)
WithPlace(acc, s, I, i) == IF i \in I THEN Append(acc, s[i]) ELSE acc
Picked(s, I) ==
  LET acc[i \in 0..Len(s)] == IF i = 0 THEN <<>> ELSE WithPlace(acc[i - 1], s, I, i)
  IN  acc[Len(s)]

Keep(s, P(_)) == Picked(s, {i \in DOMAIN s : P(s[i])})

(* Keeps the first occurrence of each element. *)
Distinct(s) == Picked(s, {i \in DOMAIN s : \A j \in 1..(i - 1) : s[j] # s[i]})

(* The form sets in the order of their first form. *)
formset_order(forms) == Distinct([i \in DOMAIN forms |-> forms[i].set])

OfSet(forms, g) == Keep(forms, LAMBDA f : f.set = g)

build_rows(forms, expanded) ==
  FlattenSeq([n \in DOMAIN formset_order(forms) |->
    LET g == formset_order(forms)[n]
    IN  <<SetRow(g)>> \o
        (IF <<g>> \in expanded
         THEN [i \in DOMAIN OfSet(forms, g) |-> FormRow(OfSet(forms, g)[i], FALSE)]
         ELSE <<>>)])

(* The two maps of build_tree_rows: a later form with the same key wins. *)
HasForm(forms, key) == \E i \in DOMAIN forms : FormKey(forms[i]) = key

FormAt(forms, key) ==
  forms[CHOOSE i \in DOMAIN forms :
    /\ FormKey(forms[i]) = key
    /\ \A j \in DOMAIN forms : FormKey(forms[j]) = key => j <= i]

Children(edges, g, id) ==
  LET own == Keep(edges, LAMBDA e : e.set = g /\ e.parent = id)
  IN  Distinct([i \in DOMAIN own |-> <<own[i].id, own[i].target>>])

has_incoming(edges, g) == {edges[i].id : i \in {j \in DOMAIN edges : edges[j].set = g}}

(* What the roots of a form set reach through forms of the same set. *)
WithBelow(forms, edges, g, known) ==
  LET below == UNION {{k[1] : k \in Range(Children(edges, g, id))} : id \in known}
  IN  known \cup {id \in below : HasForm(forms, <<g, id>>)}

reachable(forms, edges, g, from) ==
  LET reached[n \in 0..Len(forms)] == IF n = 0 THEN from ELSE WithBelow(forms, edges, g, reached[n - 1])
  IN  reached[Len(forms)]

(* The rows of a reference k: the rows of the form, if it is of the same    *)
(* form set; a target in another form set is looked up there.              *)
RefRows(forms, g, k, own) ==
  IF HasForm(forms, <<g, k[1]>>) THEN own
  ELSE IF k[2] # NoSet /\ HasForm(forms, <<k[2], k[1]>>)
  THEN <<FormRow(FormAt(forms, <<k[2], k[1]>>), FALSE)>>
  ELSE <<DanglingRef(k[1])>>

(* One form with what is open below it; a form on the path to itself is    *)
(* left out. A place is a form and the forms on the path to it.            *)
Ids(forms) == {forms[i].id : i \in DOMAIN forms}
Places(forms) == Ids(forms) \X SUBSET Ids(forms)

EmitWith(forms, expanded, g, at, kids, emit) ==
  IF at[1] \in at[2] \/ ~HasForm(forms, <<g, at[1]>>) THEN <<>>
  ELSE <<FormRow(FormAt(forms, <<g, at[1]>>), kids # <<>>)>> \o
       (IF <<g, at[1]>> \in expanded
        THEN FlattenSeq([i \in DOMAIN kids |-> RefRows(forms, g, kids[i], emit[<<kids[i][1], at[2] \cup {at[1]}>>])])
        ELSE <<>>)

EmitAt(forms, edges, expanded, g, at, emit) == EmitWith(forms, expanded, g, at, Children(edges, g, at[1]), emit)

emit_form(forms, edges, expanded, g, first) ==
  LET emit[at \in Places(forms)] == EmitAt(forms, edges, expanded, g, at, emit)
  IN  emit[<<first, {}>>]

IdsOf(list) == [i \in DOMAIN list |-> list[i].id]

(* The roots, then what they do not reach, each as a root of its own. *)
QueueFrom(forms, edges, g, ids, roots) ==
  LET seen == reachable(forms, edges, g, Range(roots))
  IN  roots \o Distinct(Keep(ids, LAMBDA id : id \notin seen /\ id \notin Range(roots)))

RootQueue(forms, edges, g) ==
  LET ids == IdsOf(OfSet(forms, g))
  IN  QueueFrom(forms, edges, g, ids, Keep(ids, LAMBDA id : id \notin has_incoming(edges, g)))

Shows(rows, g, id) == \E i \in DOMAIN rows : rows[i].kind = "form" /\ <<rows[i].set, rows[i].id>> = <<g, id>>

WithRoot(rows, forms, edges, expanded, g, id) ==
  IF Shows(rows, g, id) THEN rows ELSE rows \o emit_form(forms, edges, expanded, g, id)

QueueRows(forms, edges, expanded, g, queue) ==
  LET rows[i \in 0..Len(queue)] ==
        IF i = 0 THEN <<>> ELSE WithRoot(rows[i - 1], forms, edges, expanded, g, queue[i])
  IN  rows[Len(queue)]

tree_of_set(forms, edges, expanded, g) == QueueRows(forms, edges, expanded, g, RootQueue(forms, edges, g))

build_tree_rows(forms, edges, expanded) ==
  FlattenSeq([n \in DOMAIN formset_order(forms) |->
    LET g == formset_order(forms)[n]
    IN  <<SetRow(g)>> \o
        (IF <<g>> \in expanded THEN tree_of_set(forms, edges, expanded, g) ELSE <<>>)])

(* The keys that are open when the view is entered: form sets and parents. *)
all_row_keys(forms, edges) ==
  {<<forms[i].set>> : i \in DOMAIN forms} \cup
  {FormKey(forms[i]) : i \in {j \in DOMAIN forms :
     \E e \in Range(edges) : e.set = forms[j].set /\ e.parent = forms[j].id}}

forms_rows(f) ==
  IF f.flat THEN build_rows(f.forms, f.expanded) ELSE build_tree_rows(f.forms, f.edges, f.expanded)

RowIn(rows, cursor) == IF cursor < Len(rows) THEN rows[cursor + 1] ELSE [kind |-> "no row"]

RowAt(f) == RowIn(forms_rows(f), f.cursor)

KeyOfRow(row) == IF row.kind = "form" THEN FormKey(row) ELSE NoKey

selected_form_key(f) == KeyOfRow(RowAt(f))

(* Position of the first row, counted from 0, or -1. *)
Position(rows, P(_)) ==
  LET at == {i \in DOMAIN rows : P(rows[i])}
  IN  IF at = {} THEN -1 ELSE (CHOOSE i \in at : \A j \in at : i <= j) - 1

Clamp(cursor, n) == IF cursor < n THEN cursor ELSE IF n = 0 THEN 0 ELSE n - 1

forms_sanitize_cursor(f) == [f EXCEPT !.cursor = Clamp(@, Len(forms_rows(f)))]

(* What h and l open or close: the row itself if it has something below,   *)
(* else the form that refers to it first, else its form set.               *)
ExpandKey(f, row) ==
  LET parent == Keep(f.edges, LAMBDA e : e.set = row.set /\ e.id = row.id)
  IN  CASE row.kind = "set" -> <<row.set>>
        [] row.kind = "form" /\ ~f.flat /\ row.kids -> FormKey(row)
        [] row.kind = "form" /\ ~f.flat /\ ~row.kids /\ parent # <<>> -> <<row.set, parent[1].parent>>
        [] row.kind = "form" /\ (f.flat \/ (~row.kids /\ parent = <<>>)) -> <<row.set>>
        [] OTHER -> <<>>

IsRow(row, key) ==
  \/ row.kind = "set" /\ key = <<row.set>>
  \/ row.kind = "form" /\ key = FormKey(row)

(* Mutant: the cursor keeps its number instead of its form. *)
RowFollowed_by_number(g, rows, row, key) == [g EXCEPT !.cursor = Clamp(@, Len(rows))]

(* The row that was selected, else the row that was closed over it. *)
RowFollowed(g, rows, row, key) ==
  LET same == Position(rows, LAMBDA r : key # <<>> /\ r.kind = row.kind /\ FormKey(r) = FormKey(row))
      up   == Position(rows, LAMBDA r : IsRow(r, key) /\ (r.kind = "set" \/ ~g.flat))
      to   == IF same # -1 THEN same ELSE IF up # -1 THEN up ELSE g.cursor
  IN  [g EXCEPT !.cursor = Clamp(to, Len(rows))]

WithRows(g, row, key) == RowFollowed(g, forms_rows(g), row, key)

SetExpanded(f, row, key, expand) ==
  WithRows([f EXCEPT !.expanded = IF key = <<>> THEN @ ELSE IF expand THEN @ \cup {key} ELSE @ \ {key}], row, key)

SetRowExpanded(f, row, expand) == SetExpanded(f, row, ExpandKey(f, row), expand)

forms_set_expanded(f, expand) == SetRowExpanded(f, RowAt(f), expand)
=============================================================================
